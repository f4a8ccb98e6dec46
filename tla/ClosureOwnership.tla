-------------------------- MODULE ClosureOwnership --------------------------
(***************************************************************************)
(* What the FFI promises about a sample closure handed to a declaration:   *)
(* it is built into the caller's variable, its ownership may pass once to  *)
(* a subscription, and it is released once, by whoever owns it then.      *)
(* Ownership never goes back: a subscription never returns its closure to *)
(* the caller, and a released closure is never owned again.  The caller   *)
(* has one closure variable, so at most one closure is the caller's.      *)
(***************************************************************************)
CONSTANT Closures

VARIABLE owner  \* each closure: "unbuilt", "caller", "subscriber" or "released"

Owners == {"unbuilt", "caller", "subscriber", "released"}

Init == owner = [c \in Closures |-> "unbuilt"]

Build(c) ==
    /\ owner[c] = "unbuilt"
    /\ \A d \in Closures : owner[d] # "caller"
    /\ owner' = [owner EXCEPT ![c] = "caller"]

Subscribe(c) ==
    /\ owner[c] = "caller"
    /\ owner' = [owner EXCEPT ![c] = "subscriber"]

Release(c) ==
    /\ owner[c] \in {"caller", "subscriber"}
    /\ owner' = [owner EXCEPT ![c] = "released"]

Next == \E c \in Closures : Build(c) \/ Subscribe(c) \/ Release(c)

Spec == Init /\ [][Next]_owner
====
