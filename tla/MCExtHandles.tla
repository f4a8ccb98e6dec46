---------------------------- MODULE MCExtHandles ----------------------------
(***************************************************************************)
(* The owned handles of the FFI: the zenoh-ext handles (ExtHandles) and    *)
(* the owned-memory macros of lib.rs (OwnedMemory).  The two share no      *)
(* state, so interleaving them adds no behaviour to either: a behaviour    *)
(* here is one of either component, chosen by `side`, while the other     *)
(* stays in its initial state.  Every property checked is about one        *)
(* component's own variables.                                              *)
(***************************************************************************)
EXTENDS ExtHandles, OwnedMemory

CONSTANTS o1, o2, a1, a2, a3

VARIABLE side

(* PublicationCacheBuilder::new in zenoh-ext: history 1, no resources limit *)
MCBuilderDefault == [history |-> 1, limit |-> NoLimit]
(* an errno, as ze_undeclare_querying_subscriber returns it *)
MCCloseErr == -1

MCInit == side \in {"ext", "owned"} /\ Init /\ OwnedInit

MCNext ==
    \/ side = "ext" /\ Next /\ UNCHANGED <<ovars, side>>
    \/ side = "owned" /\ OwnedNext /\ UNCHANGED <<vars, side>>

MCSpec == MCInit /\ [][MCNext]_<<vars, ovars, side>>
(* the alignments of Rust and C types below 10^4: powers of two *)
MCAlignments == {2^e : e \in 0..13}
====
