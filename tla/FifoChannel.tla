---------------------------- MODULE FifoChannel ----------------------------
(***************************************************************************)
(* What the query fifo channels of closures/query_channel.rs promise their *)
(* two users, with no buffer bound, no blocking and no threads: a queue of *)
(* the queries the send end was given, taken out in order by the recv end; *)
(* a recv call answers with the oldest query, with the end of the stream   *)
(* once the send end is gone and nothing is left, or (when it does not     *)
(* wait) with "nothing yet" while the send end is alive.  Dropping the     *)
(* recv end discards what was not taken; queries given afterwards are      *)
(* dropped.                                                                *)
(***************************************************************************)
EXTENDS Naturals, Sequences

CONSTANTS
    Queries,    \* the queries
    Null,       \* the invalidated query written at the end of the stream
    Uninit      \* the out-parameter a call after the drop leaves unwritten

VARIABLES
    buf,        \* the queries given and not yet taken
    offered,    \* every query given to the send end, in order
    results,    \* the answers of the recv calls: [q, ret]
    txOpen,     \* the send end is alive
    rxOpen      \* the recv end is alive

vars == <<buf, offered, results, txOpen, rxOpen>>

Answer(q, ret) == results' = Append(results, [q |-> q, ret |-> ret])

Init ==
    /\ buf = <<>> /\ offered = <<>> /\ results = <<>>
    /\ txOpen = TRUE /\ rxOpen = TRUE

Put(q) ==
    /\ txOpen
    /\ offered' = Append(offered, q)
    /\ buf' = IF rxOpen THEN Append(buf, q) ELSE buf
    /\ UNCHANGED <<results, txOpen, rxOpen>>

Take ==
    /\ rxOpen /\ buf # <<>>
    /\ Answer(Head(buf), TRUE)
    /\ buf' = Tail(buf)
    /\ UNCHANGED <<offered, txOpen, rxOpen>>

EndOfStream ==
    /\ rxOpen /\ buf = <<>> /\ ~txOpen
    /\ Answer(Null, TRUE)
    /\ UNCHANGED <<buf, offered, txOpen, rxOpen>>

NothingYet ==
    /\ rxOpen /\ buf = <<>> /\ txOpen
    /\ Answer(Null, FALSE)
    /\ UNCHANGED <<buf, offered, txOpen, rxOpen>>

CloseSend ==
    /\ txOpen /\ txOpen' = FALSE
    /\ UNCHANGED <<buf, offered, results, rxOpen>>

CloseRecv ==
    /\ rxOpen /\ rxOpen' = FALSE
    /\ buf' = <<>>
    /\ UNCHANGED <<offered, results, txOpen>>

CallAfterClose ==
    /\ ~rxOpen
    /\ Answer(Uninit, TRUE)
    /\ UNCHANGED <<buf, offered, txOpen, rxOpen>>

Next ==
    \/ \E q \in Queries : Put(q)
    \/ Take \/ EndOfStream \/ NothingYet
    \/ CloseSend \/ CloseRecv \/ CallAfterClose

Spec == Init /\ [][Next]_vars
====
