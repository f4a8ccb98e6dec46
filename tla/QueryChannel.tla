---------------------------- MODULE QueryChannel ----------------------------
(***************************************************************************)
(* The query fifo channels of closures/query_channel.rs.                   *)
(* zc_query_fifo_new and zc_query_non_blocking_fifo_new return a pair of   *)
(* closures around one std::sync::mpsc channel: the send closure (given to *)
(* a queryable, called from zenoh's thread) clones each query into the     *)
(* channel, and the recv closure (called by the application thread) takes  *)
(* the next query out, blocking (rx.recv) or not (rx.try_recv).            *)
(* bound = 0 gives an unbounded mpsc::channel, bound > 0 a sync_channel    *)
(* whose send blocks while the buffer holds bound queries.                 *)
(*                                                                         *)
(* The i-th query given to the send closure is the number i.  Dropping a   *)
(* closure drops its end of the channel: the Sender inside the send        *)
(* closure, the Receiver inside the recv closure.  The closure contract    *)
(* (drop only after every call has ended) is a guard of the drops.         *)
(***************************************************************************)
EXTENDS Naturals, Sequences, SequencesExt

CONSTANTS
    Bounds,     \* the values of `bound` the constructors are called with
    MaxSends,   \* bound on the queries the send closure is given
    MaxCalls    \* bound on the calls of the recv closure

Queries == 1..MaxSends
Null    == 0                  \* z_query_null: the invalidated query
Uninit  == MaxSends + 1       \* the out-parameter left unwritten

VARIABLES
    blocking,   \* TRUE: zc_query_fifo_new, FALSE: the non-blocking variant
    bound,      \* the `bound` argument
    queue,      \* the mpsc buffer
    txAlive,    \* the send closure (and its Sender) is not dropped
    rxAlive,    \* the recv closure (and its Receiver) is not dropped
    sending,    \* the query a send call is blocked on, 0 if none
    receiver,   \* "idle" or "blocked" in rx.recv()
    offered,    \* the queries passed to the send closure, in call order
    lost,       \* queries whose tx.send returned Err (closed reply_fifo)
    results     \* what each recv call returned: [q, ret]

vars == <<blocking, bound, queue, txAlive, rxAlive, sending, receiver,
          offered, lost, results>>

(* sync_channel(bound) is full; mpsc::channel() never is *)
Full == bound > 0 /\ Len(queue) >= bound

Return(q, ret) == results' = Append(results, [q |-> q, ret |-> ret])

-----------------------------------------------------------------------------
(* get_send_recv_ends and the two constructors *)
Init ==
    /\ blocking \in BOOLEAN
    /\ bound \in Bounds
    /\ queue = <<>>
    /\ txAlive = TRUE
    /\ rxAlive = TRUE
    /\ sending = 0
    /\ receiver = "idle"
    /\ offered = <<>>
    /\ lost = {}
    /\ results = <<>>

(* mutant: the closure still runs after its drop (the guard is missing) *)
SendAfterDrop ==
    /\ sending = 0 /\ Len(offered) < MaxSends
    /\ rxAlive /\ ~Full
    /\ LET q == Len(offered) + 1 IN
         /\ offered' = Append(offered, q)
         /\ queue' = Append(queue, q)
    /\ UNCHANGED <<blocking, bound, txAlive, rxAlive, sending, receiver, lost, results>>

(* mutant: the clone into `this` is skipped and an invalidated query is sent *)
SendUncloned ==
    /\ txAlive /\ sending = 0 /\ Len(offered) < MaxSends
    /\ rxAlive /\ ~Full
    /\ offered' = Append(offered, Len(offered) + 1)
    /\ queue' = Append(queue, Null)
    /\ UNCHANGED <<blocking, bound, txAlive, rxAlive, sending, receiver, lost, results>>

(* the send closure: z_query_clone, then tx.send succeeds at once *)
Send ==
    /\ txAlive /\ sending = 0 /\ Len(offered) < MaxSends
    /\ rxAlive /\ ~Full
    /\ LET q == Len(offered) + 1 IN
         /\ offered' = Append(offered, q)
         /\ queue' = Append(queue, q)
    /\ UNCHANGED <<blocking, bound, txAlive, rxAlive, sending, receiver, lost, results>>

(* mutant: the query is also pushed into the buffer it found full *)
SendFullEnqueues ==
    /\ txAlive /\ sending = 0 /\ Len(offered) < MaxSends
    /\ rxAlive /\ Full
    /\ LET q == Len(offered) + 1 IN
         /\ offered' = Append(offered, q)
         /\ queue' = Append(queue, q)
         /\ sending' = q
    /\ UNCHANGED <<blocking, bound, txAlive, rxAlive, receiver, lost, results>>

(* tx.send on a full sync_channel blocks the calling zenoh thread *)
SendFull ==
    /\ txAlive /\ sending = 0 /\ Len(offered) < MaxSends
    /\ rxAlive /\ Full
    /\ LET q == Len(offered) + 1 IN
         /\ offered' = Append(offered, q)
         /\ sending' = q
    /\ UNCHANGED <<blocking, bound, queue, txAlive, rxAlive, receiver, lost, results>>

(* tx.send returns Err: "Attempted to push onto a closed reply_fifo" *)
SendClosed ==
    /\ txAlive /\ sending = 0 /\ Len(offered) < MaxSends
    /\ ~rxAlive
    /\ LET q == Len(offered) + 1 IN
         /\ offered' = Append(offered, q)
         /\ lost' = lost \cup {q}
    /\ UNCHANGED <<blocking, bound, queue, txAlive, rxAlive, sending, receiver, results>>

(* mutant: the completed send is not cleared and is delivered again *)
SendWakeKeepsSending ==
    /\ sending # 0 /\ rxAlive /\ ~Full
    /\ queue' = Append(queue, sending)
    /\ UNCHANGED <<blocking, bound, txAlive, rxAlive, sending, receiver, offered, lost, results>>

(* the blocked send completes once the receiver made room *)
SendWake ==
    /\ sending # 0 /\ rxAlive /\ ~Full
    /\ queue' = Append(queue, sending)
    /\ sending' = 0
    /\ UNCHANGED <<blocking, bound, txAlive, rxAlive, receiver, offered, lost, results>>

(* the blocked send returns Err because the Receiver was dropped *)
SendWakeClosed ==
    /\ sending # 0 /\ ~rxAlive
    /\ lost' = lost \cup {sending}
    /\ sending' = 0
    /\ UNCHANGED <<blocking, bound, queue, txAlive, rxAlive, receiver, offered, results>>

(* z_closure_query_drop of the send end, after its last call has ended *)
DropSend ==
    /\ txAlive /\ sending = 0
    /\ txAlive' = FALSE
    /\ UNCHANGED <<blocking, bound, queue, rxAlive, sending, receiver, offered, lost, results>>

-----------------------------------------------------------------------------
RecvCallable == rxAlive /\ Len(results) < MaxCalls

(* blocking recv: rx.recv() returns Ok(val), written to the out-parameter *)
RecvValue ==
    /\ blocking /\ RecvCallable /\ receiver \in {"idle", "blocked"}
    /\ queue # <<>>
    /\ Return(Head(queue), TRUE)
    /\ queue' = Tail(queue)
    /\ receiver' = "idle"
    /\ UNCHANGED <<blocking, bound, txAlive, rxAlive, sending, offered, lost>>

(* blocking recv: nothing buffered and a Sender alive, rx.recv() waits *)
RecvBlock ==
    /\ blocking /\ RecvCallable /\ receiver = "idle"
    /\ queue = <<>> /\ txAlive
    /\ receiver' = "blocked"
    /\ UNCHANGED <<blocking, bound, queue, txAlive, rxAlive, sending, offered, lost, results>>

(* blocking recv: rx.recv() returns Err, z_query_null(this), true *)
RecvDisconnected ==
    /\ blocking /\ RecvCallable /\ receiver \in {"idle", "blocked"}
    /\ queue = <<>> /\ ~txAlive
    /\ Return(Null, TRUE)
    /\ receiver' = "idle"
    /\ UNCHANGED <<blocking, bound, queue, txAlive, rxAlive, sending, offered, lost>>

(* mutant: TryRecvError::Empty is answered like Disconnected *)
TryRecvEmptyAsDisconnected ==
    /\ ~blocking /\ RecvCallable
    /\ \/ queue # <<>> /\ Return(Head(queue), TRUE) /\ queue' = Tail(queue)
       \/ queue = <<>> /\ Return(Null, TRUE) /\ UNCHANGED queue
    /\ UNCHANGED <<blocking, bound, txAlive, rxAlive, sending, receiver, offered, lost>>

(* non-blocking recv: the three arms of match rx.try_recv() *)
TryRecv ==
    /\ ~blocking /\ RecvCallable
    /\ \/ queue # <<>> /\ Return(Head(queue), TRUE) /\ queue' = Tail(queue)
       \/ queue = <<>> /\ ~txAlive /\ Return(Null, TRUE) /\ UNCHANGED queue
       \/ queue = <<>> /\ txAlive /\ Return(Null, FALSE) /\ UNCHANGED queue
    /\ UNCHANGED <<blocking, bound, txAlive, rxAlive, sending, receiver, offered, lost>>

(* z_query_channel_closure_drop: the Receiver and the buffered queries go *)
DropRecv ==
    /\ rxAlive /\ receiver = "idle"
    /\ rxAlive' = FALSE
    /\ queue' = <<>>
    /\ UNCHANGED <<blocking, bound, txAlive, sending, receiver, offered, lost, results>>

(* z_query_channel_closure_call on the dropped (empty) closure: "Attempted *)
(* to call an uninitialized closure!", returns true, writes nothing       *)
CallDropped ==
    /\ ~rxAlive /\ Len(results) < MaxCalls
    /\ Return(Uninit, TRUE)
    /\ UNCHANGED <<blocking, bound, queue, txAlive, rxAlive, sending, receiver, offered, lost>>

(* the recv closure has been called MaxCalls times *)
CallsExhausted ==
    /\ Len(results) = MaxCalls
    /\ UNCHANGED vars

Next ==
    \/ Send \/ SendFull \/ SendClosed \/ SendWake \/ SendWakeClosed \/ DropSend
    \/ RecvValue \/ RecvBlock \/ RecvDisconnected \/ TryRecv
    \/ DropRecv \/ CallDropped \/ CallsExhausted

Spec == Init /\ [][Next]_vars

-----------------------------------------------------------------------------
(* the queries the recv closure handed out, in order *)
Received == [i \in 1..Len(SelectSeq(results, LAMBDA r : r.q \in Queries)) |->
                SelectSeq(results, LAMBDA r : r.q \in Queries)[i].q]
InFlight == IF sending = 0 THEN <<>> ELSE <<sending>>

TypeOK ==
    /\ blocking \in BOOLEAN /\ bound \in Bounds
    /\ queue \in Seq(Queries) /\ offered \in Seq(Queries)
    /\ txAlive \in BOOLEAN /\ rxAlive \in BOOLEAN
    /\ sending \in Queries \cup {0}
    /\ receiver \in {"idle", "blocked"}
    /\ lost \subseteq Queries
    /\ results \in Seq([q : Queries \cup {Null, Uninit}, ret : BOOLEAN])

(* FIFO delivery of query_channel.rs: the recv closure hands out the       *)
(* queries given to the send closure in order, each at most once; while   *)
(* the recv end is alive no query is lost, whatever the bound, so that the *)
(* received, buffered and in-flight queries are exactly those offered.    *)
FifoDelivery ==
    /\ IsPrefix(Received, offered)
    /\ rxAlive => lost = {} /\ Received \o queue \o InFlight = offered

(* The end of the stream (doc of zc_query_fifo_new): recv writes an       *)
(* invalidated query and returns true only once the send closure has been *)
(* dropped and every query it was given has been consumed.                *)
EndOfStreamStep ==
    /\ Len(results') = Len(results) + 1
    /\ Last(results') = [q |-> Null, ret |-> TRUE]
EndOfStreamOnlyWhenDrained ==
    [][EndOfStreamStep => ~txAlive /\ sending = 0 /\ Received = offered]_vars

(* "... and so will further calls": once recv has reported the end of the *)
(* stream, no later call of the recv closure returns a query.             *)
NullIsFinal ==
    \A i, j \in DOMAIN results :
        i < j /\ results[i] = [q |-> Null, ret |-> TRUE] => results[j].q \notin Queries

(* The channel implements FifoChannel: a send blocked on a full buffer    *)
(* has not happened yet (a try_recv meanwhile finds nothing), it takes     *)
(* place when the sender is woken; once the recv end is dropped nothing is *)
(* queued any more.                                                        *)
Abstract == INSTANCE FifoChannel WITH
    buf <- IF rxAlive THEN queue ELSE <<>>,
    offered <- IF sending # 0 THEN Front(offered) ELSE offered,
    txOpen <- txAlive, rxOpen <- rxAlive
ImplementsFifoChannel == Abstract!Spec
====
