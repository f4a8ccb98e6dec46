------------------------------ MODULE BytesMap ------------------------------
(***************************************************************************)
(* attachment.rs: the owned bytes map z_owned_bytes_map_t (an Option of a  *)
(* HashMap of Cow keys to Cow values), the attachment view of it that      *)
(* z_bytes_map_as_attachment hands out (a pointer to the map's storage and *)
(* the Z_BYTES_MAP_VTABLE), and the calls that go through that v-table:    *)
(* z_attachment_get, z_attachment_len, z_attachment_iterate, and the two   *)
(* constructors of a map from an attachment.                               *)
(*                                                                         *)
(* The application's map variables are Slots; its attachment variables    *)
(* are Handles, each the Null attachment or the view of one slot (the      *)
(* data pointer of the attachment is the slot's address).  Byte strings    *)
(* are Keys and Vals; NullBytes is the z_bytes_t whose as_slice() is None. *)
(* A stored pair records whether its key is Cow::Borrowed (a value's Cow  *)
(* is always the one of the last insert; the key keeps its first one).    *)
(* HashMap iteration order is unspecified: every order is explored.        *)
(*                                                                         *)
(* The zenoh Attachment a put carries, and a sample delivers, is reached  *)
(* through ATTACHMENT_VTABLE: insert_in_attachment appends a pair to it,  *)
(* attachment_iter visits its pairs in order, attachment_len counts them. *)
(* It is a sequence of pairs; the application's handles may view it.      *)
(***************************************************************************)
EXTENDS Naturals, FiniteSets, Sequences, SequencesExt

CONSTANTS
    Slots,      \* z_owned_bytes_map_t variables of the application
    Handles,    \* z_attachment_t variables of the application
    Keys,       \* key byte strings
    Vals,       \* value byte strings
    NullBytes   \* z_bytes_null()

VARIABLES
    maps,       \* slot -> Gravestone (None) or a HashMap: key -> pair or Absent
    atts,       \* handle -> NullAtt (vtable None) or the slot it views
    out,        \* the answer of the last read call
    aborted,    \* a panic crossed the extern "C" boundary: the process aborted
    zatt        \* the zenoh Attachment: a sequence of <<key, value>> pairs

vars == <<maps, atts, out, aborted, zatt>>

(* the sentinels are records, so that TLC can compare them with pairs and *)
(* answers; the gravestone (None) is encoded as a function on the keys    *)
(* like a HashMap, with every key Dead                                    *)
Absent     == [absent |-> TRUE]
Dead       == [dead |-> TRUE]
Gravestone == [k \in Keys |-> Dead]
NullAtt    == [null_attachment |-> TRUE]
ZenohAtt   == [zenoh_attachment |-> TRUE]   \* data: &zatt, vtable: ATTACHMENT_VTABLE
NoAnswer   == [none |-> TRUE]

Pair == [v : Vals, kAlias : BOOLEAN]
HashMaps == [Keys -> Pair \cup {Absent}]
EmptyMap == [k \in Keys |-> Absent]
Present(m) == {k \in Keys : m[k] # Absent}

-----------------------------------------------------------------------------
(* HashMap::insert: a new key is stored as given; an existing key keeps   *)
(* the stored key (and its Cow) and only the value is replaced            *)
HashMapInsert(m, k, v, byAlias) ==
    [m EXCEPT ![k] = [v |-> v, kAlias |-> IF @ = Absent THEN byAlias ELSE @.kAlias]]

(* mutant: the value's as_slice() is not checked for None *)
InsertIntoUnchecked(m, k, v, byAlias) ==
    IF m # Gravestone /\ k # NullBytes THEN HashMapInsert(m, k, v, byAlias) ELSE m

(* z_bytes_map_insert_by_copy / _by_alias on the Option<HashMap> m: a  *)
(* gravestone map, a null key or a null value leave it as it is         *)
InsertInto(m, k, v, byAlias) ==
    IF m # Gravestone /\ k # NullBytes /\ v # NullBytes THEN HashMapInsert(m, k, v, byAlias)
    ELSE m

(* z_bytes_map_get *)
BytesMapGet(m, k) ==
    IF m = Gravestone \/ k = NullBytes \/ m[k] = Absent THEN NullBytes ELSE m[k].v

(* z_bytes_map_len *)
BytesMapLen(m) == IF m = Gravestone THEN 0 ELSE Cardinality(Present(m))

(* the orders in which HashMap::iter may visit the pairs of m *)
Orders(m) == IF m = Gravestone THEN {<<>>} ELSE SetToSeqs(Present(m))

(* the map a handle's attachment views through Z_BYTES_MAP_VTABLE *)
Viewed(h) == maps[atts[h]]

(* mutant: the get iterator does not break when it finds the key *)
AttachmentGetIteratorNoBreak(key, value, ctx) ==
    IF key = ctx.key THEN [ret |-> 0, ctx |-> [ctx EXCEPT !.value = value]]
    ELSE [ret |-> 0, ctx |-> ctx]

(* attachment_get_iterator: on the key, store the value and break *)
AttachmentGetIterator(key, value, ctx) ==
    IF key = ctx.key THEN [ret |-> 1, ctx |-> [ctx EXCEPT !.value = value]]
    ELSE [ret |-> 0, ctx |-> ctx]

(* bytes_map_from_attachment_iterator(_by_alias): insert into the new map *)
FromAttachmentIterator(key, value, ctx) == [ret |-> 0, ctx |-> InsertInto(ctx, key, value, FALSE)]
FromAttachmentIteratorByAlias(key, value, ctx) ==
    [ret |-> 0, ctx |-> InsertInto(ctx, key, value, TRUE)]

(* mutant: insert_in_attachment returns 1, which the driver takes as break *)
InsertInAttachmentBreaks(key, value, ctx) ==
    [ret |-> 1, ctx |-> Append(ctx, <<key, value>>)]

(* insert_in_attachment: Attachment::insert appends the pair and the body *)
(* continues; its as_slice().unwrap()s never fail on the pairs a driver   *)
(* hands it, which come from a map's or an Attachment's stored slices     *)
InsertInAttachment(key, value, ctx) == [ret |-> 0, ctx |-> Append(ctx, <<key, value>>)]

(* a body of the application that counts the pairs it is given and *)
(* breaks (returns 1) at the key stop                                *)
BreakAt(stop, key, value, ctx) ==
    IF key = stop THEN [ret |-> 1, ctx |-> ctx + 1] ELSE [ret |-> 0, ctx |-> ctx + 1]

(* the body function pointer a driver is given: one of the iterators of *)
(* attachment.rs, or an application body that breaks at the key stop    *)
CallBody(body, key, value, ctx) ==
    CASE body.fn = "attachment_get_iterator" -> AttachmentGetIterator(key, value, ctx)
      [] body.fn = "from_attachment_iterator" -> FromAttachmentIterator(key, value, ctx)
      [] body.fn = "by_alias" -> FromAttachmentIteratorByAlias(key, value, ctx)
      [] body.fn = "insert_in_attachment" -> InsertInAttachment(key, value, ctx)
      [] OTHER -> BreakAt(body.stop, key, value, ctx)

(* the loop of both drivers over a sequence of <<key, value>> pairs:     *)
(* body(key, value, ctx) answers [ret, ctx]; the first non-zero ret is  *)
(* returned at once                                                     *)
RECURSIVE IterPairs(_, _, _)
IterPairs(pairs, body, ctx) ==
    IF pairs = <<>> THEN [ret |-> 0, ctx |-> ctx]
    ELSE LET r == CallBody(body, Head(pairs)[1], Head(pairs)[2], ctx)
         IN IF r.ret # 0 THEN r ELSE IterPairs(Tail(pairs), body, r.ctx)

(* the pairs of m as HashMap::iter yields them in the given key order *)
PairsOf(m, order) == [i \in DOMAIN order |-> <<order[i], m[order[i]].v>>]

(* z_bytes_map_iter, the iteration driver of Z_BYTES_MAP_VTABLE *)
BytesMapIter(m, order, body, ctx) ==
    IF m = Gravestone THEN [ret |-> 0, ctx |-> ctx] ELSE IterPairs(PairsOf(m, order), body, ctx)

(* attachment_iter, the iteration driver of ATTACHMENT_VTABLE *)
AttachmentIter(pairs, body, ctx) == IterPairs(pairs, body, ctx)

(* attachment_len, the len of ATTACHMENT_VTABLE: every pair counts *)
AttachmentLenOf(pairs) == Len(pairs)

(* (this.vtable.unwrap().iteration_driver)(this.data, body, context) on a *)
(* non-null attachment a; order is the HashMap order of a viewed map      *)
Drive(a, order, body, ctx) ==
    IF a = ZenohAtt THEN AttachmentIter(zatt, body, ctx)
    ELSE BytesMapIter(maps[a], order, body, ctx)

(* the orders a driver may visit the pairs of the attachment a in *)
DriveOrders(a) == IF a \in Slots THEN Orders(maps[a]) ELSE {<<>>}

(* z_attachment_len through the v-table of the non-null attachment a *)
LenOf(a) == IF a = ZenohAtt THEN AttachmentLenOf(zatt) ELSE BytesMapLen(maps[a])

(* mutant: z_bytes_map_from_attachment inserts with the aliasing iterator *)
FromAttachmentAliased(a, order) ==
    IF a = NullAtt THEN Gravestone
    ELSE Drive(a, order, [fn |-> "by_alias"], EmptyMap).ctx

(* z_bytes_map_from_attachment on the attachment a: the gravestone for the *)
(* null attachment, else a new map filled through the v-table's driver     *)
FromAttachment(a, order) ==
    IF a = NullAtt THEN Gravestone
    ELSE Drive(a, order, [fn |-> "from_attachment_iterator"], EmptyMap).ctx

(* z_bytes_map_from_attachment_aliasing *)
FromAttachmentAliasing(a, order) ==
    IF a = NullAtt THEN Gravestone
    ELSE Drive(a, order, [fn |-> "by_alias"], EmptyMap).ctx

(* z_attachment_get: the value if the driver returned non-zero *)
AttachmentGetOf(a, k, order) ==
    IF a = NullAtt THEN NullBytes
    ELSE LET r == Drive(a, order, [fn |-> "attachment_get_iterator"],
                               [key |-> k, value |-> NullBytes])
         IN IF r.ret # 0 THEN r.ctx.value ELSE NullBytes

-----------------------------------------------------------------------------
Init ==
    /\ maps = [s \in Slots |-> Gravestone]     \* z_bytes_map_null()
    /\ atts = [h \in Handles |-> NullAtt]       \* z_attachment_null()
    /\ out = NoAnswer
    /\ aborted = FALSE
    /\ zatt = <<>>

Call == ~aborted

(* z_bytes_map_new, into a variable at its gravestone value *)
New(s) ==
    /\ Call /\ maps[s] = Gravestone
    /\ maps' = [maps EXCEPT ![s] = EmptyMap]
    /\ UNCHANGED <<zatt, atts, out, aborted>>

(* z_bytes_map_drop: take() the map; double-free safe *)
Drop(s) ==
    /\ Call
    /\ maps' = [maps EXCEPT ![s] = Gravestone]
    /\ UNCHANGED <<zatt, atts, out, aborted>>

(* z_bytes_map_insert_by_copy / z_bytes_map_insert_by_alias *)
Insert(s, k, v, byAlias) ==
    /\ Call
    /\ maps' = [maps EXCEPT ![s] = InsertInto(@, k, v, byAlias)]
    /\ UNCHANGED <<zatt, atts, out, aborted>>

(* z_bytes_map_get and z_bytes_map_len *)
MapGet(s, k) == Call /\ out' = [get |-> BytesMapGet(maps[s], k)] /\ UNCHANGED <<zatt, maps, atts, aborted>>
MapLen(s)    == Call /\ out' = [len |-> BytesMapLen(maps[s])] /\ UNCHANGED <<zatt, maps, atts, aborted>>

(* z_bytes_map_check: the map is not in its gravestone state *)
MapCheck(s) == Call /\ out' = [check |-> maps[s] # Gravestone] /\ UNCHANGED <<zatt, maps, atts, aborted>>

(* z_bytes_map_as_attachment: the view of a live map, else the null one *)
AsAttachment(h, s) ==
    /\ Call
    /\ atts' = [atts EXCEPT ![h] = IF maps[s] # Gravestone THEN s ELSE NullAtt]
    /\ UNCHANGED <<zatt, maps, out, aborted>>

(* z_attachment_null *)
AttachmentNull(h) ==
    /\ Call
    /\ atts' = [atts EXCEPT ![h] = NullAtt]
    /\ UNCHANGED <<zatt, maps, out, aborted>>

(* z_attachment_check: whether the attachment has a v-table, whatever   *)
(* the variable it points at holds now                                  *)
AttachmentCheck(h) ==
    /\ Call
    /\ out' = [check |-> atts[h] # NullAtt]
    /\ UNCHANGED <<zatt, maps, atts, aborted>>

(* z_attachment_get, in one of the orders of the viewed map *)
AttachmentGet(h, k) ==
    /\ Call
    /\ \E order \in DriveOrders(atts[h]) :
          out' = [get |-> AttachmentGetOf(atts[h], k, order)]
    /\ UNCHANGED <<zatt, maps, atts, aborted>>

(* z_attachment_len and z_attachment_iterate unwrap the v-table: on the *)
(* null attachment they panic, and the panic aborts the process          *)
AttachmentLen(h) ==
    /\ Call
    /\ IF atts[h] = NullAtt THEN aborted' = TRUE /\ UNCHANGED out
       ELSE out' = [len |-> LenOf(atts[h])] /\ UNCHANGED aborted
    /\ UNCHANGED <<zatt, maps, atts>>

AttachmentIterate(h, stop) ==
    /\ Call
    /\ IF atts[h] = NullAtt THEN aborted' = TRUE /\ UNCHANGED out
       ELSE /\ \E order \in DriveOrders(atts[h]) :
                  out' = [iter |-> Drive(atts[h], order,
                               [fn |-> "break_at", stop |-> stop], 0)]
            /\ UNCHANGED aborted
    /\ UNCHANGED <<zatt, maps, atts>>

(* z_bytes_map_from_attachment(_aliasing), into a variable at its *)
(* gravestone value                                                *)
MapFromAttachment(s, h) ==
    /\ Call /\ maps[s] = Gravestone
    /\ \E order \in DriveOrders(atts[h]) :
          maps' = [maps EXCEPT ![s] = FromAttachment(atts[h], order)]
    /\ UNCHANGED <<zatt, atts, out, aborted>>

MapFromAttachmentAliasing(s, h) ==
    /\ Call /\ maps[s] = Gravestone
    /\ \E order \in DriveOrders(atts[h]) :
          maps' = [maps EXCEPT ![s] = FromAttachmentAliasing(atts[h], order)]
    /\ UNCHANGED <<zatt, atts, out, aborted>>

(* z_attachment(&attachment, &ATTACHMENT_VTABLE): the handle views the   *)
(* zenoh Attachment, as the attachment of a sample zenoh delivered        *)
ZenohAttachment(h) ==
    /\ Call
    /\ atts' = [atts EXCEPT ![h] = ZenohAtt]
    /\ UNCHANGED <<zatt, maps, out, aborted>>

(* z_attachment_iterate(this, insert_in_attachment, &attachment) into a   *)
(* new Attachment, as a put with an attachment does; the unwrap of the    *)
(* null attachment's v-table panics                                       *)
IntoZenohAttachment(h) ==
    /\ Call
    /\ IF atts[h] = NullAtt THEN aborted' = TRUE /\ UNCHANGED zatt
       ELSE /\ \E order \in DriveOrders(atts[h]) :
                  zatt' = Drive(atts[h], order, [fn |-> "insert_in_attachment"], <<>>).ctx
            /\ UNCHANGED aborted
    /\ UNCHANGED <<maps, atts, out>>

(* the process has aborted: nothing happens any more *)
Aborted == aborted /\ UNCHANGED vars

KeyArgs == Keys \cup {NullBytes}
ValArgs == Vals \cup {NullBytes}

Next ==
    \/ \E s \in Slots : New(s) \/ Drop(s) \/ MapLen(s) \/ MapCheck(s)
    \/ \E s \in Slots, k \in KeyArgs, v \in ValArgs, a \in BOOLEAN : Insert(s, k, v, a)
    \/ \E s \in Slots, k \in KeyArgs : MapGet(s, k)
    \/ \E h \in Handles, s \in Slots : AsAttachment(h, s) \/ MapFromAttachment(s, h)
                                     \/ MapFromAttachmentAliasing(s, h)
    \/ \E h \in Handles : AttachmentNull(h) \/ AttachmentLen(h) \/ AttachmentCheck(h)
                         \/ ZenohAttachment(h) \/ IntoZenohAttachment(h)
    \/ \E h \in Handles, k \in KeyArgs : AttachmentGet(h, k)
    \/ \E h \in Handles, stop \in Keys : AttachmentIterate(h, stop)
    \/ Aborted

Spec == Init /\ [][Next]_vars

-----------------------------------------------------------------------------
TypeOK ==
    /\ maps \in [Slots -> HashMaps \cup {Gravestone}]
    /\ atts \in [Handles -> Slots \cup {NullAtt, ZenohAtt}]
    /\ zatt \in Seq(Keys \X Vals)
    /\ out \in {NoAnswer} \cup [get : Vals \cup {NullBytes}] \cup [len : 0..Cardinality(Keys)]
              \cup [iter : [ret : {0, 1}, ctx : 0..Cardinality(Keys)]] \cup [check : BOOLEAN]
    /\ aborted \in BOOLEAN

(* the map a sequence of pairs with distinct keys stands for *)
PairsMap(p) ==
    [k \in Keys |-> IF \E i \in DOMAIN p : p[i][1] = k
                    THEN [v |-> p[CHOOSE i \in DOMAIN p : p[i][1] = k][2], kAlias |-> FALSE]
                    ELSE Absent]

(* the map a non-null handle shows: the map variable its data points to, *)
(* or the map the zenoh Attachment carries                                *)
Shown(h) == IF atts[h] = ZenohAtt THEN PairsMap(zatt) ELSE Viewed(h)

(* z_attachment_get and z_attachment_len through either v-table answer   *)
(* what z_bytes_map_get and z_bytes_map_len answer on the map the         *)
(* attachment shows, at the time of the call and in every HashMap order: *)
(* attachment_get_iterator breaks at the key and the driver returns that *)
(* break.  An attachment whose map was dropped reads as empty, one whose  *)
(* variable was given a new map reads the new map, and the null           *)
(* attachment gives the null bytes.                                       *)
GetThroughAttachment ==
    [][\A h \in Handles :
          /\ \A k \in KeyArgs :
                AttachmentGet(h, k) =>
                    out' = [get |-> IF atts[h] = NullAtt THEN NullBytes
                                    ELSE BytesMapGet(Shown(h), k)]
          /\ AttachmentLen(h) /\ atts[h] # NullAtt =>
                out' = [len |-> BytesMapLen(Shown(h))]]_vars

(* A put's attachment carries the pairs of the attachment it was built   *)
(* from: z_attachment_iterate with insert_in_attachment gives the new     *)
(* zenoh Attachment each pair the source shows exactly once, whatever     *)
(* order the driver visits them in, so the receiver of the sample reads   *)
(* through ATTACHMENT_VTABLE what the sender's map held.                  *)
AttachmentRoundTrip ==
    [][\A h \in Handles :
          IntoZenohAttachment(h) /\ atts[h] # NullAtt =>
              /\ IsInjective([i \in DOMAIN zatt' |-> zatt'[i][1]])
              /\ \A k \in Keys : BytesMapGet(PairsMap(zatt'), k) = BytesMapGet(Shown(h), k)]_vars

(* z_bytes_map_from_attachment(_aliasing) builds a map with exactly the   *)
(* pairs the attachment shows, whatever order the driver visits them in;  *)
(* the copying constructor owns every key it stored and the aliasing one *)
(* borrows every one; the null attachment gives the                       *)
(* gravestone.                                                            *)
FromAttachmentSnapshot ==
    [][\A s \in Slots, h \in Handles, byAlias \in BOOLEAN :
          (IF byAlias THEN MapFromAttachmentAliasing(s, h) ELSE MapFromAttachment(s, h)) =>
              IF atts[h] = NullAtt THEN maps'[s] = Gravestone
              ELSE \A k \in Keys :
                     /\ BytesMapGet(maps'[s], k) = BytesMapGet(Shown(h), k)
                     /\ maps'[s][k] # Absent => maps'[s][k].kAlias = byAlias]_vars
====
