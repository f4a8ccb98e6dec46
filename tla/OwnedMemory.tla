---------------------------- MODULE OwnedMemory ----------------------------
(***************************************************************************)
(* The owned-memory protocol of lib.rs: a C variable of an owned type is  *)
(* an Option of the zenoh value, seen through GuardedTransmute.  The      *)
(* macros decl_rust_new_owned_type (check, make_null, delete),            *)
(* prepare_memory_to_init, access_owned_memory / access_loaned_memory and *)
(* move_owned_memory are the operations the FFI functions built on them   *)
(* perform on such a variable.  A zenoh value is a model value; its drop  *)
(* (or its consumption by the zenoh call it is moved into) is counted.    *)
(***************************************************************************)
EXTENDS Integers, Sequences, FiniteSets

CONSTANTS
    Slots,      \* the application's owned variables
    Values,     \* the zenoh values FFI functions construct
    None,       \* the None of Option<zenoh value>
    Bytes,      \* byte values of a slice copied out to C
    MaxLen,     \* the longest slice and the largest buffer length copied
    Alignments  \* the alignments impl_guarded_transmute may compare

ASSUME None \notin Values

VARIABLES
    slot,       \* what each owned variable holds
    unbuilt,    \* values not constructed yet
    consumed,   \* how many times each value was dropped or moved into zenoh
    result      \* what the last call returned, tagged by the call

ovars == <<slot, unbuilt, consumed, result>>

OwnedInit ==
    /\ slot = [s \in Slots |-> None]
    /\ unbuilt = Values
    /\ consumed = [v \in Values |-> 0]
    /\ result = [none |-> TRUE]

(* dropping what an Option holds, if anything *)
Consume(v) == IF v = None THEN consumed ELSE [consumed EXCEPT ![v] = @ + 1]

-----------------------------------------------------------------------------
(* mutant: the double-init test is dropped and the new value written over *)
(* the live one                                                           *)
InitIntoOverwrites(s, v) ==
    /\ v \in unbuilt
    /\ slot' = [slot EXCEPT ![s] = v] /\ unbuilt' = unbuilt \ {v}
    /\ result' = [code |-> 0]
    /\ UNCHANGED consumed

(* an FFI constructor through prepare_memory_to_init: on a variable that  *)
(* already holds a value it returns -1 before constructing anything; else *)
(* it writes the new value into the variable                              *)
InitInto(s, v) ==
    /\ v \in unbuilt
    /\ IF slot[s] # None
       THEN result' = [code |-> -1] /\ UNCHANGED <<slot, unbuilt, consumed>>
       ELSE /\ slot' = [slot EXCEPT ![s] = v] /\ unbuilt' = unbuilt \ {v}
            /\ result' = [code |-> 0]
            /\ UNCHANGED consumed

(* access_owned_memory (access_loaned_memory on the loan's .0): the access *)
(* expression runs on the value in place, -2 on None                      *)
Access(s) ==
    /\ result' = [code |-> IF slot[s] # None THEN 0 ELSE -2]
    /\ UNCHANGED <<slot, unbuilt, consumed>>

(* move_owned_memory: take() the value out and hand it to the access      *)
(* expression, which consumes it; -3 on None                              *)
Move(s) ==
    /\ slot' = [slot EXCEPT ![s] = None]
    /\ consumed' = Consume(slot[s])
    /\ result' = [code |-> IF slot[s] # None THEN 0 ELSE -3]
    /\ UNCHANGED unbuilt

(* check(): transmute_mut().is_some() *)
OwnedCheck(s) ==
    /\ result' = [check |-> slot[s] # None]
    /\ UNCHANGED <<slot, unbuilt, consumed>>

(* mutant: make_null writes None with ptr::write, forgetting the old value *)
MakeNullForgets(s) ==
    /\ slot' = [slot EXCEPT ![s] = None]
    /\ UNCHANGED <<unbuilt, consumed, result>>

(* make_null(): the assignment of None drops the value it replaces *)
MakeNull(s) ==
    /\ slot' = [slot EXCEPT ![s] = None]
    /\ consumed' = Consume(slot[s])
    /\ UNCHANGED <<unbuilt, result>>

(* delete(): take() and drop the value *)
Delete(s) ==
    /\ slot' = [slot EXCEPT ![s] = None]
    /\ consumed' = Consume(slot[s])
    /\ UNCHANGED <<unbuilt, result>>

(* mutant: the slice length is used for max_len instead of min(len, ..) *)
CopyToCArrayUnbounded(src, bufNull, len) ==
    IF bufNull \/ (len = 0 /\ src # <<>>) THEN <<>> ELSE src

(* copy_to_c_array of a slice into the C buffer buf of len bytes: nothing *)
(* for a null buffer or a zero length with a non-empty slice; else the    *)
(* first min(len, slice length) bytes, whose number is returned           *)
CopyToCArray(src, bufNull, len) ==
    IF bufNull \/ (len = 0 /\ src # <<>>)
    THEN <<>>
    ELSE SubSeq(src, 1, IF len < Len(src) THEN len ELSE Len(src))

(* a call of copy_to_c_array (on &[u8], or on a &str through its bytes)   *)
CopyOut(src, bufNull, len) ==
    /\ result' = [src |-> src, null |-> bufNull, len |-> len,
                   written |-> CopyToCArray(src, bufNull, len),
                   returned |-> Len(CopyToCArray(src, bufNull, len))]
    /\ UNCHANGED <<slot, unbuilt, consumed>>

(* the bytes of b"src:     , dst:     ", as u8 *)
MsgTemplate ==
    <<115, 114, 99, 58, 32, 32, 32, 32, 32, 44,
      32, 100, 115, 116, 58, 32, 32, 32, 32, 32>>

(* mutant: the digit loop stops one digit early (i < 3), leaving a blank *)
AlignDigitsShort(n, i) == IF i < 3 THEN 48 + ((n \div 10^(3 - i)) % 10) ELSE 32

(* b'0' + ((n / 10u32.pow(3 - i) as usize) % 10) as u8, for i in 0..3 *)
AlignDigits(n, i) == 48 + ((n \div 10^(3 - i)) % 10)

(* the const block of impl_guarded_transmute!(noderefs ..): on differing  *)
(* alignments compilation panics with msg, whose bytes 5+i and 16+i       *)
(* (0-based) are the i-th digits of the two alignments                    *)
AlignmentCheck(src, dst) ==
    IF src = dst THEN [compiles |-> TRUE]
    ELSE [panic |-> [j \in 1..20 |->
                       IF j \in 6..9 THEN AlignDigits(src, j - 6)
                       ELSE IF j \in 17..20 THEN AlignDigits(dst, j - 17)
                       ELSE MsgTemplate[j]]]

(* a compilation of impl_guarded_transmute!(noderefs src, dst) for types *)
(* of the given alignments, and its outcome                              *)
CompileTransmute(src, dst) ==
    /\ result' = [src_align |-> src, dst_align |-> dst, outcome |-> AlignmentCheck(src, dst)]
    /\ UNCHANGED <<slot, unbuilt, consumed>>

Slices == UNION {[1..n -> Bytes] : n \in 0..MaxLen}

OwnedNext ==
    \/ \E s \in Slots, v \in Values : InitInto(s, v)
    \/ \E s \in Slots : Access(s) \/ Move(s) \/ OwnedCheck(s) \/ MakeNull(s) \/ Delete(s)
    \/ \E src \in Slices, bufNull \in BOOLEAN, len \in 0..MaxLen : CopyOut(src, bufNull, len)
    \/ \E src, dst \in Alignments : CompileTransmute(src, dst)

OwnedSpec == OwnedInit /\ [][OwnedNext]_ovars

-----------------------------------------------------------------------------
OwnedTypeOK ==
    /\ slot \in [Slots -> Values \cup {None}]
    /\ unbuilt \subseteq Values
    /\ consumed \in [Values -> Nat]
    /\ result \in {[none |-> TRUE]} \cup [code : {0, -1, -2, -3}] \cup [check : BOOLEAN]

(* Every zenoh value an FFI constructor built through these macros is     *)
(* owned by exactly one variable until it is consumed, and consumed once: *)
(* a double init neither overwrites (leaks) the live value nor consumes   *)
(* it, and make_null, delete and a move each release it exactly once.     *)
OwnedValueAccounting ==
    \A v \in Values \ unbuilt :
        Cardinality({s \in Slots : slot[s] = v}) + consumed[v] = 1

(* copy_to_c_array stays inside the caller's buffer and says what it did: *)
(* it writes nothing through a null buffer, never more than len bytes,    *)
(* exactly a prefix of the slice, returns how many bytes it wrote, and    *)
(* stops short of the whole slice only when the buffer is null or full.   *)
CopyWithinBuffer ==
    "written" \in DOMAIN result =>
        LET w == result.written IN
        /\ result.null => w = <<>>
        /\ Len(w) <= result.len
        /\ w = SubSeq(result.src, 1, Len(w))
        /\ result.returned = Len(w)
        /\ Len(w) < Len(result.src) => result.null \/ Len(w) = result.len

(* the number the four ASCII digits of msg from position j on read as *)
ReadDecimal(msg, j) ==
    LET d(k) == msg[j + k] - 48 IN 1000 * d(0) + 100 * d(1) + 10 * d(2) + d(3)

(* impl_guarded_transmute refuses to compile exactly the transmutes       *)
(* between types of different alignment, and its panic message names both *)
(* alignments correctly, for every alignment a type can have below 10^4.  *)
AlignmentMismatchNamed ==
    "outcome" \in DOMAIN result =>
        LET src == result.src_align
            dst == result.dst_align
            r   == result.outcome IN
        /\ ("panic" \in DOMAIN r) <=> src # dst
        /\ "panic" \in DOMAIN r =>
              /\ \A j \in 6..9 \cup 17..20 : r.panic[j] \in 48..57
              /\ ReadDecimal(r.panic, 6) = src /\ ReadDecimal(r.panic, 17) = dst
====
