---------------------------- MODULE HeaderPipeline ----------------------------
(***************************************************************************)
(* The front half of split_bindings: group_tokens(Tokenizer { inner: &h }) *)
(* over the text h of zenoh-gen.h.  The for loop of group_tokens pulls one *)
(* token at a time from the Tokenizer iterator (Tokenizer.tla) and hands   *)
(* it to Record::add_token (RecordGrouper.tla), so a tokenizer panic or an *)
(* unmatched #endif ends the run at the point where it is met.             *)
(*                                                                         *)
(* The grouper's variables are those of RecordGrouper; its token stream    *)
(* `text` and its pending input `input` are the tokenizations of the whole *)
(* header and of the text not consumed yet.                                *)
(***************************************************************************)
EXTENDS Tokenizer

CONSTANTS
    Headers     \* the header texts the pipeline is run on

VARIABLES
    header,     \* the text of zenoh-gen.h, as read by split_bindings
    rest,       \* Tokenizer::inner, the text not tokenized yet
    collect,    \* record_collect
    records,    \* the records pushed so far
    status      \* "running", "done", "error" (Err) or "panic"

vars == <<header, rest, collect, records, status>>

(* identifiers are symbol sequences; "" is the empty one *)
IdSeqs == Seq(IdChars \cup Whitespace \cup {"#ifdef "})

G == INSTANCE RecordGrouper WITH
        Tokens <- [tt : {"None"}, id : {<<>>}],
        Ids <- IdSeqs, NoId <- <<>>, MaxLen <- 0,
        text <- Tokenize(header), input <- Tokenize(rest)

Init ==
    /\ header \in Headers
    /\ rest = header
    /\ collect = G!NewRecord
    /\ records = <<>>
    /\ status = "running"

(* Tokenizer::next yields a token: inner moves past its span *)
Consume == rest' = SubSeq(rest, NextToken(rest).len + 1, Len(rest))

(* one iteration of the for loop of group_tokens *)
Pull == Yields(rest) /\ Consume /\ UNCHANGED header

Accumulate     == Pull /\ G!AccumulateToken(NextToken(rest))
Seal           == Pull /\ G!SealToken(NextToken(rest))
UnmatchedEndif == Pull /\ G!UnmatchedEndifToken(NextToken(rest))

(* Tokenizer::next finds no recognizer for the rest of the text (or a  *)
(* recognizer's unwrap fails): the build panics                        *)
TokenizerPanic ==
    /\ status = "running"
    /\ rest # <<>> /\ ~Yields(rest)
    /\ status' = "panic"
    /\ UNCHANGED <<header, rest, collect, records>>

(* the iterator returns None on an empty inner: the final push *)
EndOfStream == rest = <<>> /\ G!FinalPush /\ UNCHANGED <<header, rest>>

(* the build goes on with the result of group_tokens, or has panicked *)
Returned ==
    /\ status # "running"
    /\ UNCHANGED vars

Next == Accumulate \/ Seal \/ UnmatchedEndif \/ TokenizerPanic \/ EndOfStream \/ Returned

Spec == Init /\ [][Next]_vars

-----------------------------------------------------------------------------
TypeOK ==
    /\ IsSuffix(rest, header)
    /\ \A r \in {collect} \cup ToSet(records) :
          /\ r.rt \in G!RecordTypes
          /\ r.ids \in Seq(IdSeqs \ {<<>>})
    /\ status \in {"running", "done", "error", "panic"}

(* Round trip (spec 8) through the whole front half: the tokens of the   *)
(* records, of the open record and of the text still to be tokenized are *)
(* the tokenization of the header, none lost or duplicated.              *)
RoundTrip == G!RoundTrip

(* Nesting invariant (spec 8) on real headers: group_tokens fails with   *)
(* "unmatched #endif" iff a prefix of the tokens read has more #endif    *)
(* than #if tokens.                                                      *)
EndifErrorIffUnbalancedPrefix == G!EndifErrorIffUnbalancedPrefix

(* Every sealed record is a balanced conditional block, so split_bindings *)
(* can never route an #ifdef to one file and its #endif to another.       *)
SealedRecordsBalanced == G!SealedRecordsBalanced

(* Token::next yields the tokens of section 4.1: the same kinds with the  *)
(* same identifiers, whitespace aside, and it fails on the same headers.  *)
TokensAsSpecified ==
    /\ Significant(Tokenize(header)) = Significant(SpecTokenize(header))
    /\ (Residue(header) = <<>>) = (SpecResidue(header) = <<>>)

(* how often t occurs in the sequence s *)
Occurrences(s, t) == Len(SelectSeq(s, LAMBDA x : x = t))

(* Round trip through the output (spec 8): once group_tokens has returned *)
(* its records, Record's Display writes, over all of them, every token of *)
(* the header but whitespace exactly once: hoisting comments before the   *)
(* code neither drops nor repeats one.                                    *)
EmittedRoundTrip ==
    status = "done" =>
        LET emitted == Significant(FlattenSeq([i \in DOMAIN records |-> G!Emit(records[i])]))
            sig     == Significant(Tokenize(header))
        IN  \A t \in ToSet(emitted) \cup ToSet(sig) : Occurrences(emitted, t) = Occurrences(sig, t)
====
