---------------------------- MODULE RecordGrouper ----------------------------
(***************************************************************************)
(* The record grouper of build.rs: group_tokens folds the token stream of  *)
(* the generated header into records, one per logical declaration, using  *)
(* Record::add_token, which classifies a record by RecordType::update and  *)
(* tracks the depth of open #if/#ifdef/#ifndef blocks.  A record is sealed *)
(* (Record::is_ready) when its nesting is back to 0 and it has a class.    *)
(*                                                                         *)
(* A token is abstracted to its TokenType and its identifier (NoId stands  *)
(* for the empty identifier of whitespace, comments, #else, #endif and of  *)
(* declarations whose trailing identifier is empty).  The span text is not *)
(* modelled: the grouper never looks at it.                                *)
(***************************************************************************)
EXTENDS Naturals, Sequences, SequencesExt

CONSTANTS
    Tokens,   \* the tokens the tokenizer can produce, [tt, id] records
    Ids,      \* declaration identifiers (model values)
    NoId,     \* the empty identifier ""
    MaxLen    \* bound on the length of the token stream

ClassifyingTypes ==
    {"Typedef", "Function", "Const", "PrivateToken", "PreprDefine", "PreprInclude"}
TokenTypes ==
    ClassifyingTypes \cup {"Comment", "Whitespace", "PreprIf", "PreprElse", "PreprEndif"}
RecordTypes == ClassifyingTypes \cup {"Empty", "Multiple"}

ASSUME Tokens \subseteq [tt : TokenTypes, id : Ids \cup {NoId}]

VARIABLES
    text,     \* the whole token stream (fixed, kept for the properties)
    input,    \* the tokens the Tokenizer iterator has not yielded yet
    collect,  \* record_collect, the record being accumulated
    records,  \* the records pushed so far
    status    \* "running", "done" (Ok(records)) or "error" (Err)

vars == <<text, input, collect, records, status>>

Record == [rt : RecordTypes, nesting : Int, ids : Seq(Ids), tokens : Seq(Tokens)]

-----------------------------------------------------------------------------
(* Record::new *)
NewRecord == [rt |-> "Empty", nesting |-> 0, ids |-> <<>>, tokens |-> <<>>]

(* RecordType::update: the first class wins, any second one gives Multiple *)
Update(rt, new) == IF rt = "Empty" THEN new ELSE "Multiple"

(* Record::is_ready *)
IsReady(r) == r.nesting = 0 /\ r.rt # "Empty"

(* Record::push_token *)
PushToken(r, t) == [r EXCEPT !.tokens = Append(@, t)]

(* mutant: the `if !token.id.is_empty()` guard is dropped *)
PushRecordTypeTokenKeepsEmptyId(r, t) ==
    [r EXCEPT !.rt = Update(@, t.tt), !.ids = Append(@, t.id), !.tokens = Append(@, t)]

(* Record::push_record_type_token: a TokenType and its RecordType share a name *)
PushRecordTypeToken(r, t) ==
    [r EXCEPT !.rt     = Update(@, t.tt),
              !.ids    = IF t.id = NoId THEN @ ELSE Append(@, t.id),
              !.tokens = Append(@, t)]

(* Record::push_prepr_if *)
PushPreprIf(r, t) == [r EXCEPT !.nesting = @ + 1, !.tokens = Append(@, t)]

(* mutant: the test is made on the nesting before the decrement *)
EndifUnmatchedOffByOne(r) == r.nesting < 0

(* the early return of Record::push_prepr_endif: "unmatched #endif" *)
EndifUnmatched(r) == r.nesting - 1 < 0

(* Record::push_prepr_endif, past its early return *)
PushPreprEndif(r, t) == [r EXCEPT !.nesting = @ - 1, !.tokens = Append(@, t)]

(* mutant: #else is handled like #endif *)
AddTokenElseAsEndif(r, t) ==
    CASE t.tt \in ClassifyingTypes        -> PushRecordTypeToken(r, t)
      [] t.tt = "PreprIf"                 -> PushPreprIf(r, t)
      [] t.tt \in {"PreprEndif", "PreprElse"} -> PushPreprEndif(r, t)
      [] OTHER                            -> PushToken(r, t)

(* Record::add_token, on its Ok path *)
AddToken(r, t) ==
    CASE t.tt \in ClassifyingTypes -> PushRecordTypeToken(r, t)
      [] t.tt = "PreprIf"          -> PushPreprIf(r, t)
      [] t.tt = "PreprEndif"       -> PushPreprEndif(r, t)
      [] OTHER                     -> PushToken(r, t)   \* comment, #else, whitespace

-----------------------------------------------------------------------------
Init ==
    /\ text \in BoundedSeq(Tokens, MaxLen)
    /\ input = text
    /\ collect = NewRecord
    /\ records = <<>>
    /\ status = "running"

(* One iteration of the for loop of group_tokens on the token t that the  *)
(* iterator yielded: add_token, then the is_ready test.  The three cases  *)
(* leave the record open, seal it, or return add_token's Err.            *)
AccumulateToken(t) ==
    /\ status = "running"
    /\ ~(t.tt = "PreprEndif" /\ EndifUnmatched(collect))
    /\ ~IsReady(AddToken(collect, t))
    /\ collect' = AddToken(collect, t)
    /\ UNCHANGED <<records, status>>

SealToken(t) ==
    /\ status = "running"
    /\ ~(t.tt = "PreprEndif" /\ EndifUnmatched(collect))
    /\ IsReady(AddToken(collect, t))
    /\ records' = Append(records, AddToken(collect, t))
    /\ collect' = NewRecord
    /\ UNCHANGED status

(* add_token returns Err("unmatched #endif") and group_tokens propagates it *)
UnmatchedEndifToken(t) ==
    /\ status = "running"
    /\ t.tt = "PreprEndif"
    /\ EndifUnmatched(collect)
    /\ status' = "error"
    /\ UNCHANGED <<collect, records>>

(* the Tokenizer iterator yields the next token of the stream *)
Pull == input # <<>> /\ input' = Tail(input) /\ UNCHANGED text

Accumulate     == Pull /\ AccumulateToken(Head(input))
Seal           == Pull /\ SealToken(Head(input))
UnmatchedEndif == Pull /\ UnmatchedEndifToken(Head(input))

(* mutant: the final records.push(record_collect) is missing *)
FinalPushDropsLast ==
    /\ status = "running"
    /\ collect' = NewRecord
    /\ status' = "done"
    /\ UNCHANGED records

(* after the loop: the last accumulator is pushed, possibly Empty *)
FinalPush ==
    /\ status = "running"
    /\ records' = Append(records, collect)
    /\ collect' = NewRecord
    /\ status' = "done"

(* the stream is exhausted *)
EndOfStream == input = <<>> /\ FinalPush /\ UNCHANGED <<text, input>>

(* group_tokens has returned; the build goes on with its result *)
Returned ==
    /\ status # "running"
    /\ UNCHANGED vars

Next == Accumulate \/ Seal \/ UnmatchedEndif \/ EndOfStream \/ Returned

Spec == Init /\ [][Next]_vars

(* mutant: the second filter of Display leaves out only whitespace *)
EmitCommentsTwice(r) ==
    SelectSeq(r.tokens, LAMBDA t : t.tt = "Comment")
        \o SelectSeq(r.tokens, LAMBDA t : t.tt # "Whitespace")

(* Record's Display, as split_bindings writes a record: its comments     *)
(* first, then every other token but whitespace, each in stream order    *)
Emit(r) ==
    SelectSeq(r.tokens, LAMBDA t : t.tt = "Comment")
        \o SelectSeq(r.tokens, LAMBDA t : t.tt \notin {"Comment", "Whitespace"})

-----------------------------------------------------------------------------
(* Helpers for the properties: the #if balance of a token sequence *)
Opens(s)  == Len(SelectSeq(s, LAMBDA t : t.tt = "PreprIf"))
Closes(s) == Len(SelectSeq(s, LAMBDA t : t.tt = "PreprEndif"))
Balance(s) == Opens(s) - Closes(s)
NeverNegative(s) == \A k \in 1..Len(s) : Balance(SubSeq(s, 1, k)) >= 0

Consumed == SubSeq(text, 1, Len(text) - Len(input))

(* the records produced by sealing, not the trailing accumulator *)
Sealed == IF status = "done" THEN SubSeq(records, 1, Len(records) - 1) ELSE records

TypeOK ==
    /\ text \in Seq(Tokens)
    /\ collect \in Record
    /\ records \in Seq(Record)
    /\ status \in {"running", "done", "error"}

(* Round trip: no token is lost or duplicated by group_tokens; the records, *)
(* the open accumulator and the unread input concatenate to the stream,     *)
(* including the trailing whitespace/comments pushed by the final push.    *)
(* (On the error path the offending #endif is dropped and the run aborts.) *)
RoundTrip ==
    status # "error" =>
        FlattenSeq([i \in DOMAIN records |-> records[i].tokens])
            \o collect.tokens \o input = text

(* Nesting invariant: the per-record nesting counter, reset with every new *)
(* record, still detects exactly the global condition of the spec: the run *)
(* fails iff some prefix of the stream has more #endif than #if tokens.     *)
EndifErrorIffUnbalancedPrefix ==
    /\ status = "error" => ~NeverNegative(Consumed)
    /\ status # "error" => NeverNegative(Consumed)

(* Every sealed record is a self-contained conditional block: its #if and  *)
(* #endif tokens match, so that routing records to different output files *)
(* can never separate an #if from its #endif.                             *)
SealedRecordsBalanced ==
    \A i \in DOMAIN Sealed :
        Balance(Sealed[i].tokens) = 0 /\ NeverNegative(Sealed[i].tokens)
=============================================================================
