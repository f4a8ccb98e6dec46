---------------------------- MODULE SplitBindings ----------------------------
(***************************************************************************)
(* The splitter of build.rs: split_bindings routes every record of the     *)
(* generated header to the output files chosen by                          *)
(* SplitGuide::appropriate_files, after checking that every identifier     *)
(* requested by splitguide.yaml names some record, and then checks with    *)
(* Record::is_used that no declaration was left out of every file.         *)
(*                                                                         *)
(* A record is abstracted to its RecordType and the set of its identifiers *)
(* (contains_id only tests membership).  A file's content is the sequence  *)
(* of the indices of the records written into it; the license HEADER each  *)
(* file starts with and the record formatting are not modelled.  Opening   *)
(* and locking the files is modelled in BuildProcesses.                    *)
(***************************************************************************)
EXTENDS Naturals, Sequences, SequencesExt, FiniteSets

CONSTANTS
    Files,        \* the output file names, the keys of splitguide.yaml
    Ids,          \* declaration identifiers
    Rules,        \* the SplitRule values a guide may use
    Guides,       \* the splitguide.yaml contents to check: Files -> Seq(Rules)
    RecordSeqs    \* the record sequences group_tokens may return

RecordTypes ==
    {"Empty", "Multiple", "PrivateToken", "Typedef", "Function", "Const",
     "PreprDefine", "PreprInclude"}

ASSUME Rules \subseteq
          [kind : {"Brand"}, arg : RecordTypes \ {"Empty", "PrivateToken"}]
    \cup  [kind : {"Exclusive", "Shared"}, arg : Ids]

VARIABLES
    guide,     \* SplitGuide.rules
    records,   \* the result of group_tokens: Seq([rt, ids])
    used,      \* Record.used, one flag per record
    out,       \* the records written to each file, in write order
    idx,       \* the record the routing loop is at
    stage      \* "check_ids", "route", "done",
               \* "err_ids" or "err_unused" (split_bindings returned Err)

vars == <<guide, records, used, out, idx, stage>>

-----------------------------------------------------------------------------
(* Record::contains_id *)
ContainsId(rec, id) == id \in rec.ids

(* SplitGuide::requested_ids: the ids of every Exclusive and Shared rule *)
RequestedIds(g) ==
    UNION {{r.arg : r \in {r \in ToSet(g[f]) : r.kind # "Brand"}} : f \in Files}

(* the rules of one file that push it onto the shared list, one push each *)
SharedHits(g, rec, f) ==
    Len(SelectSeq(g[f], LAMBDA r :
            \/ r.kind = "Brand"  /\ r.arg = rec.rt
            \/ r.kind = "Shared" /\ ContainsId(rec, r.arg)))

(* the rules of one file that push it onto the exclusive list *)
ExclusiveHits(g, rec, f) ==
    Len(SelectSeq(g[f], LAMBDA r : r.kind = "Exclusive" /\ ContainsId(rec, r.arg)))

(* mutant: exclusive matches are added to the shared ones, not substituted *)
AppropriateFilesMerged(g, rec) ==
    [f \in Files |-> SharedHits(g, rec, f) + ExclusiveHits(g, rec, f)]

(* SplitGuide::appropriate_files, as the number of times it lists each file *)
AppropriateFiles(g, rec) ==
    IF \A f \in Files : ExclusiveHits(g, rec, f) = 0
    THEN [f \in Files |-> SharedHits(g, rec, f)]
    ELSE [f \in Files |-> ExclusiveHits(g, rec, f)]

(* mutant: Multiple records are exempted from the exhaustiveness check *)
IsUsedSkipsMultiple(rec, u) == u \/ rec.rt \in {"Empty", "PrivateToken", "Multiple"}

(* Record::is_used *)
IsUsed(rec, u) == u \/ rec.rt \in {"Empty", "PrivateToken"}

-----------------------------------------------------------------------------
Init ==
    /\ guide \in Guides
    /\ records \in RecordSeqs
    /\ used = [i \in DOMAIN records |-> FALSE]
    /\ out = [f \in Files |-> <<>>]     \* each file truncated, HEADER written
    /\ idx = 1
    /\ stage = "check_ids"

(* the requested-ids loop of split_bindings finds every id *)
RequestedIdsFound ==
    /\ stage = "check_ids"
    /\ \A id \in RequestedIds(guide) : \E i \in DOMAIN records : ContainsId(records[i], id)
    /\ stage' = "route"
    /\ UNCHANGED <<guide, records, used, out, idx>>

(* "... not found (requested explicitly by splitguide.yaml)" *)
RequestedIdMissing ==
    /\ stage = "check_ids"
    /\ \E id \in RequestedIds(guide) : \A i \in DOMAIN records : ~ContainsId(records[i], id)
    /\ stage' = "err_ids"
    /\ UNCHANGED <<guide, records, used, out, idx>>

(* mutant: the loop writes the index of the next record *)
RouteOffByOne ==
    /\ stage = "route"
    /\ idx \in DOMAIN records
    /\ LET n == AppropriateFiles(guide, records[idx]) IN
         /\ out' = [f \in Files |-> out[f] \o [k \in 1..n[f] |-> idx + 1]]
         /\ used' = [used EXCEPT ![idx] = @ \/ \E f \in Files : n[f] > 0]
    /\ idx' = idx + 1
    /\ UNCHANGED <<guide, records, stage>>

(* one iteration of the routing loop: the record is written once for each *)
(* time appropriate_files lists a file, and marked used if listed at all  *)
Route ==
    /\ stage = "route"
    /\ idx \in DOMAIN records
    /\ LET n == AppropriateFiles(guide, records[idx]) IN
         /\ out' = [f \in Files |-> out[f] \o [k \in 1..n[f] |-> idx]]
         /\ used' = [used EXCEPT ![idx] = @ \/ \E f \in Files : n[f] > 0]
    /\ idx' = idx + 1
    /\ UNCHANGED <<guide, records, stage>>

(* the is_used loop finds every record used or trivial *)
AllUsed ==
    /\ stage = "route"
    /\ idx = Len(records) + 1
    /\ \A i \in DOMAIN records : IsUsed(records[i], used[i])
    /\ stage' = "done"
    /\ UNCHANGED <<guide, records, used, out, idx>>

(* "Unused ... record": is_used returns Err for the first unrouted record *)
SomeUnused ==
    /\ stage = "route"
    /\ idx = Len(records) + 1
    /\ \E i \in DOMAIN records : ~IsUsed(records[i], used[i])
    /\ stage' = "err_unused"
    /\ UNCHANGED <<guide, records, used, out, idx>>

(* split_bindings has returned *)
Returned ==
    /\ stage \in {"done", "err_ids", "err_unused"}
    /\ UNCHANGED vars

Next ==
    \/ RequestedIdsFound \/ RequestedIdMissing
    \/ Route \/ AllUsed \/ SomeUnused
    \/ Returned

Spec == Init /\ [][Next]_vars

-----------------------------------------------------------------------------
Written(i) == {f \in Files : \E k \in DOMAIN out[f] : out[f][k] = i}
HasExclusive(rec) == \E f \in Files : ExclusiveHits(guide, rec, f) > 0
Trivial(rec) == rec.rt \in {"Empty", "PrivateToken"}

TypeOK ==
    /\ used \in [DOMAIN records -> BOOLEAN]
    /\ out \in [Files -> Seq(DOMAIN records)]
    /\ idx \in 1..Len(records) + 1
    /\ stage \in {"check_ids", "route", "done", "err_ids", "err_unused"}

(* Exclusivity precedence (spec 4.3): a record matched by an Exclusive rule *)
(* of any file is written only to files whose Exclusive rules match it,    *)
(* never to a file that merely shares it or takes its brand.              *)
ExclusivityPrecedence ==
    \A i \in 1..idx - 1 :
        HasExclusive(records[i]) =>
            \A f \in Written(i) : ExclusiveHits(guide, records[i], f) > 0

(* Exhaustiveness (spec 4.4): split_bindings succeeds only if every record *)
(* that is neither Empty nor PrivateToken reached some file, and it fails  *)
(* on the is_used check only if one did not.                               *)
NoDeclarationDropped ==
    /\ stage = "done" =>
           \A i \in DOMAIN records : ~Trivial(records[i]) => Written(i) # {}
    /\ stage = "err_unused" =>
           \E i \in DOMAIN records : ~Trivial(records[i]) /\ Written(i) = {}
=============================================================================
