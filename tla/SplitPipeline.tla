---------------------------- MODULE SplitPipeline ----------------------------
(***************************************************************************)
(* split_bindings end to end: the records group_tokens builds from the     *)
(* text of zenoh-gen.h (HeaderPipeline) are the records the routing loop  *)
(* hands to appropriate_files (SplitBindings).  The grouper's records are *)
(* named `grouped` here; the splitter sees each as its RecordType and the *)
(* set of its identifiers.                                                *)
(***************************************************************************)
EXTENDS Naturals, Sequences, SequencesExt, FiniteSets

CONSTANTS Headers, Files, Rules, Guides

VARIABLES
    header, rest, collect, grouped, status,    \* group_tokens
    guide, records, used, out, idx, stage      \* the splitter; stage
                                               \* "grouping" until it runs

hvars == <<header, rest, collect, grouped, status>>
svars == <<guide, records, used, out, idx, stage>>

HP == INSTANCE HeaderPipeline WITH records <- grouped
SB == INSTANCE SplitBindings WITH Ids <- HP!IdSeqs, RecordSeqs <- {}

Init ==
    /\ HP!Init
    /\ guide \in Guides
    /\ records = <<>> /\ used = <<>> /\ idx = 1
    /\ out = [f \in Files |-> <<>>]      \* files truncated, HEADER written
    /\ stage = "grouping"

(* the `?` after group_tokens: on Ok its records are the ones routed *)
Handover ==
    /\ stage = "grouping" /\ status = "done"
    /\ records' = [i \in DOMAIN grouped |->
                     [rt |-> grouped[i].rt, ids |-> ToSet(grouped[i].ids)]]
    /\ used' = [i \in DOMAIN grouped |-> FALSE]
    /\ stage' = "check_ids"
    /\ UNCHANGED <<guide, out, idx>> /\ UNCHANGED hvars

Grouping == stage = "grouping" /\ HP!Next /\ UNCHANGED svars
Splitting == stage # "grouping" /\ SB!Next /\ UNCHANGED hvars

Next == Grouping \/ Handover \/ Splitting

Spec == Init /\ [][Next]_<<hvars, svars>>

-----------------------------------------------------------------------------
(* Spec 4.2's merge rule: the first classification wins, a second         *)
(* DIFFERENT one forces Multiple (scenario 5: a conditional block holding *)
(* one kind of declaration keeps that kind)                               *)
SpecUpdate(rt, new) ==
    IF rt = "Empty" THEN new ELSE IF rt = new THEN rt ELSE "Multiple"

SpecRecordType(r) ==
    FoldLeft(SpecUpdate, "Empty",
             SelectSeq([k \in DOMAIN r.tokens |-> r.tokens[k].tt],
                       LAMBDA tt : tt \in HP!G!ClassifyingTypes))

(* Spec 4.3's appropriate_files: a SET of files, exclusive ones first *)
SpecFiles(g, rec) ==
    LET excl == {f \in Files : SB!ExclusiveHits(g, rec, f) > 0}
    IN  IF excl # {} THEN excl ELSE {f \in Files : SB!SharedHits(g, rec, f) > 0}

TimesWritten(i, f) == Len(SelectSeq(out[f], LAMBDA j : j = i))

TypeOK ==
    /\ HP!TypeOK
    /\ stage \in {"grouping", "check_ids", "route", "done", "err_ids", "err_unused"}
    /\ stage # "grouping" => SB!TypeOK

(* Routing as specified (spec 4.2, 4.3, 4.4): once split_bindings has     *)
(* routed the records group_tokens built from the header, each record is  *)
(* in each output file exactly once if spec 4.3's appropriate_files of    *)
(* its spec 4.2 classification names the file, and never otherwise.       *)
RoutedAsSpecified ==
    stage \in {"done", "err_unused"} =>
        \A i \in DOMAIN grouped, f \in Files :
            LET rec == [rt |-> SpecRecordType(grouped[i]), ids |-> records[i].ids]
            IN  TimesWritten(i, f) = IF f \in SpecFiles(guide, rec) THEN 1 ELSE 0
====
