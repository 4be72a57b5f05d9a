----------------------------- MODULE CatalogJoin -----------------------------
(***************************************************************************)
(* build_catalog() of build_catalog.py, with apply_device_ids() of         *)
(* match_gpu_device_ids.py and cross_check() of cross_check_llvm.py: the   *)
(* loops that join the ingested documents, each over a mutable list of GPU *)
(* entries, one iteration to a step.                                       *)
(***************************************************************************)
EXTENDS CatalogInputs

VARIABLES
    src,       \* the ingested documents
    pc,        \* the loop being run, or how the call ended
    n,         \* the position the loop is at
    index,     \* build_device_id_index: pairs of a normalised name and a device id
    gpus,      \* gpu_entries
    warned,    \* the findings reported so far: which warning, about which row
    catalog    \* the dictionary returned, NONE before

vars == <<src, pc, n, index, gpus, warned, catalog>>

Stages == {"ingest", "index", "match", "precision", "mismatch", "newTarget", "stepping"}

\* The loops in the order the code runs them.
NextStage == [index |-> "match", match |-> "precision", precision |-> "mismatch",
              mismatch |-> "newTarget", newTarget |-> "stepping", stepping |-> "assemble"]

\* Mutant: LLVM's rows are scanned as far as there are products.
LengthOfProducts(stage) == IF stage = "index" THEN Len(src.ids) ELSE Len(src.gpus)

\* How far each loop runs.
Length(stage) ==
    CASE stage = "index"     -> Len(src.ids)
      [] stage = "newTarget" -> Len(src.llvm)
      [] OTHER               -> Len(src.gpus)

WarningKinds == {"unmatched", "ambiguous", "precision", "mismatch", "newTarget", "stepping"}

Warning == [kind : WarningKinds, at : Nat \ {0}]

GpuEntry == [row         : GpuRow,
             device_id   : DeviceId \cup {NONE},
             revision_id : {NONE},
             precision   : SUBSET Cell,
             stepping    : STRING \cup {NONE}]

TypeOK ==
    /\ src \in SourceRecord
    /\ pc \in Stages \cup {"assemble", "done", "raised"}
    /\ n \in Nat \ {0}
    /\ index \in SUBSET (Name \X DeviceId)
    /\ gpus \in Seq(GpuEntry)
    /\ warned \in SUBSET Warning
    /\ catalog \in {NONE} \cup [gpus : Seq(GpuEntry), npus : Seq(NpuRow), notes : Seq(Note)]

-----------------------------------------------------------------------------
Init ==
    /\ src \in Sources
    /\ pc = "ingest"
    /\ n = 1
    /\ index = {}
    /\ gpus = <<>>
    /\ warned = {}
    /\ catalog = NONE

FreshEntry(row) ==
    [row |-> row, device_id |-> NONE, revision_id |-> NONE, precision |-> {}, stepping |-> NONE]

\* The five ingest() calls.  What they read is fixed before the call, so one
\* step stands for them.
Ingest ==
    /\ pc = "ingest"
    /\ src.parses
    /\ gpus' = [i \in 1..Len(src.gpus) |-> FreshEntry(src.gpus[i])]
    /\ pc' = "index"
    /\ UNCHANGED <<src, n, index, warned, catalog>>

IngestRaises ==
    /\ pc = "ingest"
    /\ ~src.parses
    /\ pc' = "raised"
    /\ UNCHANGED <<src, n, index, gpus, warned, catalog>>

\* One iteration of a loop: its position, and what no iteration touches.
Iterate(stage) ==
    /\ pc = stage
    /\ n <= Length(stage)
    /\ n' = n + 1
    /\ UNCHANGED <<src, pc, catalog>>

Warn(kind) == warned' = warned \cup {[kind |-> kind, at |-> n]}

\* Mutant: a later row's id replaces an earlier one's under the same alias.
IndexRowReplaces ==
    /\ Iterate("index")
    /\ LET aliases == {Normalize(alias) : alias \in src.ids[n].names}
       IN  index' = {pair \in index : pair[1] \notin aliases} \cup (aliases \X {src.ids[n].device_id})
    /\ UNCHANGED <<gpus, warned>>

\* build_device_id_index: every alias of one row.
IndexRow ==
    /\ Iterate("index")
    /\ index' = index \cup {<<Normalize(alias), src.ids[n].device_id>> : alias \in src.ids[n].names}
    /\ UNCHANGED <<gpus, warned>>

\* index.get(normalize_name(candidate_name)) for the entry at position n.
Candidates ==
    {d \in DeviceId : <<Normalize(CandidateName(gpus[n].row)), d>> \in index}

Match ==
    /\ Iterate("match")
    /\ gpus[n].row.product_name # NONE
    /\ UNCHANGED index

MatchNone == Match /\ Candidates = {} /\ Warn("unmatched") /\ UNCHANGED gpus

\* Mutant: ambiguous products are counted as matched, without a report.
MatchAmbiguousSilently ==
    /\ Match
    /\ \E d, e \in Candidates : d # e
    /\ UNCHANGED <<gpus, warned>>

MatchAmbiguous ==
    /\ Match
    /\ \E d, e \in Candidates : d # e
    /\ Warn("ambiguous")
    /\ UNCHANGED gpus

\* Mutant: the first candidate will do.
MatchAny ==
    /\ Match
    /\ \E d \in Candidates : gpus' = [gpus EXCEPT ![n].device_id = d]
    /\ UNCHANGED warned

\* The only candidate is given to the entry.
GiveId ==
    \E d \in Candidates :
        /\ Candidates = {d}
        /\ gpus' = [gpus EXCEPT ![n].device_id = d]

MatchOne == Match /\ GiveId /\ UNCHANGED warned

\* entry["product_name"] is read on every branch, for the report if not for the
\* match, and after the id has been given to an entry that graphics_model
\* matched.  The exception takes the report with it: nothing of it is printed.
MatchRaises ==
    /\ pc = "match"
    /\ n <= Len(src.gpus)
    /\ gpus[n].row.product_name = NONE
    /\ pc' = "raised"
    /\ warned' = {}
    /\ IF CandidateName(gpus[n].row) # NONE /\ \E d \in Candidates : Candidates = {d}
         THEN GiveId
         ELSE UNCHANGED gpus
    /\ UNCHANGED <<src, n, index, catalog>>

\* Mutant: the alias is written back to the entry.
JoinPrecisionRenames ==
    /\ Iterate("precision")
    /\ LET block == PrecisionBlock(src, gpus[n].row.generation)
       IN  IF block # {}
             THEN /\ gpus' = [gpus EXCEPT ![n].precision = block,
                                          ![n].row.generation = Alias(gpus[n].row.generation)]
                  /\ UNCHANGED warned
             ELSE Warn("precision") /\ UNCHANGED gpus
    /\ UNCHANGED index

\* The loop over gpu_entries that attaches the precision block.
JoinPrecision ==
    /\ Iterate("precision")
    /\ LET block == PrecisionBlock(src, gpus[n].row.generation)
       IN  IF block # {}
             THEN gpus' = [gpus EXCEPT ![n].precision = block] /\ UNCHANGED warned
             ELSE Warn("precision") /\ UNCHANGED gpus
    /\ UNCHANGED index

\* cross_check's first loop.
CheckMismatch ==
    /\ Iterate("mismatch")
    /\ IF Mismatch(src, gpus[n].row.gfx_target, gpus[n].row.generation)
         THEN Warn("mismatch")
         ELSE UNCHANGED warned
    /\ UNCHANGED <<index, gpus>>

\* cross_check's second loop, over LLVM's rows.
KnownTargets == {gpus[i].row.gfx_target : i \in DOMAIN gpus}

CheckNewTarget ==
    /\ Iterate("newTarget")
    /\ IF src.llvm[n].generation # NONE /\ src.llvm[n].gfx_target \notin KnownTargets
         THEN Warn("newTarget")
         ELSE UNCHANGED warned
    /\ UNCHANGED <<index, gpus>>

\* The loop that derives specs["gfxip_stepping_version"] from LLVM's subarch.
SkipStepping ==
    /\ Iterate("stepping")
    /\ ~HasSubarch(src, gpus[n].row.gfx_target)
    /\ UNCHANGED <<index, gpus, warned>>

JoinStepping ==
    /\ Iterate("stepping")
    /\ HasSubarch(src, gpus[n].row.gfx_target)
    /\ LET stepping == Stepping(LlvmRowOf(src, gpus[n].row.gfx_target).subarch)
       IN  IF stepping # NONE
             THEN gpus' = [gpus EXCEPT ![n].stepping = stepping] /\ UNCHANGED warned
             ELSE Warn("stepping") /\ UNCHANGED gpus
    /\ UNCHANGED index

\* Mutant: the next loop starts at position 0.
EndLoopFromZero ==
    /\ pc \in DOMAIN NextStage
    /\ n > Length(pc)
    /\ pc' = NextStage[pc]
    /\ n' = 0
    /\ UNCHANGED <<src, index, gpus, warned, catalog>>

EndLoop ==
    /\ pc \in DOMAIN NextStage
    /\ n > Length(pc)
    /\ pc' = NextStage[pc]
    /\ n' = 1
    /\ UNCHANGED <<src, index, gpus, warned, catalog>>

\* The npu rows and the notes go in as they came.
Assemble ==
    /\ pc = "assemble"
    /\ pc' = "done"
    /\ catalog' = [gpus |-> gpus, npus |-> src.npus, notes |-> src.notes]
    /\ UNCHANGED <<src, n, index, gpus, warned>>

Next ==
    \/ Ingest \/ IngestRaises
    \/ IndexRow
    \/ MatchNone \/ MatchAmbiguous \/ MatchOne \/ MatchRaises
    \/ JoinPrecision
    \/ CheckMismatch \/ CheckNewTarget
    \/ SkipStepping \/ JoinStepping
    \/ EndLoop
    \/ Assemble

Spec == Init /\ [][Next]_vars

-----------------------------------------------------------------------------
\* CatalogReference's catalog and warnings come into being with the return.
Reference == INSTANCE CatalogReference WITH printed <- IF pc = "done" THEN warned ELSE {}

\* The whole call is one of CatalogReference's steps: the catalog returned and
\* the warnings printed are the functions of the documents it names, whatever
\* the order of the rows, and a call that raises publishes nothing.
ImplementsReference == Reference!Init /\ [][Reference!Publish]_Reference!vars

\* "Never guessed": an entry has a device id only while every row of
\* amdgpu.ids that names it, in whatever order and under whatever decoration,
\* carries that same id.
NeverGuesses ==
    \A i \in DOMAIN gpus : gpus[i].device_id # NONE =>
        \A j \in DOMAIN src.ids :
            (\E alias \in src.ids[j].names :
                Normalize(alias) = Normalize(CandidateName(gpus[i].row)))
            => src.ids[j].device_id = gpus[i].device_id

\* "Exact match is deliberate": the row an entry took its device id from has
\* the entry's name but for AMD's decorations at either end, so a variant
\* ("MI300X VF") never lends its id to the base part.
VariantsStayApart ==
    \A i \in DOMAIN gpus : gpus[i].device_id # NONE =>
        \E j \in DOMAIN src.ids : \E alias \in src.ids[j].names :
            /\ src.ids[j].device_id = gpus[i].device_id
            /\ Undecorated(alias) \cap Undecorated(CandidateName(gpus[i].row)) # {}

WarnedAbout(kind, i) == [kind |-> kind, at |-> i] \in warned

\* A returned catalog's gaps and the warnings agree: each entry without a
\* device id or a precision block has its warning, under one reason, and no
\* other entry has one.
GapsAreWarned ==
    pc = "done" =>
        \A i \in DOMAIN gpus :
            /\ (gpus[i].device_id = NONE) <=> (WarnedAbout("unmatched", i) # WarnedAbout("ambiguous", i))
            /\ (gpus[i].device_id # NONE) => ~WarnedAbout("unmatched", i) /\ ~WarnedAbout("ambiguous", i)
            /\ (gpus[i].precision = {}) <=> WarnedAbout("precision", i)

\* No disagreement with LLVM is silent: a target LLVM's last row for it gives
\* another generation than gpu-specs.rst, or that gpu-specs.rst does not have,
\* is named by a warning of the cross-check.
LlvmDisagreementsAreWarned ==
    pc = "done" =>
        \A j \in DOMAIN src.llvm :
            (j = LastOf(LlvmRowsOf(src, src.llvm[j].gfx_target)) /\ src.llvm[j].generation # NONE) =>
                \/ WarnedAbout("newTarget", j)
                \/ /\ \E i \in DOMAIN gpus : gpus[i].row.gfx_target = src.llvm[j].gfx_target
                   /\ \A i \in DOMAIN gpus : gpus[i].row.gfx_target = src.llvm[j].gfx_target =>
                        \/ WarnedAbout("mismatch", i)
                        \/ Alias(gpus[i].row.generation) = Alias(src.llvm[j].generation)

\* Products of one generation, MI100's "CDNA" and "CDNA1" being one, leave the
\* build with the same precision block.
SameGenerationSamePrecision ==
    pc = "done" =>
        \A i, k \in DOMAIN gpus :
            Alias(gpus[i].row.generation) = Alias(gpus[k].row.generation)
                => gpus[i].precision = gpus[k].precision

Kept(before, after, absent) == before = absent \/ after = before

\* The joins add to an entry and never rewrite it: what gpu-specs.rst said
\* ("CDNA" included) is kept, and a joined field keeps the value it was given.
OnlyAdds ==
    \A i \in DOMAIN gpus :
        /\ gpus'[i].row = gpus[i].row
        /\ Kept(gpus[i].device_id, gpus'[i].device_id, NONE)
        /\ Kept(gpus[i].precision, gpus'[i].precision, {})
        /\ Kept(gpus[i].stepping, gpus'[i].stepping, NONE)

JoinsOnlyAdd == [][OnlyAdds]_vars

\* The comment at build_catalog.py:267 says of a gfx_target absent from LLVM's
\* table that the cross-check has already handled it.
AbsentTargetIsReported ==
    pc = "done" =>
        \A i \in DOMAIN gpus :
            (gpus[i].row.gfx_target # NONE /\ LlvmRowsOf(src, gpus[i].row.gfx_target) = {}) =>
                \E w \in warned :
                    \/ w = [kind |-> "mismatch", at |-> i]
                    \/ /\ w.kind = "newTarget"
                       /\ src.llvm[w.at].gfx_target = gpus[i].row.gfx_target

=============================================================================
