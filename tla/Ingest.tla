-------------------------------- MODULE Ingest --------------------------------
(***************************************************************************)
(* The five ingest() calls at the head of build_catalog(), one row to a    *)
(* step.  CatalogJoin takes their results as one tuple of inputs: this     *)
(* module is where that tuple comes from.                                  *)
(***************************************************************************)
EXTENDS IngestInputs, FiniteSets

VARIABLES
    docs,    \* the documents
    pc,      \* the loop being run, or how the calls ended
    at,      \* the position that loop is at
    k,       \* the position in a loop inside it
    family,  \* the row of the family header last seen, 0 before the first
    best,    \* the position of the best citation so far, 0 without one
    names,   \* the marketing names of the table at hand so far
    made     \* what has been ingested

vars == <<docs, pc, at, k, family, best, names, made>>
inner == <<k, family, best, names>>

\* The loops over rows, in the order of the calls.
NextStage == [specs |-> "types", types |-> "ids", ids |-> "processors", processors |-> "tables",
              tables |-> "npus", npus |-> "done"]

Stages == DOMAIN NextStage

\* A processor refers to its row, and to the row of its family header.
Processor == [at : Nat \ {0}, family : Nat, generation : STRING \cup {NONE}]

\* A product refers to its table and its row in it.
GpuSpecs == [at    : (Nat \ {0}) \X (Nat \ {0}),
             row   : GpuRow,
             specs : [Slugs -> [number : BOOLEAN, text : STRING] \cup {NONE}],
             memory_model : {"unified", "dedicated"}]

Made == [gpus      : Seq(GpuSpecs),
         precision : SUBSET ({Generations[g] : g \in 1..Len(Generations)} \X (STRING \X BOOLEAN)),
         ids       : Seq(IdRow),
         llvm      : Seq(Processor),
         tables    : [TableName -> Seq(Name)],
         npus      : Seq(NpuIdRow)]

TypeOK ==
    /\ docs \in Document
    /\ pc \in Stages \cup {"resolve", "names", "done", "raised"}
    /\ at \in Nat \ {0}
    /\ k \in Nat \ {0}
    /\ family \in Nat
    /\ best \in Nat
    /\ names \in Seq(Name)
    /\ made \in Made

Init ==
    /\ docs \in Documents
    /\ pc = "specs"
    /\ at = 1
    /\ k = 1
    /\ family = 0
    /\ best = 0
    /\ names = <<>>
    /\ made = [gpus |-> <<>>, precision |-> {}, ids |-> <<>>, llvm |-> <<>>,
               tables |-> [name \in TableName |-> <<>>], npus |-> <<>>]

-----------------------------------------------------------------------------
\* The ingest has nothing to read.
Missing(stage) ==
    \/ stage = "types" /\ NativeTables(docs) = {}
    \/ stage = "processors" /\ ProcessorTables(docs) = {}
    \/ stage = "tables" /\ ~docs.driver.found

Length(stage) ==
    CASE stage = "specs"      -> Len(docs.specs)
      [] stage = "types"      -> Len(TypeRows(docs))
      [] stage = "ids"        -> Len(docs.ids)
      [] stage = "processors" -> Len(ProcessorRows(docs))
      [] stage = "tables"     -> Len(docs.driver.tables)
      [] stage = "npus"       -> Len(docs.driver.ids)

\* The row makes its ingest raise.
Bad(stage, j) ==
    \/ stage = "types" /\ BadTypeRow(TypeRows(docs)[j])
    \/ stage = "ids" /\ BadLine(docs.ids[j])
    \/ stage = "npus" /\ docs.driver.ids[j].info \notin DOMAIN HwGen

\* The ingest gets past the position.
Usable(stage, j) == ~Missing(stage) /\ (j <= Length(stage) => ~Bad(stage, j))

Running(stage) == pc = stage /\ Usable(stage, at) /\ at <= Length(stage)

\* One iteration: its loop goes on to the next row.
Iterate(stage) == Running(stage) /\ at' = at + 1 /\ UNCHANGED <<docs, pc>>

\* Mutant: a bad row is passed over.
RaiseSwallows ==
    /\ pc \in Stages
    /\ ~Missing(pc)
    /\ ~Usable(pc, at)
    /\ at' = at + 1
    /\ UNCHANGED <<docs, pc, inner, made>>

\* Every exception that an ingest raises or lets through.
Raise ==
    /\ pc \in Stages
    /\ ~Usable(pc, at)
    /\ pc' = "raised"
    /\ UNCHANGED <<docs, at, inner, made>>

\* Mutant: the next loop starts at position 0.
EndLoopFromZero ==
    /\ pc \in Stages
    /\ Usable(pc, at)
    /\ at > Length(pc)
    /\ pc' = NextStage[pc]
    /\ at' = 0
    /\ UNCHANGED <<docs, inner, made>>

EndLoop ==
    /\ pc \in Stages
    /\ Usable(pc, at)
    /\ at > Length(pc)
    /\ pc' = NextStage[pc]
    /\ at' = 1
    /\ UNCHANGED <<docs, inner, made>>

-----------------------------------------------------------------------------
\* gpu-specs.rst, one table.
IngestSpecs ==
    /\ Iterate("specs")
    /\ made' = IF TabTitle(docs.specs[at]) \in KnownTabs
                 THEN [made EXCEPT !.gpus = @ \o [r \in 1..Len(docs.specs[at].rows) |-> RowToEntry(docs, at, r)]]
                 ELSE made
    /\ UNCHANGED inner

\* Mutant: a type mentioned again keeps what the earlier row said, too.
IngestTypeAdds ==
    /\ Iterate("types")
    /\ LET row == TypeRows(docs)[at]
       IN  made' = [made EXCEPT !.precision = @ \cup
                      {<<Generations[g], <<KeyOf(row), SupportIcon[row[g + 1].text]>>>> : g \in Covered(row)}]
    /\ UNCHANGED inner

\* precision-support.rst, one type: result[generation][type_key] = support.
IngestType ==
    /\ Iterate("types")
    /\ LET row == TypeRows(docs)[at]
           covered == {Generations[g] : g \in Covered(row)}
       IN  made' = [made EXCEPT !.precision =
                      {p \in @ : p[1] \notin covered \/ p[2][1] # KeyOf(row)}
                      \cup {<<Generations[g], <<KeyOf(row), SupportIcon[row[g + 1].text]>>>> : g \in Covered(row)}]
    /\ UNCHANGED inner

\* Mutant: the device id goes in as it is written.
IngestLineVerbatim ==
    /\ Iterate("ids")
    /\ LET line == docs.ids[at]
       IN  made' = IF SkippedLine(line)
                     THEN made
                     ELSE [made EXCEPT !.ids = Append(@, [device_id   |-> line.device,
                                                          revision_id |-> UpperCase[line.revision],
                                                          names       |-> line.names])]
    /\ UNCHANGED inner

\* amdgpu.ids, one line.
IngestLine ==
    /\ Iterate("ids")
    /\ LET line == docs.ids[at]
       IN  made' = IF SkippedLine(line)
                     THEN made
                     ELSE [made EXCEPT !.ids = Append(@, [device_id   |-> LowerCase[line.device],
                                                          revision_id |-> UpperCase[line.revision],
                                                          names       |-> line.names])]
    /\ UNCHANGED inner

-----------------------------------------------------------------------------
\* AMDGPUUsage.rst.  The header's citations and parenthesis are kept until the
\* next header; before the first there are none.
Row == ProcessorRows(docs)[at]
Tokens == IF family = 0 THEN <<>> ELSE ProcessorRows(docs)[family].tokens
Paren == IF family = 0 THEN NONE ELSE ParenGeneration(ProcessorRows(docs)[family].paren)

Emit(generation) ==
    made' = [made EXCEPT !.llvm = Append(@, [at |-> at, family |-> family, generation |-> generation])]

ReadHeader ==
    /\ Iterate("processors")
    /\ Row.header
    /\ family' = at
    /\ UNCHANGED <<k, best, names, made>>

\* A row with an empty target, or one that does not start with "gfx".
SkipProcessor ==
    /\ Iterate("processors")
    /\ ~Row.header
    /\ Row.target = "" \/ Row.number = NONE
    /\ IF Row.target = "" THEN UNCHANGED made ELSE Emit(NONE)
    /\ UNCHANGED inner

\* _resolve_generation is called ...
BeginResolve ==
    /\ Running("processors")
    /\ ~Row.header
    /\ Row.target # ""
    /\ Row.number # NONE
    /\ pc' = "resolve"
    /\ k' = 1
    /\ best' = 0
    /\ UNCHANGED <<docs, at, family, names, made>>

\* Mutant: of two citations of one length the later wins.
WeighCitationLast ==
    /\ pc = "resolve"
    /\ k <= Len(Tokens)
    /\ best' = IF /\ Covers(Tokens[k], Row.number)
                  /\ best = 0 \/ Len(Tokens[k].number) >= Len(Tokens[best].number)
                 THEN k ELSE best
    /\ k' = k + 1
    /\ UNCHANGED <<docs, pc, at, family, names, made>>

\* ... weighs one citation after the other ...
WeighCitation ==
    /\ pc = "resolve"
    /\ k <= Len(Tokens)
    /\ best' = IF /\ Covers(Tokens[k], Row.number)
                  /\ best = 0 \/ Len(Tokens[k].number) > Len(Tokens[best].number)
                 THEN k ELSE best
    /\ k' = k + 1
    /\ UNCHANGED <<docs, pc, at, family, names, made>>

\* ... and returns the generation of the best.
EndResolve ==
    /\ pc = "resolve"
    /\ k > Len(Tokens)
    /\ Emit(IF best # 0 THEN Tokens[best].generation ELSE Paren)
    /\ pc' = "processors"
    /\ at' = at + 1
    /\ UNCHANGED <<docs, inner>>

-----------------------------------------------------------------------------
\* Mutant: the list of names is not emptied.
BeginTableKeeps ==
    /\ Running("tables")
    /\ pc' = "names"
    /\ k' = 1
    /\ UNCHANGED <<docs, at, family, best, names, made>>

\* The register files, one marketing-name table, ...
BeginTable ==
    /\ Running("tables")
    /\ pc' = "names"
    /\ k' = 1
    /\ names' = <<>>
    /\ UNCHANGED <<docs, at, family, best, made>>

\* ... one name of it, ...
ReadName ==
    /\ pc = "names"
    /\ k <= Len(docs.driver.tables[at].names)
    /\ LET name == NormalizeFamily(docs.driver.tables[at].names[k])
       IN  names' = IF \E j \in 1..Len(names) : names[j] = name THEN names ELSE Append(names, name)
    /\ k' = k + 1
    /\ UNCHANGED <<docs, pc, at, family, best, made>>

\* ... tables[table_name] = names.
EndTable ==
    /\ pc = "names"
    /\ k > Len(docs.driver.tables[at].names)
    /\ made' = [made EXCEPT !.tables[docs.driver.tables[at].name] = names]
    /\ pc' = "tables"
    /\ at' = at + 1
    /\ UNCHANGED <<docs, inner>>

\* No reference, no table of that name and an empty table are all no family.
FamilyOf(info) ==
    LET table == TableOf(docs, info)
    IN  IF table = NONE \/ made.tables[table] = <<>> THEN NONE ELSE made.tables[table]

\* amdxdna_ids[], one row.
IngestNpu ==
    /\ Iterate("npus")
    /\ LET row == docs.driver.ids[at]
       IN  made' = [made EXCEPT !.npus = Append(@, [device_id   |-> LowerCase[row.device],
                                                    revision_id |-> row.revision,
                                                    hw_gen      |-> HwGen[row.info],
                                                    family      |-> FamilyOf(row.info)])]
    /\ UNCHANGED inner

Next ==
    \/ Raise \/ EndLoop
    \/ IngestSpecs \/ IngestType \/ IngestLine
    \/ ReadHeader \/ SkipProcessor \/ BeginResolve \/ WeighCitation \/ EndResolve
    \/ BeginTable \/ ReadName \/ EndTable \/ IngestNpu

Spec == Init /\ [][Next]_vars

-----------------------------------------------------------------------------
\* What build_catalog() goes on with.
Ingested ==
    LET rowOf(j) == ProcessorRows(docs)[made.llvm[j].at]
    IN  [parses    |-> TRUE,
         gpus      |-> [j \in 1..Len(made.gpus) |-> made.gpus[j].row],
         ids       |-> made.ids,
         precision |-> made.precision,
         llvm      |-> [j \in 1..Len(made.llvm) |->
                          [gfx_target |-> rowOf(j).target,
                           generation |-> made.llvm[j].generation,
                           subarch    |-> rowOf(j).subarch]],
         npus      |-> made.npus,
         notes     |-> <<>>]

\* What the five calls return is an input that CatalogJoin is about.
SuitsTheJoin == pc = "done" => Ingested \in SourceRecord

\* The citation that an entry's generation is from: of its number, in the
\* family header right above it, as long as any other and before its equals;
\* without any it is the header's parenthesis.
RightGeneration(d, entry) ==
    LET rows == ProcessorRows(d)
        number == rows[entry.at].number
        tokens == IF entry.family = 0 THEN <<>> ELSE rows[entry.family].tokens
        covering == {m \in 1..Len(tokens) : Covers(tokens[m], number)}
    IN  /\ \A j \in 1..(entry.at - 1) : rows[j].header => j <= entry.family
        /\ entry.family < entry.at
        /\ entry.family # 0 => rows[entry.family].header
        /\ number = NONE => entry.generation = NONE
        /\ number # NONE =>
              \/ \E m \in covering :
                    /\ entry.generation = tokens[m].generation
                    /\ \A j \in covering :
                          \/ Len(tokens[j].number) < Len(tokens[m].number)
                          \/ Len(tokens[j].number) = Len(tokens[m].number) /\ m <= j
              \/ /\ covering = {}
                 /\ entry.generation = IF entry.family = 0 THEN NONE ELSE ParenGeneration(rows[entry.family].paren)

\* "Generation extraction is citation-based": the generation of a processor
\* comes from the family header right above it and from none before that one,
\* and there from the most specific citation, wherever in the header it stands.
MostSpecificGeneration == \A i \in 1..Len(made.llvm) : RightGeneration(docs, made.llvm[i])

\* The place of a name's first mention in a table, sub-revisions put together.
FirstMention(table, name) ==
    FirstOf({m \in 1..Len(table.names) : NormalizeFamily(table.names[m]) = name})

\* "The whole set of names the driver associates with a pair, never a guessed
\* single value, and left unset where the driver provides no marketing-name
\* table": family is exactly the names of the table that the row's dev_info
\* refers to, each once, in the table's order.
FamilyIsTheWholeSet ==
    \A j \in 1..Len(made.npus) :
        LET symbol == TableOf(docs, docs.driver.ids[j].info)
            tables == {t \in 1..Len(docs.driver.tables) : docs.driver.tables[t].name = symbol}
            table == docs.driver.tables[LastOf(tables)]
            family_ == made.npus[j].family
        IN  IF symbol = NONE \/ tables = {} \/ table.names = <<>>
              THEN family_ = NONE
              ELSE /\ {family_[m] : m \in 1..Len(family_)} = {NormalizeFamily(table.names[m]) : m \in 1..Len(table.names)}
                   /\ \A m, o \in 1..Len(family_) :
                         m < o => FirstMention(table, family_[m]) < FirstMention(table, family_[o])

\* A generation has for each type one verdict at most, that of the last row
\* for the type that has an icon for it, and none that no row gave.
OneVerdictPerType ==
    pc \in Stages \ {"specs", "types"} =>
        LET rows == TypeRows(docs)
            said(g, key) == {j \in 1..Len(rows) : g \in Covered(rows[j]) /\ KeyOf(rows[j]) = key}
            last(g) == {j \in 1..Len(rows) : j \in said(g, KeyOf(rows[j])) /\ j = LastOf(said(g, KeyOf(rows[j])))}
        IN  made.precision =
              UNION {{<<Generations[g], <<KeyOf(rows[j]), SupportIcon[rows[j][g + 1].text]>>>> : j \in last(g)} :
                       g \in 1..Len(Generations)}

\* A row of gpu-specs.rst and the product read from it: no cell of the row is
\* missing from the product unless it lies beyond the header, or a later column
\* of the same title or slug took its place.
Holds(product, table, row) ==
    \A c \in 1..Len(row) :
        \/ c > Len(table.header)
        \/ table.header[c] = "Architecture" /\ product.row.generation # NONE
        \/ table.header[c] = "LLVM target name" /\ product.row.gfx_target # NONE
        \/ table.header[c] = "Name" /\ product.row.product_name # NONE
        \/ table.header[c] = "Graphics model" /\ product.row.graphics_model # NONE
        \/ \E b \in c..Len(row) :
              /\ b <= Len(table.header)
              /\ Slug[table.header[b]] = Slug[table.header[c]]
              /\ product.specs[Slug[table.header[c]]] = Coerce(row[b])

\* The documents reach the join whole: no product of a known tab, no cell of
\* it, no line of amdgpu.ids with three fields, no processor and no NPU is
\* lost on the way, and none is there twice.  A cell is one that the header has
\* a title for, and it may give way to a later one of the same slug, as in the
\* code.
NothingIsLost ==
    pc = "done" =>
        LET lines == {j \in 1..Len(docs.ids) : ~docs.ids[j].comment /\ docs.ids[j].fields = 3}
            processors == {j \in 1..Len(ProcessorRows(docs)) :
                             ~ProcessorRows(docs)[j].header /\ ProcessorRows(docs)[j].target # ""}
        IN  /\ \A t \in 1..Len(docs.specs) : TabTitle(docs.specs[t]) \in KnownTabs =>
                  \A r \in 1..Len(docs.specs[t].rows) :
                      \E i \in 1..Len(made.gpus) :
                          /\ made.gpus[i].at = <<t, r>>
                          /\ Holds(made.gpus[i], docs.specs[t], docs.specs[t].rows[r])
            /\ \A i, j \in 1..Len(made.gpus) : made.gpus[i].at = made.gpus[j].at => i = j
            /\ {<<made.ids[i].device_id, made.ids[i].names>> : i \in 1..Len(made.ids)}
                 = {<<LowerCase[docs.ids[j].device], docs.ids[j].names>> : j \in lines}
            /\ Len(made.ids) = Cardinality(lines)
            /\ {made.llvm[i].at : i \in 1..Len(made.llvm)} = processors
            /\ Len(made.llvm) = Cardinality(processors)
            /\ Len(made.npus) = Len(docs.driver.ids)

Faultless ==
    \A stage \in Stages :
        /\ ~Missing(stage)
        /\ \A j \in 1..Length(stage) : ~Bad(stage, j)

\* One bad row, in whichever document and after however many good ones, leaves
\* the build without any input; nothing but a bad row or a missing table does.
AllOrNothing == (pc = "done" => Faultless) /\ (pc = "raised" => ~Faultless)

=============================================================================
