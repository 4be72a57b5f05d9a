----------------------------- MODULE IngestProofs -----------------------------
(***************************************************************************)
(* What holds of the five ingests for every tuple of documents.            *)
(***************************************************************************)
EXTENDS Ingest, Positions, SequenceTheorems, FiniteSetTheorems

\* The first and the last of some positions are among them.
LEMMA EndsType ==
    ASSUME NEW max \in Nat, NEW positions \in SUBSET (1..max), positions # {}
    PROVE  FirstOf(positions) \in positions /\ LastOf(positions) \in positions
<1>1. positions \in SUBSET (0..max)
  OBVIOUS
<1>2. \E j \in positions : \A k_ \in positions : j <= k_
  BY <1>1, FirstExists
<1>3. \E j \in positions : \A k_ \in positions : k_ <= j
  BY <1>1, LastExists
<1> QED
  BY <1>2, <1>3 DEF FirstOf, LastOf

\* A tuple of documents has the documents' types.
LEMMA DocTypes ==
    ASSUME NEW d \in Documents
    PROVE  /\ d \in Document
           /\ d.specs \in Seq(Table) /\ d.types \in Seq(Table)
           /\ d.ids \in Seq(Line) /\ d.llvm \in Seq(LlvmTable)
           /\ d.driver \in Driver
  BY DocumentsAssumption DEF Document

\* The table that an ingest reads is one of the document's.
LEMMA RowsType ==
    ASSUME NEW d \in Documents
    PROVE  /\ NativeTables(d) # {} => TypeRows(d) \in Seq(Seq(TableCell))
           /\ ProcessorTables(d) # {} => ProcessorRows(d) \in Seq(LlvmTableRow)
<1>1. ASSUME NativeTables(d) # {} PROVE TypeRows(d) \in Seq(Seq(TableCell))
  <2>1. FirstOf(NativeTables(d)) \in NativeTables(d)
    <3>1. Len(d.types) \in Nat /\ NativeTables(d) \in SUBSET (1..Len(d.types))
      BY DocTypes DEF NativeTables
    <3> QED
      BY <1>1, <3>1, EndsType
  <2>2. d.types[FirstOf(NativeTables(d))] \in Table
    <3>1. FirstOf(NativeTables(d)) \in 1..Len(d.types)
      BY <2>1 DEF NativeTables
    <3> QED
      BY <3>1, DocTypes, ElementOfSeq
  <2> QED
    BY <2>2 DEF TypeRows, Table
<1>2. ASSUME ProcessorTables(d) # {} PROVE ProcessorRows(d) \in Seq(LlvmTableRow)
  <2>1. FirstOf(ProcessorTables(d)) \in ProcessorTables(d)
    <3>1. Len(d.llvm) \in Nat /\ ProcessorTables(d) \in SUBSET (1..Len(d.llvm))
      BY DocTypes DEF ProcessorTables
    <3> QED
      BY <1>2, <3>1, EndsType
  <2>2. d.llvm[FirstOf(ProcessorTables(d))] \in LlvmTable
    <3>1. FirstOf(ProcessorTables(d)) \in 1..Len(d.llvm)
      BY <2>1 DEF ProcessorTables
    <3> QED
      BY <3>1, DocTypes, ElementOfSeq
  <2> QED
    BY <2>2 DEF ProcessorRows, LlvmTable
<1> QED
  BY <1>1, <1>2

\* A field of an entry is a cell of the row, or missing.
LEMMA FieldType ==
    ASSUME NEW table \in Table, NEW row \in Seq(TableCell), NEW title
    PROVE  /\ TextOf(Field(table, row, title)) \in STRING \cup {NONE}
           /\ WordsOf(Field(table, row, title)) \in Name \cup {NONE}
<1> DEFINE columns == {c \in Zipped(table.header, row) : table.header[c] = title}
<1>1. Len(row) \in Nat /\ Len(table.header) \in Nat
  BY DEF Table
<1>2. columns \in SUBSET (1..Len(row))
  BY <1>1 DEF Zipped
<1>3. columns # {} => row[LastOf(columns)] \in TableCell
  <2> SUFFICES ASSUME columns # {} PROVE row[LastOf(columns)] \in TableCell
    OBVIOUS
  <2>1. LastOf(columns) \in columns
    BY <1>1, <1>2, EndsType
  <2>2. LastOf(columns) \in 1..Len(row)
    BY <1>2, <2>1
  <2> HIDE DEF columns
  <2> QED
    BY <2>2, ElementOfSeq
<1>4. Field(table, row, title) \in TableCell \cup {NONE}
  BY <1>3 DEF Field
<1> QED
  BY <1>4 DEF TextOf, WordsOf, TableCell

\* A value of specs is a coerced cell, or missing.
LEMMA SpecType ==
    ASSUME NEW table \in Table, NEW row \in Seq(TableCell), NEW slug
    PROVE  SpecOf(table, row, slug) \in [number : BOOLEAN, text : STRING] \cup {NONE}
<1> DEFINE columns == {c \in SpecColumns(table, row) : Slug[table.header[c]] = slug}
<1>1. Len(row) \in Nat /\ Len(table.header) \in Nat
  BY DEF Table
<1>2. columns \in SUBSET (1..Len(row))
  BY <1>1 DEF SpecColumns, Zipped
<1>3. columns # {} => Coerce(row[LastOf(columns)]) \in [number : BOOLEAN, text : STRING]
  <2> SUFFICES ASSUME columns # {} PROVE Coerce(row[LastOf(columns)]) \in [number : BOOLEAN, text : STRING]
    OBVIOUS
  <2>1. LastOf(columns) \in columns
    BY <1>1, <1>2, EndsType
  <2>2. LastOf(columns) \in 1..Len(row)
    BY <1>2, <2>1
  <2> HIDE DEF columns
  <2>3. row[LastOf(columns)] \in TableCell
    BY <2>2, ElementOfSeq
  <2> QED
    BY <2>3 DEF Coerce, TableCell
<1> QED
  BY <1>3 DEF SpecOf

\* ingest_rocm_gpu_specs._row_to_entry yields a product.
LEMMA RowToEntryType ==
    ASSUME NEW d \in Documents, NEW t \in 1..Len(d.specs), NEW r \in 1..Len(d.specs[t].rows)
    PROVE  RowToEntry(d, t, r) \in GpuSpecs
<1>1. d.specs[t] \in Table
  BY DocTypes
<1>2. d.specs[t].rows[r] \in Seq(TableCell)
  BY <1>1 DEF Table
<1>3. t \in Nat \ {0} /\ r \in Nat \ {0}
  OBVIOUS
<1> DEFINE table == d.specs[t]
           row == table.rows[r]
           fields == [product_name   |-> WordsOf(Field(table, row, "Name")),
                      graphics_model |-> WordsOf(Field(table, row, "Graphics model")),
                      generation     |-> TextOf(Field(table, row, "Architecture")),
                      gfx_target     |-> TextOf(Field(table, row, "LLVM target name"))]
           specs == [slug \in Slugs |-> SpecOf(table, row, slug)]
<1>4. fields \in GpuRow
  BY <1>1, <1>2, FieldType DEF GpuRow
<1>5. specs \in [Slugs -> [number : BOOLEAN, text : STRING] \cup {NONE}]
  BY <1>1, <1>2, SpecType
<1>6. RowToEntry(d, t, r) =
        [at |-> <<t, r>>, row |-> fields, specs |-> specs,
         memory_model |-> IF TabTitle(table) \in UnifiedMemoryTabs THEN "unified" ELSE "dedicated"]
  BY DEF RowToEntry
<1> HIDE DEF fields, specs
<1> QED
  BY <1>3, <1>4, <1>5, <1>6 DEF GpuSpecs

\* ingest_xdna_pciids._normalize_family_name yields a name.
LEMMA NormalizeFamilyType ==
    ASSUME NEW name \in Name
    PROVE  NormalizeFamily(name) \in Name
<1>1. \A nm \in Name, a \in Nat \ {0}, b \in Nat : b <= Len(nm) => SubSeq(nm, a, b) \in Name
  BY SubSeqProperties DEF Name
<1>2. \A nm \in Name : Len(nm) \in Nat
  BY DEF Name
<1>3. StripNpu(name) \in Name
  BY <1>1, <1>2 DEF StripNpu, DropFirst
<1>4. \A nm \in Name : StripSubRevision(nm) \in Name
  <2>1. \A nm \in Name : Len(nm) > 1 => SubSeq(nm, 1, Len(nm) - 1) \in Name
    BY <1>1, <1>2
  <2> QED
    BY <2>1 DEF StripSubRevision
<1> QED
  BY <1>3, <1>4 DEF NormalizeFamily

\* A dev_info refers to a marketing-name table, or to none.
LEMMA TableOfType ==
    ASSUME NEW d \in Documents, NEW info
    PROVE  TableOf(d, info) \in TableName \cup {NONE}
<1>1. d.driver.infos \in Seq([info : STRING, table : TableName \cup {NONE}])
  BY DocTypes DEF Driver
<1>2. CASE References(d, info) = {}
  BY <1>2 DEF TableOf
<1>3. CASE References(d, info) # {}
  <2>1. Len(d.driver.infos) \in Nat /\ References(d, info) \in SUBSET (1..Len(d.driver.infos))
    BY <1>1 DEF References
  <2>2. LastOf(References(d, info)) \in 1..Len(d.driver.infos)
    BY <1>3, <2>1, EndsType
  <2>3. d.driver.infos[LastOf(References(d, info))] \in [info : STRING, table : TableName \cup {NONE}]
    BY <1>1, <2>2, ElementOfSeq
  <2> QED
    BY <1>3, <2>3 DEF TableOf
<1> QED
  BY <1>2, <1>3

-----------------------------------------------------------------------------
\* What a row that its ingest gets past is like, for each of the loops.
LEMMA RunningType ==
    ASSUME at \in Nat \ {0}
    PROVE  /\ Running("specs") => pc = "specs" /\ at \in 1..Len(docs.specs)
           /\ Running("types") => /\ pc = "types" /\ NativeTables(docs) # {}
                                  /\ at <= Len(TypeRows(docs))
                                  /\ ~BadTypeRow(TypeRows(docs)[at])
           /\ Running("ids") => /\ pc = "ids" /\ at <= Len(docs.ids)
                                /\ ~BadLine(docs.ids[at])
           /\ Running("processors") => /\ pc = "processors" /\ ProcessorTables(docs) # {}
                                       /\ at <= Len(ProcessorRows(docs))
           /\ Running("tables") => pc = "tables" /\ at <= Len(docs.driver.tables)
           /\ Running("npus") => /\ pc = "npus" /\ at <= Len(docs.driver.ids)
                                 /\ docs.driver.ids[at].info \in DOMAIN HwGen
<1>1. ASSUME Running("specs") PROVE pc = "specs" /\ at \in 1..Len(docs.specs)
  BY <1>1 DEF Running, Length
<1>2. ASSUME Running("types")
      PROVE  /\ pc = "types" /\ NativeTables(docs) # {}
             /\ at <= Len(TypeRows(docs)) /\ ~BadTypeRow(TypeRows(docs)[at])
  BY <1>2 DEF Running, Usable, Missing, Bad, Length
<1>3. ASSUME Running("ids") PROVE pc = "ids" /\ at <= Len(docs.ids) /\ ~BadLine(docs.ids[at])
  BY <1>3 DEF Running, Usable, Bad, Length
<1>4. ASSUME Running("processors")
      PROVE  pc = "processors" /\ ProcessorTables(docs) # {} /\ at <= Len(ProcessorRows(docs))
  BY <1>4 DEF Running, Usable, Missing, Length
<1>5. ASSUME Running("tables") PROVE pc = "tables" /\ at <= Len(docs.driver.tables)
  BY <1>5 DEF Running, Length
<1>6. ASSUME Running("npus")
      PROVE  pc = "npus" /\ at <= Len(docs.driver.ids) /\ docs.driver.ids[at].info \in DOMAIN HwGen
  BY <1>6 DEF Running, Usable, Bad, Length
<1> QED
  BY <1>1, <1>2, <1>3, <1>4, <1>5, <1>6

\* The loops, by name.
LEMMA StagesAre ==
    /\ Stages = {"specs", "types", "ids", "processors", "tables", "npus"}
    /\ NextStage["specs"] = "types" /\ NextStage["types"] = "ids" /\ NextStage["ids"] = "processors"
    /\ NextStage["processors"] = "tables" /\ NextStage["tables"] = "npus" /\ NextStage["npus"] = "done"
  BY DEF Stages, NextStage

-----------------------------------------------------------------------------
(***************************************************************************)
(* A processor's generation is right when it is stored because, while its  *)
(* citations are weighed, the best of those weighed is known, and because  *)
(* the family kept is the header right above the row at hand.              *)
(***************************************************************************)
PlaceOK ==
    /\ pc \in {"specs", "types", "ids"} => family = 0
    /\ family # 0 => /\ ProcessorTables(docs) # {}
                     /\ family \in 1..Len(ProcessorRows(docs))
                     /\ ProcessorRows(docs)[family].header
    /\ (pc \in {"processors", "resolve"} /\ ProcessorTables(docs) # {}) =>
          /\ family < at
          /\ \A j \in 1..(at - 1) : ProcessorRows(docs)[j].header => j <= family
    /\ pc = "resolve" => /\ ProcessorTables(docs) # {}
                         /\ at \in 1..Len(ProcessorRows(docs))
                         /\ Row.number # NONE
                         /\ ~Row.header
    /\ pc = "names" => at \in 1..Len(docs.driver.tables)

BestOK ==
    pc = "resolve" =>
        /\ best \in 0..Len(Tokens)
        /\ best = 0 => \A m \in 1..Len(Tokens) : m < k => ~Covers(Tokens[m], Row.number)
        /\ best # 0 => /\ best < k
                       /\ Covers(Tokens[best], Row.number)
                       /\ \A m \in 1..Len(Tokens) :
                             (m < k /\ Covers(Tokens[m], Row.number)) =>
                                \/ Len(Tokens[m].number) < Len(Tokens[best].number)
                                \/ Len(Tokens[m].number) = Len(Tokens[best].number) /\ best <= m

IInv == TypeOK /\ docs \in Documents /\ PlaceOK /\ BestOK /\ MostSpecificGeneration

\* The citations of the header kept are citations.
LEMMA TokensType ==
    ASSUME docs \in Documents, PlaceOK
    PROVE  Tokens \in Seq(Token) /\ Paren \in STRING \cup {NONE}
<1>1. CASE family = 0
  BY <1>1 DEF Tokens, Paren
<1>2. CASE family # 0
  <2>1. ProcessorRows(docs) \in Seq(LlvmTableRow) /\ family \in 1..Len(ProcessorRows(docs))
    BY <1>2, RowsType DEF PlaceOK
  <2>2. ProcessorRows(docs)[family] \in LlvmTableRow
    BY <2>1, ElementOfSeq
  <2> QED
    BY <1>2, <2>2, ConversionsAssumption DEF Tokens, Paren, ParenGeneration, LlvmTableRow
<1> QED
  BY <1>1, <1>2

\* The variables start with their types.
LEMMA TypeInit == Init => TypeOK /\ docs \in Documents
<1> SUFFICES ASSUME Init PROVE TypeOK /\ docs \in Documents
  OBVIOUS
<1>1. made \in Made
  BY DEF Init, Made
<1>2. docs \in Document /\ docs \in Documents
  BY DocumentsAssumption DEF Init
<1> QED
  BY <1>1, <1>2, StagesAre DEF Init, TypeOK

\* What one row of gpu-specs.rst's table, one type and one line come to.
LEMMA SpecsStep ==
    ASSUME TypeOK, docs \in Documents, IngestSpecs
    PROVE  made' \in Made
<1> DEFINE read == [r \in 1..Len(docs.specs[at].rows) |-> RowToEntry(docs, at, r)]
<1>1. at \in 1..Len(docs.specs)
  BY RunningType DEF TypeOK, IngestSpecs, Iterate
<1>2. docs.specs[at].rows \in Seq(Seq(TableCell))
  <2>1. docs.specs[at] \in Table
    BY <1>1, DocTypes, ElementOfSeq
  <2> QED
    BY <2>1 DEF Table
<1>3. read \in Seq(GpuSpecs)
  <2>1. Len(docs.specs[at].rows) \in Nat
    BY <1>2
  <2>2. \A r \in 1..Len(docs.specs[at].rows) : RowToEntry(docs, at, r) \in GpuSpecs
    BY <1>1, RowToEntryType
  <2> QED
    BY <2>1, <2>2
<1>4. made.gpus \o read \in Seq(GpuSpecs)
  BY <1>3 DEF TypeOK, Made
<1>5. made' = made \/ made' = [made EXCEPT !.gpus = made.gpus \o read]
  BY DEF IngestSpecs
<1> HIDE DEF read
<1> QED
  BY <1>4, <1>5 DEF TypeOK, Made

LEMMA TypesStep ==
    ASSUME TypeOK, docs \in Documents, IngestType
    PROVE  made' \in Made
<1> DEFINE row == TypeRows(docs)[at]
           said == {<<Generations[g], <<KeyOf(row), SupportIcon[row[g + 1].text]>>>> : g \in Covered(row)}
<1>1. TypeRows(docs) \in Seq(Seq(TableCell)) /\ at \in 1..Len(TypeRows(docs)) /\ ~BadTypeRow(row)
  BY RunningType, RowsType DEF TypeOK, IngestType, Iterate
<1>2. row \in Seq(TableCell) /\ row # <<>>
  BY <1>1, ElementOfSeq DEF BadTypeRow
<1>3. Len(row) \in Nat /\ 1 \in 1..Len(row)
  BY <1>2
<1>4. row[1].text \in STRING
  <2>1. row[1] \in TableCell
    BY <1>2, <1>3, ElementOfSeq
  <2> QED
    BY <2>1 DEF TableCell
<1>5. KeyOf(row) \in STRING
  BY <1>4, ConversionsAssumption DEF KeyOf
<1>6. \A g \in Covered(row) : g \in 1..Len(Generations) /\ SupportIcon[row[g + 1].text] \in BOOLEAN
  <2> SUFFICES ASSUME NEW g \in Covered(row)
               PROVE  g \in 1..Len(Generations) /\ SupportIcon[row[g + 1].text] \in BOOLEAN
    OBVIOUS
  <2>1. row[g + 1].text \in DOMAIN SupportIcon
    BY <1>1 DEF BadTypeRow
  <2>2. \A icon \in DOMAIN SupportIcon : SupportIcon[icon] \in BOOLEAN
    BY DEF SupportIcon
  <2> QED
    BY <2>1, <2>2 DEF Covered
<1>7. said \subseteq {Generations[g] : g \in 1..Len(Generations)} \X (STRING \X BOOLEAN)
  BY <1>5, <1>6
<1>8. made' = [made EXCEPT !.precision =
                 {p \in @ : p[1] \notin {Generations[g] : g \in Covered(row)} \/ p[2][1] # KeyOf(row)} \cup said]
  BY DEF IngestType
<1> HIDE DEF said, row
<1> QED
  BY <1>7, <1>8 DEF TypeOK, Made

LEMMA LineStep ==
    ASSUME TypeOK, docs \in Documents, IngestLine
    PROVE  made' \in Made
<1> DEFINE line == docs.ids[at]
           row == [device_id   |-> LowerCase[line.device],
                   revision_id |-> UpperCase[line.revision],
                   names       |-> line.names]
<1>1. at \in 1..Len(docs.ids) /\ ~BadLine(line)
  BY RunningType DEF TypeOK, IngestLine, Iterate
<1>2. line \in Line /\ line.revision \in DOMAIN UpperCase
  BY <1>1, DocTypes, ElementOfSeq, DocumentsAssumption
<1>3. ~SkippedLine(line) => row \in IdRow
  BY <1>1, <1>2, ConversionsAssumption DEF BadLine, Line, IdRow
<1>4. made' = made \/ (~SkippedLine(line) /\ made' = [made EXCEPT !.ids = Append(made.ids, row)])
  BY DEF IngestLine
<1> HIDE DEF row, line
<1>5. ~SkippedLine(line) => Append(made.ids, row) \in Seq(IdRow)
  BY <1>3 DEF TypeOK, Made
<1> QED
  BY <1>4, <1>5 DEF TypeOK, Made

\* A processor is added by its row, its header's row and its generation.
LEMMA EmitType ==
    ASSUME TypeOK, NEW generation \in STRING \cup {NONE}, Emit(generation)
    PROVE  made' \in Made
<1>1. [at |-> at, family |-> family, generation |-> generation] \in Processor
  BY DEF TypeOK, Processor
<1>2. Append(made.llvm, [at |-> at, family |-> family, generation |-> generation]) \in Seq(Processor)
  BY <1>1 DEF TypeOK, Made
<1> QED
  BY <1>2 DEF Emit, TypeOK, Made

\* One row of the driver's table: ingest_xdna_pciids.py:98-115.
LEMMA NpuStep ==
    ASSUME TypeOK, docs \in Documents, IngestNpu
    PROVE  made' \in Made
<1> DEFINE row == docs.driver.ids[at]
           npu == [device_id   |-> LowerCase[row.device],
                   revision_id |-> row.revision,
                   hw_gen      |-> HwGen[row.info],
                   family      |-> FamilyOf(row.info)]
<1>1. at \in 1..Len(docs.driver.ids) /\ row.info \in DOMAIN HwGen
  BY RunningType DEF TypeOK, IngestNpu, Iterate
<1>2. row \in [device : STRING, revision : Nat, info : STRING] /\ row.device \in DOMAIN LowerCase
  <2>1. docs.driver.ids \in Seq([device : STRING, revision : Nat, info : STRING])
    BY DocTypes DEF Driver
  <2>2. row \in [device : STRING, revision : Nat, info : STRING]
    BY <1>1, <2>1, ElementOfSeq
  <2> QED
    BY <1>1, <2>2, DocumentsAssumption
<1>3. FamilyOf(row.info) \in Seq(Name) \cup {NONE}
  BY TableOfType DEF FamilyOf, TypeOK, Made
<1>4. npu \in NpuIdRow
  BY <1>1, <1>2, <1>3, ConversionsAssumption DEF NpuIdRow
<1>5. made' = [made EXCEPT !.npus = Append(made.npus, npu)]
  BY DEF IngestNpu
<1> HIDE DEF npu
<1>6. Append(made.npus, npu) \in Seq(NpuIdRow)
  BY <1>4 DEF TypeOK, Made
<1> QED
  BY <1>5, <1>6 DEF TypeOK, Made

\* Every step keeps the types.
LEMMA TypeStep == TypeOK /\ docs \in Documents /\ PlaceOK /\ BestOK /\ [Next]_vars => TypeOK' /\ docs' \in Documents
<1> SUFFICES ASSUME TypeOK, docs \in Documents, PlaceOK, BestOK, [Next]_vars
             PROVE  TypeOK' /\ docs' \in Documents
  OBVIOUS
<1>1. docs' = docs
  BY DEF Next, vars, Raise, EndLoop, IngestSpecs, IngestType, IngestLine, ReadHeader, SkipProcessor,
         BeginResolve, WeighCitation, EndResolve, BeginTable, ReadName, EndTable, IngestNpu, Iterate
<1> USE DEF TypeOK, inner
<1>2. CASE Raise
  BY <1>2, <1>1 DEF Raise
<1>3. CASE EndLoop
  <2>1. pc' \in Stages \cup {"done"}
    BY <1>3, StagesAre DEF EndLoop
  <2> QED
    BY <1>1, <1>3, <2>1 DEF EndLoop
<1>4. CASE IngestSpecs
  BY <1>1, <1>4, SpecsStep DEF IngestSpecs, Iterate
<1>5. CASE IngestType
  BY <1>1, <1>5, TypesStep DEF IngestType, Iterate
<1>6. CASE IngestLine
  BY <1>1, <1>6, LineStep DEF IngestLine, Iterate
<1>7. CASE ReadHeader
  BY <1>1, <1>7 DEF ReadHeader, Iterate
<1>8. CASE SkipProcessor
  <2>1. made' \in Made
    BY <1>8, EmitType DEF SkipProcessor
  <2>2. at' = at + 1 /\ UNCHANGED pc /\ UNCHANGED inner
    BY <1>8 DEF SkipProcessor, Iterate
  <2> QED
    BY <1>1, <2>1, <2>2
<1>9. CASE BeginResolve
  <2>1. pc' = "resolve" /\ k' = 1 /\ best' = 0 /\ UNCHANGED <<at, family, names, made>>
    BY <1>9 DEF BeginResolve
  <2> QED
    BY <1>1, <2>1
<1>10. CASE WeighCitation
  BY <1>1, <1>10 DEF WeighCitation
<1>11. CASE EndResolve
  <2>1. (IF best # 0 THEN Tokens[best].generation ELSE Paren) \in STRING \cup {NONE}
    <3>1. ASSUME best # 0 PROVE Tokens[best] \in Token
      <4>1. Tokens \in Seq(Token) /\ best \in 1..Len(Tokens)
        BY <1>11, <3>1, TokensType DEF EndResolve, BestOK
      <4> QED
        BY <4>1, ElementOfSeq
    <3> QED
      BY <3>1, TokensType DEF Token
  <2>2. made' \in Made
    BY <1>11, <2>1, EmitType DEF EndResolve
  <2> QED
    BY <1>1, <1>11, <2>2, StagesAre DEF EndResolve
<1>12. CASE BeginTable
  BY <1>1, <1>12 DEF BeginTable
<1>13. CASE ReadName
  <2>1. docs.driver.tables \in Seq([name : TableName, names : Seq(Name)]) /\ at \in 1..Len(docs.driver.tables)
    BY <1>13, DocTypes DEF ReadName, PlaceOK, Driver
  <2>2. docs.driver.tables[at] \in [name : TableName, names : Seq(Name)]
    BY <2>1, ElementOfSeq
  <2>3. docs.driver.tables[at].names[k] \in Name
    BY <1>13, <2>2, ElementOfSeq DEF ReadName
  <2>4. names' \in Seq(Name)
    BY <1>13, <2>3, NormalizeFamilyType DEF ReadName
  <2> QED
    BY <1>1, <1>13, <2>4 DEF ReadName
<1>14. CASE EndTable
  <2>1. docs.driver.tables \in Seq([name : TableName, names : Seq(Name)]) /\ at \in 1..Len(docs.driver.tables)
    BY <1>14, DocTypes DEF EndTable, PlaceOK, Driver
  <2>2. docs.driver.tables[at].name \in TableName
    <3>1. docs.driver.tables[at] \in [name : TableName, names : Seq(Name)]
      BY <2>1, ElementOfSeq
    <3> QED
      BY <3>1
  <2>3. made' \in Made
    BY <1>14, <2>2 DEF EndTable, Made
  <2> QED
    BY <1>1, <1>14, <2>3, StagesAre DEF EndTable
<1>15. CASE IngestNpu
  BY <1>1, <1>15, NpuStep DEF IngestNpu, Iterate
<1>16. CASE UNCHANGED vars
  BY <1>16 DEF vars
<1> QED
  BY <1>2, <1>3, <1>4, <1>5, <1>6, <1>7, <1>8, <1>9, <1>10, <1>11, <1>12, <1>13, <1>14, <1>15, <1>16 DEF Next

\* The loop over the processors is entered at its first row, and the loops
\* over other documents leave the family header alone.
LEMMA PlaceStep ==
    TypeOK /\ docs \in Documents /\ PlaceOK /\ [Next]_vars => PlaceOK'
<1> SUFFICES ASSUME TypeOK, docs \in Documents, PlaceOK, [Next]_vars
             PROVE  PlaceOK'
  OBVIOUS
<1> DEFINE rows == ProcessorRows(docs)
<1>a. at \in Nat \ {0} /\ family \in Nat
  BY DEF TypeOK
<1>1. CASE Raise
  BY <1>1 DEF Raise, PlaceOK, inner
<1>2. CASE EndLoop
  <2>1. pc \in Stages /\ pc' = NextStage[pc] /\ at' = 1 /\ UNCHANGED <<docs, family>>
    BY <1>2 DEF EndLoop, inner
  <2>2. pc' # "resolve" /\ pc' # "names" /\ pc' # "specs"
        /\ (pc' = "types" => pc = "specs") /\ (pc' = "ids" => pc = "types")
        /\ (pc' = "processors" => pc = "ids")
    BY <2>1, StagesAre
  <2> QED
    BY <2>1, <2>2 DEF PlaceOK
<1>3. CASE IngestSpecs \/ IngestType \/ IngestLine \/ IngestNpu
  <2>1. UNCHANGED <<docs, pc, family>> /\ pc \in {"specs", "types", "ids", "npus"}
    BY <1>3 DEF IngestSpecs, IngestType, IngestLine, IngestNpu, Iterate, Running, inner
  <2> QED
    BY <2>1 DEF PlaceOK
<1>4. CASE ReadHeader
  <2>1. /\ pc = "processors" /\ ProcessorTables(docs) # {} /\ at \in 1..Len(rows) /\ rows[at].header
        /\ UNCHANGED <<docs, pc>> /\ family' = at /\ at' = at + 1
    BY <1>4, <1>a, RunningType DEF ReadHeader, Iterate, Row
  <2> HIDE DEF rows
  <2>2. \A j \in 1..at : j <= at
    BY <1>a
  <2> QED
    BY <2>1, <2>2, <1>a DEF PlaceOK, rows
<1>5. CASE SkipProcessor
  <2>1. /\ pc = "processors" /\ ProcessorTables(docs) # {} /\ ~rows[at].header
        /\ UNCHANGED <<docs, pc, family>> /\ at' = at + 1
    BY <1>5, <1>a, RunningType DEF SkipProcessor, Iterate, Row, inner
  <2>2. \A j \in 1..at : rows[j].header => j <= family
    <3>1. \A j \in 1..at : j \in 1..(at - 1) \/ j = at
      BY <1>a
    <3> QED
      BY <2>1, <3>1 DEF PlaceOK
  <2> QED
    BY <2>1, <2>2, <1>a DEF PlaceOK
<1>6. CASE BeginResolve
  <2>1. /\ ~Row.header /\ Row.number # NONE
        /\ pc' = "resolve" /\ UNCHANGED <<docs, at, family>>
    BY <1>6 DEF BeginResolve
  <2>2. pc = "processors" /\ ProcessorTables(docs) # {} /\ at \in 1..Len(rows)
    <3>1. Running("processors")
      BY <1>6 DEF BeginResolve
    <3>2. Len(rows) \in Nat
      BY <3>1, <1>a, RunningType, RowsType
    <3> QED
      BY <3>1, <3>2, <1>a, RunningType
  <2> QED
    BY <2>1, <2>2 DEF PlaceOK, Row
<1>7. CASE WeighCitation
  BY <1>7 DEF WeighCitation, PlaceOK, Row
<1>8. CASE EndResolve
  <2>1. /\ pc = "resolve" /\ pc' = "processors" /\ at' = at + 1 /\ UNCHANGED <<docs, family>>
    BY <1>8 DEF EndResolve, inner
  <2>2. \A j \in 1..at : rows[j].header => j <= family
    <3>1. \A j \in 1..at : j \in 1..(at - 1) \/ j = at
      BY <1>a
    <3> QED
      BY <2>1, <3>1 DEF PlaceOK, Row
  <2> QED
    BY <2>1, <2>2, <1>a DEF PlaceOK
<1>9. CASE BeginTable
  <2>1. /\ at \in 1..Len(docs.driver.tables)
        /\ pc' = "names" /\ UNCHANGED <<docs, at, family>>
    BY <1>9, <1>a, RunningType DEF BeginTable
  <2> QED
    BY <2>1 DEF PlaceOK
<1>10. CASE ReadName
  BY <1>10 DEF ReadName, PlaceOK
<1>11. CASE EndTable
  <2>1. pc' = "tables" /\ UNCHANGED <<docs, family>>
    BY <1>11 DEF EndTable, inner
  <2> QED
    BY <2>1 DEF PlaceOK
<1>12. CASE UNCHANGED vars
  BY <1>12 DEF vars, PlaceOK, Row
<1> QED
  BY <1>1, <1>2, <1>3, <1>4, <1>5, <1>6, <1>7, <1>8, <1>9, <1>10, <1>11, <1>12 DEF Next

\* After each citation the best of those weighed is known.
LEMMA BestStep ==
    TypeOK /\ docs \in Documents /\ PlaceOK /\ BestOK /\ [Next]_vars => BestOK'
<1> SUFFICES ASSUME TypeOK, docs \in Documents, PlaceOK, BestOK, [Next]_vars, pc' = "resolve"
             PROVE  BestOK'
  BY DEF BestOK
<1>a. k \in Nat \ {0} /\ best \in Nat /\ Len(Tokens) \in Nat
  BY TokensType DEF TypeOK
<1>1. CASE BeginResolve
  <2>1. k' = 1 /\ best' = 0 /\ UNCHANGED <<docs, at, family>>
    BY <1>1 DEF BeginResolve
  <2>2. Tokens' = Tokens /\ Row' = Row
    BY <2>1 DEF Tokens, Row
  <2> QED
    BY <2>1, <2>2, <1>a DEF BestOK
<1>2. CASE WeighCitation
  <2>1. /\ pc = "resolve" /\ k <= Len(Tokens) /\ k' = k + 1 /\ UNCHANGED <<docs, at, family>>
        /\ best' = IF /\ Covers(Tokens[k], Row.number)
                      /\ best = 0 \/ Len(Tokens[k].number) > Len(Tokens[best].number)
                     THEN k ELSE best
    BY <1>2 DEF WeighCitation
  <2>2. Tokens' = Tokens /\ Row' = Row
    BY <2>1 DEF Tokens, Row
  <2>3. \A m \in 1..Len(Tokens) : Covers(Tokens[m], Row.number) => Len(Tokens[m].number) \in Nat
    <3>1. \A m \in 1..Len(Tokens) : Tokens[m] \in Token
      BY TokensType, ElementOfSeq
    <3> QED
      BY <3>1 DEF Covers, Token, Number
  <2>4. \A m \in 1..Len(Tokens) : m < k + 1 => m < k \/ m = k
    BY <1>a
  <2> DEFINE covers(m) == Covers(Tokens[m], Row.number)
             length(m) == Len(Tokens[m].number)
  <2>5. /\ best \in 0..Len(Tokens)
        /\ best = 0 => \A m \in 1..Len(Tokens) : m < k => ~covers(m)
        /\ best # 0 => /\ best < k
                       /\ covers(best)
                       /\ \A m \in 1..Len(Tokens) :
                             (m < k /\ covers(m)) =>
                                length(m) < length(best) \/ (length(m) = length(best) /\ best <= m)
    BY <2>1 DEF BestOK
  <2>6. \A m \in 1..Len(Tokens) : covers(m) => length(m) \in Nat
    BY <2>3
  <2>7. best' = IF covers(k) /\ (best = 0 \/ length(k) > length(best)) THEN k ELSE best
    BY <2>1
  <2> HIDE DEF covers, length
  <2>8. /\ best' \in 0..Len(Tokens)
        /\ best' = 0 => \A m \in 1..Len(Tokens) : m < k + 1 => ~covers(m)
        /\ best' # 0 => /\ best' < k + 1
                        /\ covers(best')
                        /\ \A m \in 1..Len(Tokens) :
                              (m < k + 1 /\ covers(m)) =>
                                 length(m) < length(best') \/ (length(m) = length(best') /\ best' <= m)
    <3>1. k \in 1..Len(Tokens)
      BY <1>a, <2>1
    <3>2. CASE covers(k) /\ best = 0
      BY <3>1, <3>2, <1>a, <2>4, <2>5, <2>6, <2>7
    <3>3. CASE covers(k) /\ best # 0 /\ length(k) > length(best)
      <4>1. best' = k
        BY <3>3, <2>7
      <4>2. length(k) \in Nat /\ length(best) \in Nat
        BY <3>1, <3>3, <2>5, <2>6
      <4>3. \A m \in 1..Len(Tokens) : (m < k /\ covers(m)) => length(m) < length(k)
        BY <3>3, <4>2, <2>5, <2>6
      <4> QED
        BY <3>1, <3>3, <1>a, <2>4, <4>1, <4>3
    <3>4. CASE covers(k) /\ best # 0 /\ ~(length(k) > length(best))
      BY <3>1, <3>4, <1>a, <2>4, <2>5, <2>6, <2>7
    <3>5. CASE ~covers(k)
      BY <3>1, <3>5, <1>a, <2>4, <2>5, <2>7
    <3> QED
      BY <3>2, <3>3, <3>4, <3>5
  <2> QED
    BY <2>1, <2>2, <2>8 DEF BestOK, covers, length
<1>3. CASE UNCHANGED vars
  BY <1>3 DEF vars, BestOK, Tokens, Row
<1>4. CASE Raise \/ EndLoop
  BY <1>4, StagesAre DEF Raise, EndLoop
<1>5. CASE IngestSpecs \/ IngestType \/ IngestLine \/ IngestNpu \/ ReadHeader \/ SkipProcessor
  BY <1>5 DEF IngestSpecs, IngestType, IngestLine, IngestNpu, ReadHeader, SkipProcessor, Iterate, Running
<1>6. CASE EndResolve \/ BeginTable \/ ReadName \/ EndTable
  BY <1>6 DEF EndResolve, BeginTable, ReadName, EndTable
<1> QED
  BY <1>1, <1>2, <1>3, <1>4, <1>5, <1>6 DEF Next

\* Rows that are not processors add none.
LEMMA LlvmKept ==
    ASSUME TypeOK, UNCHANGED docs, made'.llvm = made.llvm, MostSpecificGeneration
    PROVE  MostSpecificGeneration'
  BY DEF MostSpecificGeneration

\* A processor added with the right generation leaves all of them right.
LEMMA LlvmAdded ==
    ASSUME TypeOK, UNCHANGED docs, MostSpecificGeneration, NEW generation \in STRING \cup {NONE}, Emit(generation),
           RightGeneration(docs, [at |-> at, family |-> family, generation |-> generation])
    PROVE  MostSpecificGeneration'
<1> DEFINE entry == [at |-> at, family |-> family, generation |-> generation]
<1>1. made.llvm \in Seq(Processor) /\ made'.llvm = Append(made.llvm, entry)
  BY DEF Emit, TypeOK, Made
<1> HIDE DEF entry
<1>2. \A i \in 1..Len(made'.llvm) : made'.llvm[i] = entry \/ (i \in 1..Len(made.llvm) /\ made'.llvm[i] = made.llvm[i])
  BY <1>1, AppendProperties
<1>3. RightGeneration(docs, entry)
  BY DEF entry
<1> QED
  BY <1>2, <1>3 DEF MostSpecificGeneration

\* Every processor that is added has the right generation.
LEMMA GenerationStep ==
    IInv /\ [Next]_vars => MostSpecificGeneration'
<1> SUFFICES ASSUME IInv, [Next]_vars PROVE MostSpecificGeneration'
  OBVIOUS
<1> DEFINE rows == ProcessorRows(docs)
<1>a. TypeOK /\ docs \in Documents /\ PlaceOK /\ BestOK /\ MostSpecificGeneration
  BY DEF IInv
<1>b. at \in Nat \ {0} /\ family \in Nat /\ made \in Made
  BY <1>a DEF TypeOK
<1>1. CASE SkipProcessor
  <2>1. /\ UNCHANGED docs /\ pc = "processors" /\ ProcessorTables(docs) # {}
        /\ Row.target = "" \/ Row.number = NONE
        /\ IF Row.target = "" THEN UNCHANGED made ELSE Emit(NONE)
    BY <1>1, <1>b, RunningType DEF SkipProcessor, Iterate
  <2>2. CASE UNCHANGED made
    BY <1>a, <2>1, <2>2, LlvmKept
  <2>3. CASE Emit(NONE) /\ Row.number = NONE
    <3>1. RightGeneration(docs, [at |-> at, family |-> family, generation |-> NONE])
      BY <1>a, <2>1, <2>3 DEF RightGeneration, PlaceOK, Row
    <3> QED
      BY <1>a, <2>1, <2>3, <3>1, LlvmAdded
  <2> QED
    BY <2>1, <2>2, <2>3
<1>2. CASE EndResolve
  <2> DEFINE generation == IF best # 0 THEN Tokens[best].generation ELSE Paren
  <2>1. pc = "resolve" /\ UNCHANGED docs /\ Emit(generation) /\ k > Len(Tokens)
    BY <1>2 DEF EndResolve
  <2>2. Tokens \in Seq(Token) /\ Paren \in STRING \cup {NONE} /\ Len(Tokens) \in Nat /\ k \in Nat /\ best \in 0..Len(Tokens)
    BY <1>a, <2>1, TokensType DEF TypeOK, BestOK
  <2>3. generation \in STRING \cup {NONE}
    <3>1. CASE best = 0
      BY <2>2, <3>1
    <3>2. CASE best # 0
      <4>1. Tokens[best] \in Token
        BY <2>2, <3>2, ElementOfSeq
      <4> QED
        BY <3>2, <4>1 DEF Token
    <3> QED
      BY <3>1, <3>2
  <2> DEFINE covering == {m \in 1..Len(Tokens) : Covers(Tokens[m], Row.number)}
  <2>4. \A m \in 1..Len(Tokens) : m < k
    BY <2>1, <2>2
  <2>5. \/ \E m \in covering :
              /\ generation = Tokens[m].generation
              /\ \A j \in covering :
                    \/ Len(Tokens[j].number) < Len(Tokens[m].number)
                    \/ Len(Tokens[j].number) = Len(Tokens[m].number) /\ m <= j
        \/ covering = {} /\ generation = Paren
    <3>1. CASE best = 0
      BY <1>a, <2>1, <2>4, <3>1 DEF BestOK
    <3>2. CASE best # 0
      <4>1. best \in covering /\ generation = Tokens[best].generation
        BY <1>a, <2>1, <2>2, <3>2 DEF BestOK
      <4>2. \A j \in covering :
               \/ Len(Tokens[j].number) < Len(Tokens[best].number)
               \/ Len(Tokens[j].number) = Len(Tokens[best].number) /\ best <= j
        BY <1>a, <2>1, <2>4, <3>2 DEF BestOK
      <4> QED
        BY <4>1, <4>2
    <3> QED
      BY <3>1, <3>2
  <2> HIDE DEF generation
  <2>6. RightGeneration(docs, [at |-> at, family |-> family, generation |-> generation])
    BY <1>a, <1>b, <2>1, <2>5 DEF RightGeneration, PlaceOK, Row, Tokens, Paren
  <2> QED
    BY <1>a, <2>1, <2>3, <2>6, LlvmAdded
<1>3. CASE IngestSpecs \/ IngestType \/ IngestLine \/ IngestNpu
  <2>1. UNCHANGED docs /\ made'.llvm = made.llvm
    BY <1>3, <1>b DEF IngestSpecs, IngestType, IngestLine, IngestNpu, Iterate, Made
  <2> QED
    BY <1>a, <2>1, LlvmKept
<1>4. CASE EndTable
  <2>1. UNCHANGED docs /\ made'.llvm = made.llvm
    BY <1>4, <1>b DEF EndTable, Made
  <2> QED
    BY <1>a, <2>1, LlvmKept
<1>5. CASE \/ Raise \/ EndLoop \/ ReadHeader \/ BeginResolve \/ WeighCitation
           \/ BeginTable \/ ReadName \/ UNCHANGED vars
  <2>1. UNCHANGED <<docs, made>>
    BY <1>5 DEF Raise, EndLoop, ReadHeader, Iterate, BeginResolve, WeighCitation, BeginTable, ReadName, vars
  <2> QED
    BY <1>a, <2>1, LlvmKept
<1> QED
  BY <1>1, <1>2, <1>3, <1>4, <1>5 DEF Next

-----------------------------------------------------------------------------
\* The strengthened invariant holds from the start and after every step.
LEMMA Invariance == Spec => []IInv
<1>1. Init => IInv
  <2> SUFFICES ASSUME Init PROVE IInv
    OBVIOUS
  <2>1. pc = "specs" /\ family = 0 /\ made.llvm = <<>>
    BY DEF Init
  <2> QED
    BY <2>1, TypeInit DEF IInv, PlaceOK, BestOK, MostSpecificGeneration
<1>2. IInv /\ [Next]_vars => IInv'
  BY TypeStep, PlaceStep, BestStep, GenerationStep DEF IInv
<1> QED
  BY <1>1, <1>2, PTL DEF Spec

\* Every variable of the ingests keeps its type, for all documents: what the
\* five ingest() calls return has the shape that build_catalog() reads.
THEOREM TypeCorrect == Spec => []TypeOK
<1>1. IInv => TypeOK
  BY DEF IInv
<1> QED
  BY <1>1, Invariance, PTL

\* For all processor tables, a processor has the generation of the most
\* specific citation in the family header right above it:
\* ingest_llvm_amdgpu_usage._resolve_generation and ingest().
THEOREM MostSpecificGenerationHolds == Spec => []MostSpecificGeneration
<1>1. IInv => MostSpecificGeneration
  BY DEF IInv
<1> QED
  BY <1>1, Invariance, PTL

-----------------------------------------------------------------------------
(***************************************************************************)
(* What has been made is right so far: after so many rows of each document *)
(* it is what those rows say, and at the end of its loop the ingest has    *)
(* been through all of them.                                               *)
(***************************************************************************)
Turn == [specs |-> 1, types |-> 2, ids |-> 3, processors |-> 4, resolve |-> 4, tables |-> 5, names |-> 5,
         npus |-> 6, done |-> 7]

\* How many rows of the loop are behind the program.
Behind(stage) ==
    IF Turn[pc] = Turn[stage] THEN at - 1
    ELSE IF Turn[pc] > Turn[stage] THEN Length(stage)
    ELSE 0

\* No loop leaves out its last row or runs beyond it.
AtOK == (pc \in Stages /\ ~Missing(pc)) => at <= Length(pc) + 1

\* No loop is left behind that had nothing to read.
PassedOK == pc # "raised" => \A stage \in Stages : Turn[pc] > Turn[stage] => ~Missing(stage)

\* Every product of the tables behind is there once.
GpusOK ==
    /\ \A t \in 1..Behind("specs") : TabTitle(docs.specs[t]) \in KnownTabs =>
          \A r \in 1..Len(docs.specs[t].rows) :
              \E i \in 1..Len(made.gpus) :
                  /\ made.gpus[i].at = <<t, r>>
                  /\ Holds(made.gpus[i], docs.specs[t], docs.specs[t].rows[r])
    /\ \A i \in 1..Len(made.gpus) : made.gpus[i].at[1] <= Behind("specs")
    /\ \A i, j \in 1..Len(made.gpus) : made.gpus[i].at = made.gpus[j].at => i = j

\* The verdicts of the first n rows: a row's stands when none of those after
\* it speaks of its type and generation.
Says(g, key, j) == g \in Covered(TypeRows(docs)[j]) /\ KeyOf(TypeRows(docs)[j]) = key

Stands(g, j, n) ==
    /\ g \in Covered(TypeRows(docs)[j])
    /\ \A m \in (j + 1)..n : ~Says(g, KeyOf(TypeRows(docs)[j]), m)

VerdictOf(g, j) == <<Generations[g], <<KeyOf(TypeRows(docs)[j]), SupportIcon[TypeRows(docs)[j][g + 1].text]>>>>

Verdicts(n) == UNION {{VerdictOf(g, j) : j \in {m \in 1..n : Stands(g, m, n)}} : g \in 1..Len(Generations)}

PrecisionOK == made.precision = Verdicts(Behind("types"))

LinesOf(n) == {j \in 1..n : ~docs.ids[j].comment /\ docs.ids[j].fields = 3}

IdsOK ==
    /\ {<<made.ids[i].device_id, made.ids[i].names>> : i \in 1..Len(made.ids)}
         = {<<LowerCase[docs.ids[j].device], docs.ids[j].names>> : j \in LinesOf(Behind("ids"))}
    /\ Len(made.ids) = Cardinality(LinesOf(Behind("ids")))

ProcessorsOf(n) == {j \in 1..n : ~ProcessorRows(docs)[j].header /\ ProcessorRows(docs)[j].target # ""}

LlvmOK ==
    /\ {made.llvm[i].at : i \in 1..Len(made.llvm)} = ProcessorsOf(Behind("processors"))
    /\ Len(made.llvm) = Cardinality(ProcessorsOf(Behind("processors")))

ResolvesOK == pc = "resolve" => Row.target # ""

\* list is made of the first n names of the table.
IsWholeSet(list, table, n) ==
    /\ {list[m] : m \in 1..Len(list)} = {NormalizeFamily(table.names[m]) : m \in 1..n}
    /\ \A m, o \in 1..Len(list) : m < o => FirstMention(table, list[m]) < FirstMention(table, list[o])

NamesOK ==
    pc = "names" =>
        /\ k <= Len(docs.driver.tables[at].names) + 1
        /\ IsWholeSet(names, docs.driver.tables[at], k - 1)

DefinedBy(name, n) == {t \in 1..n : docs.driver.tables[t].name = name}

IsTableOf(name, list, n) ==
    IF DefinedBy(name, n) = {}
      THEN list = <<>>
      ELSE LET table == docs.driver.tables[LastOf(DefinedBy(name, n))]
           IN  IsWholeSet(list, table, Len(table.names))

TablesOK == \A name \in TableName : IsTableOf(name, made.tables[name], Behind("tables"))

NpusOK == Len(made.npus) = Behind("npus")

SoFarOK == pc # "raised" => GpusOK /\ PrecisionOK /\ IdsOK /\ LlvmOK /\ ResolvesOK /\ NamesOK /\ TablesOK /\ NpusOK

FullInv == IInv /\ AtOK /\ PassedOK /\ SoFarOK /\ FamilyIsTheWholeSet

\* The turns are those of the calls.
LEMMA TurnIs ==
    /\ Turn["specs"] = 1 /\ Turn["types"] = 2 /\ Turn["ids"] = 3 /\ Turn["processors"] = 4
    /\ Turn["resolve"] = 4 /\ Turn["tables"] = 5 /\ Turn["names"] = 5 /\ Turn["npus"] = 6 /\ Turn["done"] = 7
    /\ \A stage \in Stages : Turn[stage] \in 1..6 /\ Turn[NextStage[stage]] = Turn[stage] + 1
    /\ \A stage, other \in Stages : Turn[stage] = Turn[other] => stage = other
<1>1. /\ Turn["specs"] = 1 /\ Turn["types"] = 2 /\ Turn["ids"] = 3 /\ Turn["processors"] = 4
      /\ Turn["resolve"] = 4 /\ Turn["tables"] = 5 /\ Turn["names"] = 5 /\ Turn["npus"] = 6 /\ Turn["done"] = 7
  BY DEF Turn
<1> QED
  BY <1>1, StagesAre

\* Where the program is in the calls.
LEMMA TurnType ==
    ASSUME TypeOK, pc # "raised"
    PROVE  Turn[pc] \in 1..7
  BY TurnIs, StagesAre DEF TypeOK

\* A loop that has something to read has a number of rows.
LEMMA LengthType ==
    ASSUME docs \in Documents, NEW stage \in Stages, ~Missing(stage)
    PROVE  Length(stage) \in Nat
<1>1. /\ docs.specs \in Seq(Table) /\ docs.ids \in Seq(Line) /\ docs.driver \in Driver
  BY DocTypes
<1>2. stage = "types" => TypeRows(docs) \in Seq(Seq(TableCell))
  BY RowsType DEF Missing
<1>3. stage = "processors" => ProcessorRows(docs) \in Seq(LlvmTableRow)
  BY RowsType DEF Missing
<1>4. Len(docs.driver.ids) \in Nat /\ Len(docs.driver.tables) \in Nat
  BY <1>1 DEF Driver
<1> QED
  BY <1>1, <1>2, <1>3, <1>4, StagesAre DEF Length

\* The rows behind are some number of them.
LEMMA BehindType ==
    ASSUME TypeOK, docs \in Documents, PlaceOK, AtOK, PassedOK, pc # "raised", NEW stage \in Stages
    PROVE  /\ Behind(stage) \in Nat
           /\ ~Missing(stage) => Behind(stage) <= Length(stage)
<1>1. Turn[pc] \in 1..7 /\ Turn[stage] \in 1..6 /\ at \in Nat \ {0}
  BY TurnType, TurnIs DEF TypeOK
<1>2. CASE Turn[pc] = Turn[stage]
  <2>1. \/ pc = stage
        \/ pc = "resolve" /\ stage = "processors"
        \/ pc = "names" /\ stage = "tables"
    BY <1>1, <1>2, TurnIs, StagesAre DEF TypeOK
  <2>2. ~Missing(stage) => at - 1 <= Length(stage)
    <3> SUFFICES ASSUME ~Missing(stage) PROVE at - 1 <= Length(stage)
      OBVIOUS
    <3>1. Length(stage) \in Nat
      BY LengthType
    <3>2. pc # stage => at \in 1..Length(stage)
      BY <2>1 DEF PlaceOK, Length
    <3> QED
      BY <1>1, <2>1, <3>1, <3>2 DEF AtOK
  <2> QED
    BY <1>1, <1>2, <2>2 DEF Behind
<1>3. CASE Turn[pc] > Turn[stage]
  BY <1>1, <1>3, LengthType DEF Behind, PassedOK
<1>4. CASE Turn[pc] < Turn[stage]
  BY <1>1, <1>4, LengthType DEF Behind
<1> QED
  BY <1>1, <1>2, <1>3, <1>4

\* A step between two rows, or between two loops, leaves none behind.
LEMMA BehindKept ==
    ASSUME TypeOK, docs \in Documents, AtOK, pc # "raised", NEW stage \in Stages,
           EndLoop \/ BeginResolve \/ WeighCitation \/ BeginTable \/ ReadName \/ UNCHANGED vars
    PROVE  /\ docs' = docs /\ made' = made
           /\ Behind(stage)' = Behind(stage)
<1>1. CASE EndLoop
  <2>1. /\ pc \in Stages /\ pc' = NextStage[pc] /\ at' = 1 /\ docs' = docs /\ made' = made
        /\ ~Missing(pc) /\ at > Length(pc)
    BY <1>1 DEF EndLoop, Usable
  <2>2. at - 1 = Length(pc)
    BY <2>1, LengthType DEF AtOK, TypeOK
  <2>3. /\ Turn[pc] \in 1..6 /\ Turn[stage] \in 1..6 /\ Turn[pc'] = Turn[pc] + 1
        /\ Turn[pc] = Turn[stage] => pc = stage
    BY <2>1, TurnIs
  <2>4. Behind(stage)' = IF Turn[pc'] = Turn[stage] THEN 0 ELSE IF Turn[pc'] > Turn[stage] THEN Length(stage) ELSE 0
    BY <2>1 DEF Behind, Length
  <2> QED
    BY <2>1, <2>2, <2>3, <2>4 DEF Behind
<1>2. CASE BeginResolve \/ BeginTable
  <2>1. docs' = docs /\ made' = made /\ at' = at /\ Turn[pc'] = Turn[pc]
    BY <1>2, TurnIs DEF BeginResolve, BeginTable, Running
  <2> QED
    BY <2>1 DEF Behind, Length
<1>3. CASE WeighCitation \/ ReadName \/ UNCHANGED vars
  <2>1. docs' = docs /\ made' = made /\ at' = at /\ pc' = pc
    BY <1>3 DEF WeighCitation, ReadName, vars
  <2> QED
    BY <2>1 DEF Behind, Length
<1> QED
  BY <1>1, <1>2, <1>3

\* The step that ends a row leaves that row behind, and nothing of another loop.
LEMMA BehindMoves ==
    ASSUME TypeOK, NEW stage \in Stages, Turn[pc] = Turn[stage], Turn[pc'] = Turn[pc],
           docs' = docs, at' = at + 1, NEW other \in Stages
    PROVE  /\ Behind(stage) = at - 1
           /\ Behind(other)' = IF other = stage THEN at ELSE Behind(other)
<1>1. Behind(stage) = at - 1
  BY DEF Behind
<1>2. CASE other = stage
  BY <1>2 DEF Behind, TypeOK
<1>3. CASE other # stage
  <2>1. Turn[pc] # Turn[other] /\ Turn[pc'] # Turn[other]
    BY <1>3, TurnIs
  <2>2. Length(other)' = Length(other)
    BY DEF Length
  <2>3. Behind(other)' = Behind(other)
    BY <2>1, <2>2 DEF Behind
  <2> QED
    BY <1>1, <1>3, <2>3
<1> QED
  BY <1>1, <1>2, <1>3

\* What the steps of one ingest make, those of another leave as it is.
LEMMA EachItsOwn ==
    ASSUME TypeOK, docs \in Documents, AtOK, [Next]_vars, pc' # "raised"
    PROVE  /\ docs' = docs /\ pc # "raised"
           /\ ~IngestSpecs => Behind("specs")' = Behind("specs") /\ made'.gpus = made.gpus
           /\ ~IngestType => Behind("types")' = Behind("types") /\ made'.precision = made.precision
           /\ ~IngestLine => Behind("ids")' = Behind("ids") /\ made'.ids = made.ids
           /\ ~(ReadHeader \/ SkipProcessor \/ EndResolve) =>
                  Behind("processors")' = Behind("processors") /\ made'.llvm = made.llvm
           /\ ~EndTable => Behind("tables")' = Behind("tables") /\ made'.tables = made.tables
           /\ ~IngestNpu => Behind("npus")' = Behind("npus") /\ made'.npus = made.npus
<1>0. made \in Made
  BY DEF TypeOK
<1>a. /\ "specs" \in Stages /\ "types" \in Stages /\ "ids" \in Stages /\ "processors" \in Stages
      /\ "tables" \in Stages /\ "npus" \in Stages
  BY StagesAre
<1>1. CASE Raise
  BY <1>1 DEF Raise
<1>2. CASE EndLoop \/ BeginResolve \/ WeighCitation \/ BeginTable \/ ReadName \/ UNCHANGED vars
  <2>1. pc # "raised"
    BY <1>2, StagesAre DEF EndLoop, BeginResolve, WeighCitation, BeginTable, ReadName, Running, vars
  <2> QED
    BY <1>2, <1>a, <2>1, BehindKept
<1>3. CASE IngestSpecs
  <2>1. docs' = docs /\ pc = "specs" /\ pc' = pc /\ at' = at + 1
    BY <1>3 DEF IngestSpecs, Iterate, Running
  <2>2. \A other \in Stages \ {"specs"} : Behind(other)' = Behind(other)
    BY <1>a, <2>1, BehindMoves
  <2>3. /\ made'.precision = made.precision /\ made'.ids = made.ids /\ made'.llvm = made.llvm
        /\ made'.tables = made.tables /\ made'.npus = made.npus
    BY <1>0, <1>3 DEF IngestSpecs, Made
  <2> QED
    BY <1>3, <1>a, <2>1, <2>2, <2>3
<1>4. CASE IngestType
  <2>1. docs' = docs /\ pc = "types" /\ pc' = pc /\ at' = at + 1
    BY <1>4 DEF IngestType, Iterate, Running
  <2>2. \A other \in Stages \ {"types"} : Behind(other)' = Behind(other)
    BY <1>a, <2>1, BehindMoves
  <2>3. /\ made'.gpus = made.gpus /\ made'.ids = made.ids /\ made'.llvm = made.llvm
        /\ made'.tables = made.tables /\ made'.npus = made.npus
    BY <1>0, <1>4 DEF IngestType, Made
  <2> QED
    BY <1>4, <1>a, <2>1, <2>2, <2>3
<1>5. CASE IngestLine
  <2>1. docs' = docs /\ pc = "ids" /\ pc' = pc /\ at' = at + 1
    BY <1>5 DEF IngestLine, Iterate, Running
  <2>2. \A other \in Stages \ {"ids"} : Behind(other)' = Behind(other)
    BY <1>a, <2>1, BehindMoves
  <2>3. /\ made'.gpus = made.gpus /\ made'.precision = made.precision /\ made'.llvm = made.llvm
        /\ made'.tables = made.tables /\ made'.npus = made.npus
    BY <1>0, <1>5 DEF IngestLine, Made
  <2> QED
    BY <1>5, <1>a, <2>1, <2>2, <2>3
<1>6. CASE ReadHeader \/ SkipProcessor \/ EndResolve
  <2>1. docs' = docs /\ pc # "raised" /\ Turn[pc] = Turn["processors"] /\ Turn[pc'] = Turn[pc] /\ at' = at + 1
    BY <1>6, TurnIs DEF ReadHeader, SkipProcessor, EndResolve, Iterate, Running
  <2>2. \A other \in Stages \ {"processors"} : Behind(other)' = Behind(other)
    BY <1>a, <2>1, BehindMoves
  <2>3. made' = made \/ \E generation : Emit(generation)
    BY <1>6 DEF ReadHeader, SkipProcessor, EndResolve
  <2>4. /\ made'.gpus = made.gpus /\ made'.precision = made.precision /\ made'.ids = made.ids
        /\ made'.tables = made.tables /\ made'.npus = made.npus
    BY <1>0, <2>3 DEF Emit, Made
  <2> QED
    BY <1>6, <1>a, <2>1, <2>2, <2>4
<1>7. CASE EndTable
  <2>1. docs' = docs /\ pc # "raised" /\ Turn[pc] = Turn["tables"] /\ Turn[pc'] = Turn[pc] /\ at' = at + 1
    BY <1>7, TurnIs DEF EndTable
  <2>2. \A other \in Stages \ {"tables"} : Behind(other)' = Behind(other)
    BY <1>a, <2>1, BehindMoves
  <2>3. /\ made'.gpus = made.gpus /\ made'.precision = made.precision /\ made'.ids = made.ids
        /\ made'.llvm = made.llvm /\ made'.npus = made.npus
    BY <1>0, <1>7 DEF EndTable, Made
  <2> QED
    BY <1>7, <1>a, <2>1, <2>2, <2>3
<1>8. CASE IngestNpu
  <2>1. docs' = docs /\ pc = "npus" /\ pc' = pc /\ at' = at + 1
    BY <1>8 DEF IngestNpu, Iterate, Running
  <2>2. \A other \in Stages \ {"npus"} : Behind(other)' = Behind(other)
    BY <1>a, <2>1, BehindMoves
  <2>3. /\ made'.gpus = made.gpus /\ made'.precision = made.precision /\ made'.ids = made.ids
        /\ made'.llvm = made.llvm /\ made'.tables = made.tables
    BY <1>0, <1>8 DEF IngestNpu, Made
  <2> QED
    BY <1>8, <1>a, <2>1, <2>2, <2>3
<1> QED
  BY <1>1, <1>2, <1>3, <1>4, <1>5, <1>6, <1>7, <1>8 DEF Next

\* Every step keeps the program within its loop.
LEMMA AtStep ==
    TypeOK /\ docs \in Documents /\ PlaceOK /\ AtOK /\ PassedOK /\ [Next]_vars => AtOK' /\ PassedOK'
<1> SUFFICES ASSUME TypeOK, docs \in Documents, PlaceOK, AtOK, PassedOK, [Next]_vars
             PROVE  AtOK' /\ PassedOK'
  OBVIOUS
<1>a. at \in Nat \ {0}
  BY DEF TypeOK
<1>1. CASE Raise
  BY <1>1, StagesAre DEF Raise, AtOK, PassedOK
<1>2. CASE EndLoop
  <2>1. /\ pc \in Stages /\ pc' = NextStage[pc] /\ at' = 1 /\ docs' = docs /\ ~Missing(pc)
    BY <1>2 DEF EndLoop, Usable
  <2>2. \A stage : Missing(stage)' = Missing(stage) /\ Length(stage)' = Length(stage)
    BY <2>1 DEF Missing, Length
  <2>3. AtOK'
    <3> SUFFICES ASSUME pc' \in Stages, ~Missing(pc') PROVE 1 <= Length(pc') + 1
      BY <2>1, <2>2 DEF AtOK, Missing, Length
    <3>1. Length(pc') \in Nat
      BY LengthType
    <3> QED
      BY <3>1
  <2>4. PassedOK'
    <3> SUFFICES ASSUME NEW stage \in Stages, Turn[pc'] > Turn[stage] PROVE ~Missing(stage)
      BY <2>2 DEF PassedOK
    <3>1. /\ Turn[pc] \in 1..6 /\ Turn[stage] \in 1..6 /\ Turn[pc'] = Turn[pc] + 1
          /\ Turn[pc] = Turn[stage] => pc = stage /\ pc # "raised"
      BY <2>1, TurnIs, StagesAre
    <3>2. Turn[pc] = Turn[stage] \/ Turn[pc] > Turn[stage]
      BY <3>1
    <3>3. pc # "raised"
      BY <2>1, StagesAre
    <3> QED
      BY <2>1, <3>1, <3>2, <3>3 DEF PassedOK
  <2> QED
    BY <2>3, <2>4
<1>3. CASE \/ IngestSpecs \/ IngestType \/ IngestLine \/ ReadHeader \/ SkipProcessor \/ EndResolve
           \/ EndTable \/ IngestNpu
  <2>1. PICK stage \in Stages :
           /\ Turn[pc] = Turn[stage] /\ pc' = stage /\ docs' = docs /\ at' = at + 1 /\ pc # "raised"
           /\ ~Missing(stage) => at <= Length(stage)
    <3>1. ASSUME NEW stage \in Stages, Iterate(stage)
          PROVE  /\ pc = stage /\ pc' = stage /\ docs' = docs /\ at' = at + 1 /\ pc # "raised"
                 /\ ~Missing(stage) => at <= Length(stage)
      BY <3>1, StagesAre DEF Iterate, Running
    <3>2. CASE EndResolve
      <4>1. /\ pc = "resolve" /\ pc' = "processors" /\ docs' = docs /\ at' = at + 1
            /\ at <= Length("processors")
        BY <3>2 DEF EndResolve, PlaceOK, Length
      <4> QED
        BY <4>1, TurnIs, StagesAre
    <3>3. CASE EndTable
      BY <3>3, TurnIs, StagesAre DEF EndTable, PlaceOK, Length
    <3> QED
      BY <1>3, <3>1, <3>2, <3>3, StagesAre
      DEF IngestSpecs, IngestType, IngestLine, ReadHeader, SkipProcessor, IngestNpu
  <2>2. \A other : Missing(other)' = Missing(other) /\ Length(other)' = Length(other)
    BY <2>1 DEF Missing, Length
  <2>3. AtOK'
    <3> SUFFICES ASSUME ~Missing(stage) PROVE at + 1 <= Length(stage) + 1
      BY <2>1, <2>2 DEF AtOK, Missing, Length
    <3>1. Length(stage) \in Nat
      BY LengthType
    <3> QED
      BY <1>a, <2>1, <3>1
  <2>4. PassedOK'
    BY <2>1, <2>2, StagesAre DEF PassedOK
  <2> QED
    BY <2>3, <2>4
<1>4. CASE BeginResolve \/ BeginTable
  <2>1. docs' = docs /\ pc' \notin Stages /\ Turn[pc'] = Turn[pc] /\ pc # "raised"
    BY <1>4, TurnIs, StagesAre DEF BeginResolve, BeginTable, Running
  <2>2. \A other : Missing(other)' = Missing(other)
    BY <2>1 DEF Missing
  <2> QED
    BY <2>1, <2>2 DEF AtOK, PassedOK
<1>5. CASE WeighCitation \/ ReadName \/ UNCHANGED vars
  <2>1. docs' = docs /\ at' = at /\ pc' = pc
    BY <1>5 DEF WeighCitation, ReadName, vars
  <2> QED
    BY <2>1 DEF AtOK, PassedOK, Missing, Length
<1> QED
  BY <1>1, <1>2, <1>3, <1>4, <1>5 DEF Next

\* One more position is one more.
LEMMA CountGrows ==
    ASSUME NEW n \in Nat, NEW positions \in SUBSET (1..(n - 1)), n # 0
    PROVE  /\ IsFiniteSet(positions) /\ Cardinality(positions) \in Nat
           /\ Cardinality(positions \cup {n}) = Cardinality(positions) + 1
<1>1. IsFiniteSet(1..(n - 1))
  BY FS_Interval
<1>2. IsFiniteSet(positions) /\ Cardinality(positions) \in Nat
  BY <1>1, FS_Subset, FS_CardinalityType
<1>3. n \notin positions
  OBVIOUS
<1> QED
  BY <1>2, <1>3, FS_AddElement

\* The elements of a list with one more.
LEMMA AppendElements ==
    ASSUME NEW S, NEW list \in Seq(S), NEW element \in S
    PROVE  /\ Append(list, element) \in Seq(S) /\ Len(Append(list, element)) = Len(list) + 1
           /\ \A i \in 1..Len(list) : i \in 1..Len(Append(list, element)) /\ Append(list, element)[i] = list[i]
           /\ Append(list, element)[Len(list) + 1] = element
           /\ Len(list) + 1 \in 1..Len(Append(list, element))
           /\ \A i \in 1..Len(Append(list, element)) : i \in 1..Len(list) \/ i = Len(list) + 1
  BY AppendProperties

\* A line that is not skipped has its three fields, and is one more row.
LEMMA IdsStep ==
    ASSUME TypeOK, docs \in Documents, AtOK, IdsOK, [Next]_vars, pc' # "raised"
    PROVE  IdsOK'
<1>1. CASE ~IngestLine
  BY <1>1, EachItsOwn DEF IdsOK, LinesOf
<1>2. CASE IngestLine
  <2> DEFINE line == docs.ids[at]
             row == [device_id   |-> LowerCase[line.device],
                     revision_id |-> UpperCase[line.revision],
                     names       |-> line.names]
  <2>1. /\ pc = "ids" /\ pc' = pc /\ docs' = docs /\ at' = at + 1
        /\ at \in Nat \ {0} /\ at \in 1..Len(docs.ids) /\ ~BadLine(line)
    BY <1>2, RunningType DEF IngestLine, Iterate, Running, TypeOK
  <2>2. Behind("ids") = at - 1 /\ Behind("ids")' = at
    <3>1. "ids" \in Stages
      BY StagesAre
    <3> QED
      BY <2>1, <3>1, BehindMoves
  <2>3. line \in Line
    BY <2>1, DocTypes, ElementOfSeq
  <2>4. CASE SkippedLine(line)
    <3>1. LinesOf(at) = LinesOf(at - 1)
      <4>1. at \notin LinesOf(at)
        BY <2>3, <2>4 DEF SkippedLine, LinesOf, Line
      <4> QED
        BY <2>1, <4>1 DEF LinesOf
    <3>2. made' = made
      BY <1>2, <2>4 DEF IngestLine
    <3> QED
      BY <2>1, <2>2, <3>1, <3>2 DEF IdsOK, LinesOf
  <2>5. CASE ~SkippedLine(line)
    <3>1. ~line.comment /\ line.fields = 3
      BY <2>1, <2>5 DEF BadLine, SkippedLine
    <3>2. LinesOf(at) = LinesOf(at - 1) \cup {at} /\ LinesOf(at - 1) \in SUBSET (1..(at - 1))
      BY <2>1, <3>1 DEF LinesOf
    <3>3. Cardinality(LinesOf(at)) = Cardinality(LinesOf(at - 1)) + 1
      BY <2>1, <3>2, CountGrows
    <3>4. made.ids \in Seq(IdRow) /\ made'.ids = Append(made.ids, row)
      BY <1>2, <2>5 DEF IngestLine, TypeOK, Made
    <3>5. row \in IdRow
      BY <2>1, <2>3, <2>5, ConversionsAssumption, DocumentsAssumption DEF BadLine, Line, IdRow
    <3>6. row.device_id = LowerCase[line.device] /\ row.names = line.names
      OBVIOUS
    <3> HIDE DEF row
    <3>7. {<<made'.ids[i].device_id, made'.ids[i].names>> : i \in 1..Len(made'.ids)}
            = {<<made.ids[i].device_id, made.ids[i].names>> : i \in 1..Len(made.ids)}
              \cup {<<LowerCase[line.device], line.names>>}
      BY <3>4, <3>5, <3>6, AppendElements
    <3>8. {<<LowerCase[docs.ids[j].device], docs.ids[j].names>> : j \in LinesOf(at)}
            = {<<LowerCase[docs.ids[j].device], docs.ids[j].names>> : j \in LinesOf(at - 1)}
              \cup {<<LowerCase[line.device], line.names>>}
      BY <3>2
    <3>9. Len(made'.ids) = Len(made.ids) + 1
      BY <3>4, <3>5, AppendElements
    <3>10. \A n : {j \in 1..n : ~docs'.ids[j].comment /\ docs'.ids[j].fields = 3} = LinesOf(n)
      BY <2>1 DEF LinesOf
    <3>11. /\ {<<made.ids[i].device_id, made.ids[i].names>> : i \in 1..Len(made.ids)}
               = {<<LowerCase[docs.ids[j].device], docs.ids[j].names>> : j \in LinesOf(at - 1)}
           /\ Len(made.ids) = Cardinality(LinesOf(at - 1))
      BY <2>2 DEF IdsOK
    <3>12. Len(made'.ids) = Cardinality(LinesOf(at))
      BY <3>3, <3>9, <3>11
    <3>13. LinesOf(Behind("ids"))' = LinesOf(at)
      BY <2>2, <3>10 DEF LinesOf
    <3> HIDE DEF line
    <3>14. {<<made'.ids[i].device_id, made'.ids[i].names>> : i \in 1..Len(made'.ids)}
              = {<<LowerCase[docs.ids[j].device], docs.ids[j].names>> : j \in LinesOf(at)}
      BY <3>7, <3>8, <3>11
    <3> QED
      BY <2>1, <3>12, <3>13, <3>14 DEF IdsOK
  <2> QED
    BY <2>4, <2>5
<1> QED
  BY <1>1, <1>2

\* A generation is looked up for a row with a target.
LEMMA ResolvesStep == ResolvesOK /\ [Next]_vars => ResolvesOK'
<1> SUFFICES ASSUME ResolvesOK, [Next]_vars, pc' = "resolve" PROVE (Row.target # "")'
  BY DEF ResolvesOK
<1>1. CASE BeginResolve
  BY <1>1 DEF BeginResolve, Row
<1>2. CASE WeighCitation
  BY <1>2 DEF WeighCitation, ResolvesOK, Row
<1>3. CASE UNCHANGED vars
  BY <1>3 DEF vars, ResolvesOK, Row
<1>4. CASE Raise \/ EndLoop
  BY <1>4, StagesAre DEF Raise, EndLoop
<1>5. CASE IngestSpecs \/ IngestType \/ IngestLine \/ IngestNpu \/ ReadHeader \/ SkipProcessor
  BY <1>5 DEF IngestSpecs, IngestType, IngestLine, IngestNpu, ReadHeader, SkipProcessor, Iterate, Running
<1>6. CASE EndResolve \/ BeginTable \/ ReadName \/ EndTable
  BY <1>6 DEF EndResolve, BeginTable, ReadName, EndTable
<1> QED
  BY <1>1, <1>2, <1>3, <1>4, <1>5, <1>6 DEF Next

\* Every row with a target is one processor, whether its generation is looked
\* up or not.
LEMMA LlvmStep ==
    ASSUME TypeOK, docs \in Documents, PlaceOK, BestOK, AtOK, ResolvesOK, LlvmOK, [Next]_vars, pc' # "raised"
    PROVE  LlvmOK'
<1>1. CASE ~(ReadHeader \/ SkipProcessor \/ EndResolve)
  BY <1>1, EachItsOwn DEF LlvmOK, ProcessorsOf
<1>2. CASE ReadHeader \/ SkipProcessor \/ EndResolve
  <2>1. /\ Turn[pc] = Turn["processors"] /\ Turn[pc'] = Turn[pc] /\ docs' = docs /\ at' = at + 1
        /\ at \in Nat \ {0} /\ "processors" \in Stages
    BY <1>2, TurnIs, StagesAre DEF ReadHeader, SkipProcessor, EndResolve, Iterate, Running, TypeOK
  <2>2. Behind("processors") = at - 1 /\ Behind("processors")' = at
    BY <2>1, BehindMoves
  <2>3. \A n : ProcessorsOf(n)' = ProcessorsOf(n)
    BY <2>1 DEF ProcessorsOf
  <2>4. /\ {made.llvm[i].at : i \in 1..Len(made.llvm)} = ProcessorsOf(at - 1)
        /\ Len(made.llvm) = Cardinality(ProcessorsOf(at - 1))
    BY <2>2 DEF LlvmOK
  <2>5. ProcessorsOf(Behind("processors"))' = ProcessorsOf(at)
    BY <2>2, <2>3 DEF ProcessorsOf
  <2>a. /\ \A j : j \in 1..at <=> j \in 1..(at - 1) \/ j = at
        /\ at \notin 1..(at - 1)
    BY <2>1
  <2>6. CASE made' = made /\ (Row.header \/ Row.target = "")
    <3>1. ProcessorsOf(at) = ProcessorsOf(at - 1)
      <4>1. at \notin ProcessorsOf(at)
        BY <2>6 DEF ProcessorsOf, Row
      <4> QED
        BY <2>a, <4>1 DEF ProcessorsOf
    <3> QED
      BY <2>4, <2>5, <2>6, <3>1 DEF LlvmOK
  <2>7. ASSUME NEW generation \in STRING \cup {NONE}, Emit(generation), ~Row.header, Row.target # ""
        PROVE  LlvmOK'
    <3> DEFINE entry == [at |-> at, family |-> family, generation |-> generation]
    <3>1. made.llvm \in Seq(Processor) /\ made'.llvm = Append(made.llvm, entry)
      BY <2>7 DEF Emit, TypeOK, Made
    <3>2. entry \in Processor /\ entry.at = at
      BY <2>7 DEF TypeOK, Processor
    <3> HIDE DEF entry
    <3>3. /\ ProcessorsOf(at) = ProcessorsOf(at - 1) \cup {at}
          /\ ProcessorsOf(at - 1) \in SUBSET (1..(at - 1))
      BY <2>a, <2>7 DEF ProcessorsOf, Row
    <3>4. Cardinality(ProcessorsOf(at)) = Cardinality(ProcessorsOf(at - 1)) + 1
      BY <2>1, <3>3, CountGrows
    <3>5. {made'.llvm[i].at : i \in 1..Len(made'.llvm)} = {made.llvm[i].at : i \in 1..Len(made.llvm)} \cup {at}
      BY <3>1, <3>2, AppendElements
    <3>6. Len(made'.llvm) = Len(made.llvm) + 1
      BY <3>1, <3>2, AppendElements
    <3> QED
      BY <2>4, <2>5, <3>3, <3>4, <3>5, <3>6 DEF LlvmOK
  <2>8. CASE ReadHeader
    BY <2>6, <2>8 DEF ReadHeader
  <2>9. CASE SkipProcessor
    BY <2>6, <2>7, <2>9 DEF SkipProcessor
  <2>10. CASE EndResolve
    <3>1. (IF best # 0 THEN Tokens[best].generation ELSE Paren) \in STRING \cup {NONE}
      <4>1. Tokens \in Seq(Token) /\ Paren \in STRING \cup {NONE}
        BY TokensType
      <4>2. CASE best # 0
        <5>1. best \in 1..Len(Tokens)
          BY <2>10, <4>1, <4>2 DEF EndResolve, BestOK
        <5>2. Tokens[best] \in Token
          BY <4>1, <5>1, ElementOfSeq
        <5> QED
          BY <4>2, <5>2 DEF Token
      <4> QED
        BY <4>1, <4>2
    <3>2. ~Row.header /\ Row.target # ""
      BY <2>10 DEF EndResolve, PlaceOK, ResolvesOK
    <3> QED
      BY <2>7, <2>10, <3>1, <3>2 DEF EndResolve
  <2> QED
    BY <1>2, <2>8, <2>9, <2>10
<1> QED
  BY <1>1, <1>2

\* Every row of the driver's table is one NPU.
LEMMA NpusStep ==
    ASSUME TypeOK, docs \in Documents, AtOK, NpusOK, [Next]_vars, pc' # "raised"
    PROVE  NpusOK'
<1>1. CASE ~IngestNpu
  BY <1>1, EachItsOwn DEF NpusOK
<1>2. CASE IngestNpu
  <2>1. /\ pc = "npus" /\ pc' = pc /\ docs' = docs /\ at' = at + 1
        /\ at \in Nat \ {0} /\ "npus" \in Stages
    BY <1>2, StagesAre DEF IngestNpu, Iterate, Running, TypeOK
  <2>2. Behind("npus") = at - 1 /\ Behind("npus")' = at
    BY <2>1, BehindMoves
  <2>3. PICK npu : made' = [made EXCEPT !.npus = Append(made.npus, npu)]
    BY <1>2 DEF IngestNpu
  <2>4. made.npus \in Seq(NpuIdRow) /\ made'.npus = Append(made.npus, npu)
    BY <2>3 DEF TypeOK, Made
  <2>5. Len(made'.npus) = Len(made.npus) + 1
    BY <2>4
  <2> QED
    BY <2>1, <2>2, <2>5 DEF NpusOK
<1> QED
  BY <1>1, <1>2

-----------------------------------------------------------------------------
\* The generations have different names.
LEMMA GenerationsDiffer ==
    /\ Len(Generations) = 7
    /\ \A g, h \in 1..Len(Generations) : Generations[g] = Generations[h] => g = h
  BY DEF Generations

\* A row for a type takes the place of those before it, generation by generation.
LEMMA PrecisionStep ==
    ASSUME TypeOK, docs \in Documents, AtOK, PrecisionOK, [Next]_vars, pc' # "raised"
    PROVE  PrecisionOK'
<1>1. CASE ~IngestType
  BY <1>1, EachItsOwn DEF PrecisionOK, Verdicts, Stands, Says, VerdictOf
<1>2. CASE IngestType
  <2>1. /\ pc = "types" /\ pc' = pc /\ docs' = docs /\ at' = at + 1
        /\ at \in Nat \ {0} /\ "types" \in Stages
    BY <1>2, StagesAre DEF IngestType, Iterate, Running, TypeOK
  <2>2. Behind("types") = at - 1 /\ Behind("types")' = at
    BY <2>1, BehindMoves
  <2> DEFINE row == TypeRows(docs)[at]
             covered == {Generations[g] : g \in Covered(row)}
             kept == {p \in made.precision : p[1] \notin covered \/ p[2][1] # KeyOf(row)}
             new == {VerdictOf(g, at) : g \in Covered(row)}
  <2>3. made'.precision = kept \cup new
    BY <1>2 DEF IngestType, TypeOK, Made, VerdictOf
  <2>4. made.precision = Verdicts(at - 1)
    BY <2>2 DEF PrecisionOK
  <2>5. /\ \A g, j, n : Stands(g, j, n)' = Stands(g, j, n)
        /\ \A g, j : VerdictOf(g, j)' = VerdictOf(g, j)
        /\ \A n : Verdicts(n)' = Verdicts(n)
    BY <2>1 DEF Verdicts, Stands, Says, VerdictOf
  <2>6. \A g : Covered(row) \subseteq 1..Len(Generations) /\ (Stands(g, at, at) <=> g \in Covered(row))
    BY <2>1 DEF Stands, Covered
  <2>7. \A g : \A j \in 1..(at - 1) : Stands(g, j, at) <=> Stands(g, j, at - 1) /\ ~Says(g, KeyOf(TypeRows(docs)[j]), at)
    <3> SUFFICES ASSUME NEW g, NEW j \in 1..(at - 1)
                 PROVE  Stands(g, j, at) <=> Stands(g, j, at - 1) /\ ~Says(g, KeyOf(TypeRows(docs)[j]), at)
      OBVIOUS
    <3>1. (j + 1)..at = ((j + 1)..(at - 1)) \cup {at}
      BY <2>1
    <3> QED
      BY <3>1 DEF Stands
  <2>8. \A g \in 1..Len(Generations) : \A j :
           Says(g, KeyOf(TypeRows(docs)[j]), at) <=>
              VerdictOf(g, j)[1] \in covered /\ VerdictOf(g, j)[2][1] = KeyOf(row)
    <3> SUFFICES ASSUME NEW g \in 1..Len(Generations), NEW j
                 PROVE  Says(g, KeyOf(TypeRows(docs)[j]), at) <=>
                           VerdictOf(g, j)[1] \in covered /\ VerdictOf(g, j)[2][1] = KeyOf(row)
      OBVIOUS
    <3>1. Generations[g] \in covered <=> g \in Covered(row)
      BY <2>6, GenerationsDiffer
    <3>2. VerdictOf(g, j)[1] = Generations[g] /\ VerdictOf(g, j)[2][1] = KeyOf(TypeRows(docs)[j])
      BY DEF VerdictOf
    <3> QED
      BY <3>1, <3>2 DEF Says
  <2>9. \A n : Verdicts(n) = {p \in Verdicts(n) : \E g \in 1..Len(Generations), j \in 1..n : Stands(g, j, n) /\ p = VerdictOf(g, j)}
    BY DEF Verdicts
  <2>10. \A n : \A g \in 1..Len(Generations), j \in 1..n : Stands(g, j, n) => VerdictOf(g, j) \in Verdicts(n)
    BY DEF Verdicts
  <2>11. Verdicts(at) \subseteq kept \cup new
    <3> SUFFICES ASSUME NEW g \in 1..Len(Generations), NEW j \in 1..at, Stands(g, j, at)
                 PROVE  VerdictOf(g, j) \in kept \cup new
      BY <2>9
    <3>1. CASE j = at
      BY <2>6, <3>1
    <3>2. CASE j \in 1..(at - 1)
      BY <2>4, <2>7, <2>8, <2>10, <3>2
    <3> QED
      BY <2>1, <3>1, <3>2
  <2>12. kept \cup new \subseteq Verdicts(at)
    <3>1. ASSUME NEW p \in kept PROVE p \in Verdicts(at)
      <4>1. PICK g \in 1..Len(Generations), j \in 1..(at - 1) : Stands(g, j, at - 1) /\ p = VerdictOf(g, j)
        BY <2>4, <2>9, <3>1
      <4>2. ~Says(g, KeyOf(TypeRows(docs)[j]), at)
        BY <2>8, <3>1, <4>1
      <4> QED
        BY <2>1, <2>7, <2>10, <4>1, <4>2
    <3>2. ASSUME NEW p \in new PROVE p \in Verdicts(at)
      BY <2>1, <2>6, <2>10, <3>2
    <3> QED
      BY <3>1, <3>2
  <2> HIDE DEF kept, new
  <2>13. Verdicts(Behind("types"))' = Verdicts(at)
    BY <2>2, <2>5 DEF Verdicts
  <2> QED
    BY <2>3, <2>11, <2>12, <2>13 DEF PrecisionOK
<1> QED
  BY <1>1, <1>2

-----------------------------------------------------------------------------
\* No position comes before the first of them, and none after the last.
LEMMA EndsBound ==
    ASSUME NEW max \in Nat, NEW positions \in SUBSET (1..max), NEW j \in positions
    PROVE  FirstOf(positions) <= j /\ j <= LastOf(positions)
<1>1. positions \in SUBSET (0..max) /\ positions # {}
  OBVIOUS
<1>2. \E i \in positions : \A m \in positions : i <= m
  BY <1>1, FirstExists
<1>3. \E i \in positions : \A m \in positions : m <= i
  BY <1>1, LastExists
<1> QED
  BY <1>2, <1>3 DEF FirstOf, LastOf

\* A column that is there is read, though perhaps from a later column.
LEMMA FieldThere ==
    ASSUME NEW table \in Table, NEW row \in Seq(TableCell), NEW title,
           NEW c \in Zipped(table.header, row), table.header[c] = title
    PROVE  TextOf(Field(table, row, title)) # NONE /\ WordsOf(Field(table, row, title)) # NONE
<1> DEFINE columns == {b \in Zipped(table.header, row) : table.header[b] = title}
<1>1. Len(row) \in Nat /\ Len(table.header) \in Nat
  BY DEF Table
<1>2. columns \in SUBSET (1..Len(row)) /\ c \in columns
  BY <1>1 DEF Zipped
<1>3. columns # {} /\ LastOf(columns) \in 1..Len(row)
  <2> HIDE DEF columns
  <2> QED
    BY <1>1, <1>2, EndsType
<1>4. row[LastOf(columns)] \in TableCell
  <2> HIDE DEF columns
  <2> QED
    BY <1>3, ElementOfSeq
<1>5. Field(table, row, title) = row[LastOf(columns)]
  BY <1>3 DEF Field
<1>6. Field(table, row, title) \in TableCell /\ Field(table, row, title) # NONE
  BY <1>4, <1>5, CellAssumption
<1> QED
  BY <1>6, NoneAssumption DEF TextOf, WordsOf, TableCell

\* ingest_rocm_gpu_specs._row_to_entry loses no cell of a row.
LEMMA RowHolds ==
    ASSUME NEW d \in Documents, NEW t \in 1..Len(d.specs), NEW r \in 1..Len(d.specs[t].rows)
    PROVE  Holds(RowToEntry(d, t, r), d.specs[t], d.specs[t].rows[r])
<1> DEFINE table == d.specs[t]
           row == table.rows[r]
<1>1. table \in Table /\ row \in Seq(TableCell)
  <2>1. table \in Table
    BY DocTypes, ElementOfSeq
  <2>2. table.rows \in Seq(Seq(TableCell))
    BY <2>1 DEF Table
  <2> QED
    BY <2>1, <2>2, ElementOfSeq
<1>2. Len(row) \in Nat /\ Len(table.header) \in Nat
  BY <1>1 DEF Table
<1>3. \A c \in 1..Len(table.header) : table.header[c] \in DOMAIN Slug
  BY DocumentsAssumption
<1>4. /\ RowToEntry(d, t, r).row.product_name = WordsOf(Field(table, row, "Name"))
      /\ RowToEntry(d, t, r).row.graphics_model = WordsOf(Field(table, row, "Graphics model"))
      /\ RowToEntry(d, t, r).row.generation = TextOf(Field(table, row, "Architecture"))
      /\ RowToEntry(d, t, r).row.gfx_target = TextOf(Field(table, row, "LLVM target name"))
      /\ RowToEntry(d, t, r).specs = [slug \in Slugs |-> SpecOf(table, row, slug)]
  BY DEF RowToEntry
<1> HIDE DEF row, table
<1>5. ASSUME NEW c \in 1..Len(row), c <= Len(table.header)
      PROVE  \/ table.header[c] = "Architecture" /\ RowToEntry(d, t, r).row.generation # NONE
             \/ table.header[c] = "LLVM target name" /\ RowToEntry(d, t, r).row.gfx_target # NONE
             \/ table.header[c] = "Name" /\ RowToEntry(d, t, r).row.product_name # NONE
             \/ table.header[c] = "Graphics model" /\ RowToEntry(d, t, r).row.graphics_model # NONE
             \/ \E b \in c..Len(row) :
                   /\ b <= Len(table.header)
                   /\ Slug[table.header[b]] = Slug[table.header[c]]
                   /\ RowToEntry(d, t, r).specs[Slug[table.header[c]]] = Coerce(row[b])
  <2>1. c \in Zipped(table.header, row)
    BY <1>2, <1>5 DEF Zipped
  <2>2. CASE table.header[c] \in TopLevelFields
    <3>1. LET title == table.header[c]
          IN  TextOf(Field(table, row, title)) # NONE /\ WordsOf(Field(table, row, title)) # NONE
      BY <1>1, <2>1, FieldThere
    <3> QED
      BY <1>4, <2>2, <3>1 DEF TopLevelFields
  <2>3. CASE table.header[c] \notin TopLevelFields
    <3> DEFINE slug == Slug[table.header[c]]
               columns == {b \in SpecColumns(table, row) : Slug[table.header[b]] = slug}
    <3>1. c \in columns /\ columns \in SUBSET (1..Len(row)) /\ columns # {}
      BY <1>2, <2>1, <2>3 DEF SpecColumns, Zipped
    <3>2. LastOf(columns) \in columns /\ c <= LastOf(columns)
      <4> HIDE DEF columns
      <4> QED
        BY <1>2, <3>1, EndsType, EndsBound
    <3>3. slug \in Slugs
      <4>1. table.header[c] \in DOMAIN Slug
        BY <1>2, <1>3, <1>5
      <4> QED
        BY <4>1 DEF Slugs
    <3>4. RowToEntry(d, t, r).specs[slug] = Coerce(row[LastOf(columns)])
      BY <1>4, <3>1, <3>3 DEF SpecOf
    <3>5. /\ LastOf(columns) \in c..Len(row) /\ LastOf(columns) <= Len(table.header)
          /\ Slug[table.header[LastOf(columns)]] = slug
      BY <1>2, <3>2 DEF SpecColumns, Zipped
    <3> QED
      BY <3>4, <3>5
  <2> QED
    BY <2>2, <2>3
<1>6. \A c \in 1..Len(row) : c <= Len(table.header) \/ c > Len(table.header)
  BY <1>2
<1> QED
  BY <1>5, <1>6 DEF Holds, row, table

\* The elements of two lists put together.
LEMMA ConcatElements ==
    ASSUME NEW S, NEW first \in Seq(S), NEW second \in Seq(S)
    PROVE  /\ Len(first \o second) = Len(first) + Len(second)
           /\ \A i \in 1..Len(first) : i \in 1..Len(first \o second) /\ (first \o second)[i] = first[i]
           /\ \A i \in 1..Len(second) :
                 /\ Len(first) + i \in 1..Len(first \o second)
                 /\ (first \o second)[Len(first) + i] = second[i]
           /\ \A i \in 1..Len(first \o second) :
                 i \in 1..Len(first) \/ \E j \in 1..Len(second) : i = Len(first) + j
<1>1. Len(first) \in Nat /\ Len(second) \in Nat /\ Len(first \o second) = Len(first) + Len(second)
  BY ConcatProperties
<1>2. \A i \in 1..(Len(first) + Len(second)) :
         (first \o second)[i] = IF i <= Len(first) THEN first[i] ELSE second[i - Len(first)]
  BY ConcatProperties
<1>3. ASSUME NEW i \in 1..Len(first \o second)
      PROVE  i \in 1..Len(first) \/ \E j \in 1..Len(second) : i = Len(first) + j
  <2>1. i \in 1..Len(first) \/ (i - Len(first) \in 1..Len(second) /\ i = Len(first) + (i - Len(first)))
    BY <1>1
  <2> QED
    BY <2>1
<1> QED
  BY <1>1, <1>2, <1>3

\* A table of a known tab adds its rows, and those of the tables before stay.
LEMMA GpusStep ==
    ASSUME TypeOK, docs \in Documents, AtOK, GpusOK, [Next]_vars, pc' # "raised"
    PROVE  GpusOK'
<1>1. CASE ~IngestSpecs
  BY <1>1, EachItsOwn DEF GpusOK
<1>2. CASE IngestSpecs
  <2>1. /\ pc = "specs" /\ pc' = pc /\ docs' = docs /\ at' = at + 1
        /\ at \in Nat \ {0} /\ "specs" \in Stages /\ at \in 1..Len(docs.specs)
    BY <1>2, RunningType, StagesAre DEF IngestSpecs, Iterate, Running, TypeOK
  <2>2. Behind("specs") = at - 1 /\ Behind("specs")' = at
    BY <2>1, BehindMoves
  <2>3. /\ \A t \in 1..(at - 1) : TabTitle(docs.specs[t]) \in KnownTabs =>
              \A r \in 1..Len(docs.specs[t].rows) :
                  \E i \in 1..Len(made.gpus) :
                      /\ made.gpus[i].at = <<t, r>>
                      /\ Holds(made.gpus[i], docs.specs[t], docs.specs[t].rows[r])
        /\ \A i \in 1..Len(made.gpus) : made.gpus[i].at[1] <= at - 1
        /\ \A i, j \in 1..Len(made.gpus) : made.gpus[i].at = made.gpus[j].at => i = j
    BY <2>2 DEF GpusOK
  <2>a. /\ \A t : t \in 1..at <=> t \in 1..(at - 1) \/ t = at
        /\ \A t \in Nat : t <= at - 1 => t <= at /\ t # at
    BY <2>1
  <2>b. made.gpus \in Seq(GpuSpecs) /\ \A i \in 1..Len(made.gpus) : made.gpus[i].at[1] \in Nat
    <3>1. made.gpus \in Seq(GpuSpecs)
      BY DEF TypeOK, Made
    <3>2. \A i \in 1..Len(made.gpus) : made.gpus[i] \in GpuSpecs
      BY <3>1, ElementOfSeq
    <3> QED
      BY <3>1, <3>2 DEF GpuSpecs
  <2>4. CASE TabTitle(docs.specs[at]) \notin KnownTabs
    <3>1. made' = made
      BY <1>2, <2>4 DEF IngestSpecs
    <3> QED
      BY <2>1, <2>2, <2>3, <2>4, <2>a, <2>b, <3>1 DEF GpusOK
  <2>5. CASE TabTitle(docs.specs[at]) \in KnownTabs
    <3> DEFINE read == [r \in 1..Len(docs.specs[at].rows) |-> RowToEntry(docs, at, r)]
               all == made.gpus \o read
    <3>1. docs.specs[at].rows \in Seq(Seq(TableCell)) /\ Len(docs.specs[at].rows) \in Nat
      <4>1. docs.specs[at] \in Table
        BY <2>1, DocTypes, ElementOfSeq
      <4> QED
        BY <4>1 DEF Table
    <3>2. read \in Seq(GpuSpecs) /\ Len(read) = Len(docs.specs[at].rows)
      <4>1. \A r \in 1..Len(docs.specs[at].rows) : RowToEntry(docs, at, r) \in GpuSpecs
        BY <2>1, RowToEntryType
      <4> QED
        BY <3>1, <4>1
    <3>3. made'.gpus = all
      BY <1>2, <2>5 DEF IngestSpecs, TypeOK, Made
    <3>4. \A r \in 1..Len(read) : read[r].at = <<at, r>> /\ Holds(read[r], docs.specs[at], docs.specs[at].rows[r])
      <4> SUFFICES ASSUME NEW r \in 1..Len(read)
                   PROVE  read[r].at = <<at, r>> /\ Holds(read[r], docs.specs[at], docs.specs[at].rows[r])
        OBVIOUS
      <4>1. r \in 1..Len(docs.specs[at].rows) /\ read[r] = RowToEntry(docs, at, r)
        BY <3>2
      <4>2. RowToEntry(docs, at, r).at = <<at, r>>
        BY DEF RowToEntry
      <4>3. Holds(RowToEntry(docs, at, r), docs.specs[at], docs.specs[at].rows[r])
        BY <2>1, <4>1, RowHolds
      <4> QED
        BY <4>1, <4>2, <4>3
    <3> HIDE DEF read
    <3>5. /\ \A i \in 1..Len(made.gpus) : i \in 1..Len(all) /\ all[i] = made.gpus[i]
          /\ \A r \in 1..Len(read) : Len(made.gpus) + r \in 1..Len(all) /\ all[Len(made.gpus) + r] = read[r]
          /\ \A i \in 1..Len(all) : i \in 1..Len(made.gpus) \/ \E r \in 1..Len(read) : i = Len(made.gpus) + r
      <4>1. made.gpus \in Seq(GpuSpecs) /\ read \in Seq(GpuSpecs)
        BY <2>b, <3>2
      <4>2. \A i \in 1..Len(made.gpus) : i \in 1..Len(all) /\ all[i] = made.gpus[i]
        BY <4>1, ConcatElements
      <4>3. \A r \in 1..Len(read) : Len(made.gpus) + r \in 1..Len(all) /\ all[Len(made.gpus) + r] = read[r]
        BY <4>1, ConcatElements
      <4>4. \A i \in 1..Len(all) : i \in 1..Len(made.gpus) \/ \E r \in 1..Len(read) : i = Len(made.gpus) + r
        BY <4>1, ConcatElements
      <4> QED
        BY <4>2, <4>3, <4>4
    <3> HIDE DEF all
    <3>6. \A t \in 1..at : TabTitle(docs.specs[t]) \in KnownTabs =>
             \A r \in 1..Len(docs.specs[t].rows) :
                 \E i \in 1..Len(all) :
                     /\ all[i].at = <<t, r>>
                     /\ Holds(all[i], docs.specs[t], docs.specs[t].rows[r])
      <4> SUFFICES ASSUME NEW t \in 1..at, TabTitle(docs.specs[t]) \in KnownTabs,
                          NEW r \in 1..Len(docs.specs[t].rows)
                   PROVE  \E i \in 1..Len(all) :
                              /\ all[i].at = <<t, r>>
                              /\ Holds(all[i], docs.specs[t], docs.specs[t].rows[r])
        OBVIOUS
      <4>1. CASE t = at
        BY <3>2, <3>4, <3>5, <4>1
      <4>2. CASE t \in 1..(at - 1)
        <5>1. PICK i \in 1..Len(made.gpus) :
                 /\ made.gpus[i].at = <<t, r>>
                 /\ Holds(made.gpus[i], docs.specs[t], docs.specs[t].rows[r])
          BY <2>3, <4>2
        <5> QED
          BY <3>5, <5>1
      <4> QED
        BY <2>a, <4>1, <4>2
    <3>7. \A i \in 1..Len(all) :
             \/ i \in 1..Len(made.gpus) /\ all[i].at = made.gpus[i].at /\ all[i].at[1] <= at /\ all[i].at[1] # at
             \/ \E r \in 1..Len(read) : i = Len(made.gpus) + r /\ all[i].at = <<at, r>>
      <4> SUFFICES ASSUME NEW i \in 1..Len(all)
                   PROVE  \/ i \in 1..Len(made.gpus) /\ all[i].at = made.gpus[i].at /\ all[i].at[1] <= at
                               /\ all[i].at[1] # at
                          \/ \E r \in 1..Len(read) : i = Len(made.gpus) + r /\ all[i].at = <<at, r>>
        OBVIOUS
      <4>1. CASE i \in 1..Len(made.gpus)
        BY <2>3, <2>a, <2>b, <3>5, <4>1
      <4>2. CASE \E r \in 1..Len(read) : i = Len(made.gpus) + r
        <5>1. PICK r \in 1..Len(read) : i = Len(made.gpus) + r
          BY <4>2
        <5>2. all[Len(made.gpus) + r] = read[r] /\ read[r].at = <<at, r>>
          BY <3>4, <3>5
        <5>3. all[i].at = <<at, r>>
          BY <5>1, <5>2
        <5> QED
          BY <5>1, <5>3
      <4> QED
        BY <3>5, <4>1, <4>2
    <3>8. \A i \in 1..Len(all) : all[i].at[1] <= at
      BY <2>1, <3>7
    <3>9. \A i, j \in 1..Len(all) : all[i].at = all[j].at => i = j
      <4> SUFFICES ASSUME NEW i \in 1..Len(all), NEW j \in 1..Len(all), all[i].at = all[j].at
                   PROVE  i = j
        OBVIOUS
      <4>1. CASE all[i].at[1] = at
        BY <3>7, <4>1
      <4>2. CASE all[i].at[1] # at
        <5>1. all[j].at[1] # at
          BY <4>2
        <5>2. /\ i \in 1..Len(made.gpus) /\ all[i].at = made.gpus[i].at
              /\ j \in 1..Len(made.gpus) /\ all[j].at = made.gpus[j].at
          <6>1. \A m \in 1..Len(all) : all[m].at[1] # at => m \in 1..Len(made.gpus) /\ all[m].at = made.gpus[m].at
            <7>1. \A r : <<at, r>>[1] = at
              OBVIOUS
            <7> QED
              BY <3>7, <7>1, Zenon
          <6> QED
            BY <4>2, <5>1, <6>1
        <5> QED
          BY <2>3, <5>2
      <4> QED
        BY <4>1, <4>2
    <3> QED
      BY <2>1, <2>2, <3>3, <3>6, <3>8, <3>9 DEF GpusOK
  <2> QED
    BY <2>4, <2>5
<1> QED
  BY <1>1, <1>2

-----------------------------------------------------------------------------
\* The table at hand has a name and names.
LEMMA TableAt ==
    ASSUME docs \in Documents, NEW t \in 1..Len(docs.driver.tables)
    PROVE  /\ docs.driver.tables[t].name \in TableName
           /\ docs.driver.tables[t].names \in Seq(Name)
           /\ Len(docs.driver.tables[t].names) \in Nat
<1>1. docs.driver.tables \in Seq([name : TableName, names : Seq(Name)])
  BY DocTypes DEF Driver
<1>2. docs.driver.tables[t] \in [name : TableName, names : Seq(Name)]
  BY <1>1, ElementOfSeq
<1> QED
  BY <1>2

\* The first mention of a name is among the first n when one of those is it,
\* and the next one when only that is it.
LEMMA FirstMentionIs ==
    ASSUME NEW table, Len(table.names) \in Nat, NEW n \in 1..Len(table.names), NEW name
    PROVE  /\ NormalizeFamily(table.names[n]) = name =>
                 FirstMention(table, name) \in Nat /\ FirstMention(table, name) <= n
           /\ (/\ NormalizeFamily(table.names[n]) = name
               /\ \A m \in 1..(n - 1) : NormalizeFamily(table.names[m]) # name) =>
                 FirstMention(table, name) = n
<1> SUFFICES ASSUME NormalizeFamily(table.names[n]) = name
             PROVE  /\ FirstMention(table, name) \in Nat /\ FirstMention(table, name) <= n
                    /\ (\A m \in 1..(n - 1) : NormalizeFamily(table.names[m]) # name) => FirstMention(table, name) = n
  OBVIOUS
<1> DEFINE mentions == {m \in 1..Len(table.names) : NormalizeFamily(table.names[m]) = name}
<1>1. n \in mentions /\ mentions \in SUBSET (1..Len(table.names)) /\ mentions # {}
  OBVIOUS
<1>2. FirstMention(table, name) \in mentions /\ FirstMention(table, name) <= n
  <2>1. FirstMention(table, name) = FirstOf(mentions)
    BY DEF FirstMention
  <2> HIDE DEF mentions
  <2> QED
    BY <1>1, <2>1, EndsType, EndsBound
<1>3. \A m \in 1..Len(table.names) : m <= n /\ m \notin 1..(n - 1) => m = n
  OBVIOUS
<1> QED
  BY <1>2, <1>3

\* Reading a table's names collects those read so far, in order.
LEMMA NamesStep ==
    ASSUME TypeOK, docs \in Documents, PlaceOK, NamesOK, [Next]_vars
    PROVE  NamesOK'
<1> SUFFICES ASSUME pc' = "names" PROVE NamesOK'
  BY DEF NamesOK
<1>a. at \in Nat \ {0} /\ k \in Nat \ {0} /\ names \in Seq(Name)
  BY DEF TypeOK
<1>1. CASE BeginTable
  <2>1. at \in 1..Len(docs.driver.tables) /\ docs' = docs /\ at' = at /\ k' = 1 /\ names' = <<>>
    BY <1>1, <1>a, RunningType DEF BeginTable
  <2>2. Len(docs.driver.tables[at].names) \in Nat
    BY <2>1, TableAt
  <2>3. IsWholeSet(<<>>, docs.driver.tables[at], 0)
    BY DEF IsWholeSet
  <2>4. k' <= Len(docs'.driver.tables[at'].names) + 1 /\ k' - 1 = 0
    BY <2>1, <2>2
  <2>5. IsWholeSet(names', docs'.driver.tables[at'], k' - 1)
    BY <2>1, <2>3
  <2> QED
    BY <2>4, <2>5 DEF NamesOK, IsWholeSet
<1>2. CASE ReadName
  <2> DEFINE table == docs.driver.tables[at]
             name == NormalizeFamily(table.names[k])
  <2>1. /\ pc = "names" /\ k <= Len(table.names) /\ docs' = docs /\ at' = at /\ k' = k + 1
        /\ names' = IF \E j \in 1..Len(names) : names[j] = name THEN names ELSE Append(names, name)
    BY <1>2 DEF ReadName
  <2>2. table.names \in Seq(Name) /\ Len(table.names) \in Nat /\ k \in 1..Len(table.names)
    BY <1>a, <2>1, TableAt DEF PlaceOK
  <2>3. name \in Name
    BY <2>2, ElementOfSeq, NormalizeFamilyType
  <2>4. IsWholeSet(names, table, k - 1)
    BY <2>1 DEF NamesOK
  <2>5. name = NormalizeFamily(table.names[k])
    OBVIOUS
  <2>a. Len(table.names) \in Nat
    BY <2>2
  <2> HIDE DEF name, table
  <2>6. /\ {names[m] : m \in 1..Len(names)} = {NormalizeFamily(table.names[m]) : m \in 1..(k - 1)}
        /\ \A m, o \in 1..Len(names) : m < o => FirstMention(table, names[m]) < FirstMention(table, names[o])
    BY <2>4 DEF IsWholeSet
  <2>7. {NormalizeFamily(table.names[m]) : m \in 1..k} = {NormalizeFamily(table.names[m]) : m \in 1..(k - 1)} \cup {name}
    <3>1. \A m : m \in 1..k <=> m \in 1..(k - 1) \/ m = k
      BY <1>a
    <3> QED
      BY <2>5, <3>1
  <2>8. IsWholeSet(names', table, k)
    <3>1. CASE \E j \in 1..Len(names) : names[j] = name
      BY <2>1, <2>6, <2>7, <3>1 DEF IsWholeSet
    <3>2. CASE ~ \E j \in 1..Len(names) : names[j] = name
      <4>1. names' = Append(names, name)
        BY <2>1, <3>2
      <4>2. /\ Len(names) \in Nat /\ Len(names') = Len(names) + 1
            /\ \A m \in 1..Len(names) : m \in 1..Len(names') /\ names'[m] = names[m]
            /\ names'[Len(names) + 1] = name
            /\ \A m \in 1..Len(names') : m \in 1..Len(names) \/ m = Len(names) + 1
            /\ Len(names) + 1 \in 1..Len(names')
        BY <1>a, <2>3, <4>1, AppendElements
      <4>3. {names'[m] : m \in 1..Len(names')} = {names[m] : m \in 1..Len(names)} \cup {name}
        BY <4>2
      <4>4. \A m \in 1..(k - 1) : NormalizeFamily(table.names[m]) # name
        <5>1. \A m \in 1..(k - 1) : NormalizeFamily(table.names[m]) \in {names[j] : j \in 1..Len(names)}
          BY <2>6
        <5> QED
          BY <3>2, <5>1
      <4>5. FirstMention(table, name) = k
        BY <2>2, <2>5, <2>a, <4>4, FirstMentionIs
      <4>6. \A m \in 1..Len(names) : FirstMention(table, names[m]) < k
        <5> SUFFICES ASSUME NEW m \in 1..Len(names) PROVE FirstMention(table, names[m]) < k
          OBVIOUS
        <5>1. PICK o \in 1..(k - 1) : NormalizeFamily(table.names[o]) = names[m]
          BY <2>6
        <5>2. o \in 1..Len(table.names)
          BY <2>2, <5>1
        <5>3. FirstMention(table, names[m]) \in Nat /\ FirstMention(table, names[m]) <= o
          BY <2>a, <5>1, <5>2, FirstMentionIs
        <5> QED
          BY <1>a, <5>3
      <4>7. \A m, o \in 1..Len(names') :
               m < o => FirstMention(table, names'[m]) < FirstMention(table, names'[o])
        <5> SUFFICES ASSUME NEW m \in 1..Len(names'), NEW o \in 1..Len(names'), m < o
                     PROVE  FirstMention(table, names'[m]) < FirstMention(table, names'[o])
          OBVIOUS
        <5>1. m \in 1..Len(names) /\ names'[m] = names[m]
          BY <4>2
        <5>2. CASE o \in 1..Len(names)
          BY <2>6, <4>2, <5>1, <5>2
        <5>3. CASE o = Len(names) + 1
          BY <4>2, <4>5, <4>6, <5>1, <5>3
        <5> QED
          BY <4>2, <5>2, <5>3
      <4> QED
        BY <2>6, <2>7, <4>3, <4>7 DEF IsWholeSet
    <3> QED
      BY <3>1, <3>2
  <2>9. k' <= Len(table.names) + 1 /\ k' - 1 = k
    BY <1>a, <2>1, <2>2
  <2> QED
    BY <2>1, <2>8, <2>9 DEF NamesOK, IsWholeSet, table
<1>3. CASE UNCHANGED vars
  BY <1>3 DEF vars, NamesOK, IsWholeSet
<1>4. CASE Raise \/ EndLoop
  BY <1>4, StagesAre DEF Raise, EndLoop
<1>5. CASE IngestSpecs \/ IngestType \/ IngestLine \/ IngestNpu \/ ReadHeader \/ SkipProcessor
  BY <1>5 DEF IngestSpecs, IngestType, IngestLine, IngestNpu, ReadHeader, SkipProcessor, Iterate, Running
<1>6. CASE BeginResolve \/ WeighCitation \/ EndResolve \/ EndTable
  BY <1>6 DEF BeginResolve, WeighCitation, EndResolve, EndTable
<1> QED
  BY <1>1, <1>2, <1>3, <1>4, <1>5, <1>6 DEF Next

\* A table read again takes the place of the one of that name.
LEMMA TablesStep ==
    ASSUME TypeOK, docs \in Documents, PlaceOK, AtOK, NamesOK, TablesOK, [Next]_vars, pc' # "raised"
    PROVE  TablesOK'
<1>1. CASE ~EndTable
  BY <1>1, EachItsOwn DEF TablesOK, IsTableOf, DefinedBy
<1>2. CASE EndTable
  <2> DEFINE table == docs.driver.tables[at]
  <2>1. /\ pc = "names" /\ pc' = "tables" /\ docs' = docs /\ at' = at + 1
        /\ k > Len(table.names)
        /\ at \in Nat \ {0} /\ at \in 1..Len(docs.driver.tables) /\ "tables" \in Stages
    BY <1>2, StagesAre DEF EndTable, PlaceOK, TypeOK
  <2>2. Behind("tables") = at - 1 /\ Behind("tables")' = at
    BY <2>1, TurnIs, BehindMoves
  <2>3. Len(table.names) \in Nat /\ table.name \in TableName
    BY <2>1, TableAt
  <2>4. IsWholeSet(names, table, Len(table.names))
    <3>1. k - 1 = Len(table.names)
      BY <2>1, <2>3 DEF NamesOK, TypeOK
    <3> QED
      BY <2>1, <3>1 DEF NamesOK
  <2>5. /\ made.tables \in [TableName -> Seq(Name)]
        /\ made'.tables = [made.tables EXCEPT ![table.name] = names]
    BY <1>2 DEF EndTable, TypeOK, Made
  <2>6. \A name \in TableName : IsTableOf(name, made.tables[name], at - 1)
    BY <2>2 DEF TablesOK
  <2>a. \A t : t \in 1..at <=> t \in 1..(at - 1) \/ t = at
    BY <2>1
  <2>7. ASSUME NEW name \in TableName PROVE IsTableOf(name, made'.tables[name], at)
    <3>1. CASE name = table.name
      <4>1. made'.tables[name] = names
        BY <2>5, <3>1
      <4>2. at \in DefinedBy(name, at) /\ DefinedBy(name, at) \in SUBSET (1..at) /\ DefinedBy(name, at) # {}
        BY <2>1, <3>1 DEF DefinedBy
      <4>3. LastOf(DefinedBy(name, at)) = at
        <5>1. LastOf(DefinedBy(name, at)) \in 1..at /\ at <= LastOf(DefinedBy(name, at))
          BY <2>1, <4>2, EndsType, EndsBound
        <5> QED
          BY <2>1, <5>1
      <4> QED
        BY <2>4, <4>1, <4>2, <4>3 DEF IsTableOf
    <3>2. CASE name # table.name
      <4>1. made'.tables[name] = made.tables[name]
        BY <2>5, <3>2
      <4>2. DefinedBy(name, at) = DefinedBy(name, at - 1)
        BY <2>a, <3>2 DEF DefinedBy
      <4> QED
        BY <2>6, <4>1, <4>2 DEF IsTableOf
    <3> QED
      BY <3>1, <3>2
  <2>8. \A name, list : IsTableOf(name, list, at) =>
           IF {t \in 1..at : docs'.driver.tables[t].name = name} = {}
             THEN list = <<>>
             ELSE LET table_ == docs'.driver.tables[LastOf({t \in 1..at : docs'.driver.tables[t].name = name})]
                  IN  IsWholeSet(list, table_, Len(table_.names))
    BY <2>1 DEF IsTableOf, DefinedBy
  <2> QED
    BY <2>2, <2>7, <2>8 DEF TablesOK, IsTableOf, DefinedBy
<1> QED
  BY <1>1, <1>2

\* What FamilyIsTheWholeSet says of one row.
FamilyRight(d, info, family_) ==
    LET symbol == TableOf(d, info)
        tables == {t \in 1..Len(d.driver.tables) : d.driver.tables[t].name = symbol}
        table == d.driver.tables[LastOf(tables)]
    IN  IF symbol = NONE \/ tables = {} \/ table.names = <<>>
          THEN family_ = NONE
          ELSE IsWholeSet(family_, table, Len(table.names))

\* It says it of every row.
LEMMA FamilyByRow ==
    /\ FamilyIsTheWholeSet
         <=> \A j \in 1..Len(made.npus) : FamilyRight(docs, docs.driver.ids[j].info, made.npus[j].family)
    /\ FamilyIsTheWholeSet'
         <=> \A j \in 1..Len(made'.npus) : FamilyRight(docs', docs'.driver.ids[j].info, made'.npus[j].family)
<1>1. FamilyIsTheWholeSet
        <=> \A j \in 1..Len(made.npus) : FamilyRight(docs, docs.driver.ids[j].info, made.npus[j].family)
  BY DEF FamilyIsTheWholeSet, FamilyRight, IsWholeSet
<1>2. FamilyIsTheWholeSet'
        <=> \A j \in 1..Len(made'.npus) : FamilyRight(docs', docs'.driver.ids[j].info, made'.npus[j].family)
  BY DEF FamilyIsTheWholeSet, FamilyRight, IsWholeSet
<1> QED
  BY <1>1, <1>2

\* By the time the NPUs are read every table has been.
LEMMA FamilyOfIsRight ==
    ASSUME TypeOK, docs \in Documents, TablesOK, Behind("tables") = Len(docs.driver.tables), NEW info
    PROVE  FamilyRight(docs, info, FamilyOf(info))
<1> DEFINE symbol == TableOf(docs, info)
           tables == DefinedBy(symbol, Len(docs.driver.tables))
           table == docs.driver.tables[LastOf(tables)]
           list == made.tables[symbol]
<1>1. CASE symbol = NONE
  BY <1>1 DEF FamilyOf, FamilyRight
<1>2. CASE symbol # NONE
  <2>1. symbol \in TableName
    BY <1>2, TableOfType
  <2>2. list \in Seq(Name)
    BY <2>1 DEF TypeOK, Made
  <2>3. FamilyOf(info) = IF list = <<>> THEN NONE ELSE list
    BY <1>2 DEF FamilyOf
  <2>4. IsTableOf(symbol, list, Len(docs.driver.tables))
    BY <2>1 DEF TablesOK
  <2>5. CASE tables = {}
    BY <2>3, <2>4, <2>5 DEF IsTableOf, FamilyRight, DefinedBy
  <2>6. CASE tables # {}
    <3>1. LastOf(tables) \in 1..Len(docs.driver.tables)
      <4>1. docs.driver.tables \in Seq([name : TableName, names : Seq(Name)])
        BY DocTypes DEF Driver
      <4>2. Len(docs.driver.tables) \in Nat /\ tables \in SUBSET (1..Len(docs.driver.tables))
        BY <4>1 DEF DefinedBy
      <4> QED
        BY <2>6, <4>2, EndsType
    <3>2. table.names \in Seq(Name)
      BY <3>1, TableAt
    <3>3. IsWholeSet(list, table, Len(table.names))
      BY <2>4, <2>6 DEF IsTableOf
    <3> HIDE DEF list, table
    <3>4. list = <<>> <=> table.names = <<>>
      <4>1. {list[m] : m \in 1..Len(list)} = {NormalizeFamily(table.names[m]) : m \in 1..Len(table.names)}
        BY <3>3 DEF IsWholeSet
      <4>2. Len(list) \in Nat /\ Len(table.names) \in Nat
        BY <2>2, <3>2
      <4>3. list = <<>> <=> Len(list) = 0
        BY <2>2, EmptySeq
      <4>4. table.names = <<>> <=> Len(table.names) = 0
        BY <3>2, EmptySeq
      <4>5. Len(list) = 0 => Len(table.names) = 0
        <5> SUFFICES ASSUME Len(list) = 0, Len(table.names) # 0 PROVE FALSE
          OBVIOUS
        <5>1. 1 \in 1..Len(table.names) /\ 1..Len(list) = {}
          BY <4>2
        <5>2. NormalizeFamily(table.names[1]) \in {NormalizeFamily(table.names[m]) : m \in 1..Len(table.names)}
          BY <5>1
        <5> QED
          BY <4>1, <5>1, <5>2
      <4>6. Len(table.names) = 0 => Len(list) = 0
        <5> SUFFICES ASSUME Len(table.names) = 0, Len(list) # 0 PROVE FALSE
          OBVIOUS
        <5>1. 1 \in 1..Len(list) /\ 1..Len(table.names) = {}
          BY <4>2
        <5>2. list[1] \in {list[m] : m \in 1..Len(list)}
          BY <5>1
        <5> QED
          BY <4>1, <5>1, <5>2
      <4> QED
        BY <4>3, <4>4, <4>5, <4>6
    <3> QED
      BY <1>2, <2>3, <2>6, <3>3, <3>4 DEF FamilyRight, table, DefinedBy
  <2> QED
    BY <2>5, <2>6
<1> QED
  BY <1>1, <1>2

\* Every NPU that is added has the whole set of its table's names.
LEMMA FamilyStep ==
    ASSUME TypeOK, docs \in Documents, PlaceOK, AtOK, PassedOK, TablesOK, NpusOK, FamilyIsTheWholeSet,
           [Next]_vars, pc' # "raised"
    PROVE  FamilyIsTheWholeSet'
<1>1. CASE ~IngestNpu
  BY <1>1, EachItsOwn, FamilyByRow
<1>2. CASE IngestNpu
  <2> DEFINE row == docs.driver.ids[at]
             npu == [device_id   |-> LowerCase[row.device],
                     revision_id |-> row.revision,
                     hw_gen      |-> HwGen[row.info],
                     family      |-> FamilyOf(row.info)]
  <2>1. pc = "npus" /\ docs' = docs /\ at \in Nat \ {0} /\ "npus" \in Stages /\ "tables" \in Stages
    BY <1>2, StagesAre DEF IngestNpu, Iterate, Running, TypeOK
  <2>2. Behind("tables") = Len(docs.driver.tables) /\ Behind("npus") = at - 1
    BY <2>1, TurnIs DEF Behind, Length
  <2>3. FamilyRight(docs, row.info, FamilyOf(row.info))
    BY <2>2, FamilyOfIsRight
  <2>4. Len(made.npus) = at - 1
    BY <2>2 DEF NpusOK
  <2>5. /\ Len(made'.npus) = at
        /\ made'.npus[at] = npu
        /\ \A j \in 1..(at - 1) : made'.npus[j] = made.npus[j]
    <3>1. made.npus \in Seq(NpuIdRow) /\ made'.npus = Append(made.npus, npu)
      BY <1>2 DEF IngestNpu, TypeOK, Made
    <3> HIDE DEF npu
    <3> QED
      BY <2>1, <2>4, <3>1
  <2>6. npu.family = FamilyOf(row.info)
    OBVIOUS
  <2> HIDE DEF npu
  <2>7. \A j \in 1..(at - 1) : FamilyRight(docs, docs.driver.ids[j].info, made.npus[j].family)
    BY <2>4, FamilyByRow
  <2>8. \A j : j \in 1..at <=> j \in 1..(at - 1) \/ j = at
    BY <2>1
  <2>9. \A j \in 1..Len(made'.npus) : FamilyRight(docs, docs.driver.ids[j].info, made'.npus[j].family)
    BY <2>3, <2>5, <2>6, <2>7, <2>8
  <2> QED
    BY <2>1, <2>9, FamilyByRow
<1> QED
  BY <1>1, <1>2

\* An ingest that raises leaves what was made before.
LEMMA RaisedKeeps ==
    ASSUME FamilyIsTheWholeSet, [Next]_vars, pc' = "raised"
    PROVE  FamilyIsTheWholeSet'
<1>1. docs' = docs /\ made' = made
  <2>1. CASE Raise \/ EndLoop
    BY <2>1 DEF Raise, EndLoop
  <2>2. CASE IngestSpecs \/ IngestType \/ IngestLine \/ IngestNpu \/ ReadHeader \/ SkipProcessor
    BY <2>2, StagesAre
    DEF IngestSpecs, IngestType, IngestLine, IngestNpu, ReadHeader, SkipProcessor, Iterate, Running
  <2>3. CASE BeginResolve \/ WeighCitation \/ EndResolve \/ BeginTable \/ ReadName \/ EndTable
    BY <2>3 DEF BeginResolve, WeighCitation, EndResolve, BeginTable, ReadName, EndTable
  <2>4. CASE UNCHANGED vars
    BY <2>4 DEF vars
  <2> QED
    BY <2>1, <2>2, <2>3, <2>4 DEF Next
<1> QED
  BY <1>1, FamilyByRow

\* Before the first row nothing is made, and nothing has to be.
LEMMA FullInit == Init => FullInv
<1> SUFFICES ASSUME Init PROVE FullInv
  OBVIOUS
<1>1. /\ pc = "specs" /\ at = 1 /\ family = 0 /\ docs \in Documents
      /\ made.gpus = <<>> /\ made.precision = {} /\ made.ids = <<>> /\ made.llvm = <<>> /\ made.npus = <<>>
      /\ \A name \in TableName : made.tables[name] = <<>>
  BY DEF Init
<1>2. IInv
  BY <1>1, TypeInit DEF IInv, PlaceOK, BestOK, MostSpecificGeneration
<1>3. AtOK /\ PassedOK
  <2>1. ~Missing("specs") => Length("specs") \in Nat
    BY <1>1, StagesAre, LengthType
  <2>2. \A stage \in Stages : ~(Turn["specs"] > Turn[stage])
    BY TurnIs
  <2> QED
    BY <1>1, <2>1, <2>2 DEF AtOK, PassedOK
<1>4. \A stage \in Stages : Behind(stage) = 0
  <2> SUFFICES ASSUME NEW stage \in Stages PROVE Behind(stage) = 0
    OBVIOUS
  <2>1. Turn["specs"] = 1 /\ Turn[stage] \in 1..6
    BY TurnIs
  <2> QED
    BY <1>1, <2>1 DEF Behind
<1>5. /\ Behind("specs") = 0 /\ Behind("types") = 0 /\ Behind("ids") = 0
      /\ Behind("processors") = 0 /\ Behind("tables") = 0 /\ Behind("npus") = 0
  BY <1>4, StagesAre
<1>6. GpusOK /\ NpusOK /\ FamilyIsTheWholeSet
  <2>1. Len(made.gpus) = 0 /\ Len(made.npus) = 0 /\ 1..0 = {}
    BY <1>1
  <2>2. GpusOK
    BY <1>5, <2>1 DEF GpusOK
  <2>3. NpusOK
    BY <1>5, <2>1 DEF NpusOK
  <2>4. FamilyIsTheWholeSet
    BY <2>1, FamilyByRow
  <2> QED
    BY <2>2, <2>3, <2>4
<1>7. PrecisionOK
  BY <1>1, <1>5 DEF PrecisionOK, Verdicts
<1>8. IdsOK /\ LlvmOK
  <2>1. LinesOf(0) = {} /\ ProcessorsOf(0) = {}
    BY DEF LinesOf, ProcessorsOf
  <2>2. Cardinality({}) = 0
    BY FS_EmptySet
  <2>3. Len(made.ids) = 0 /\ Len(made.llvm) = 0 /\ 1..0 = {}
    BY <1>1
  <2>4. IdsOK
    BY <1>5, <2>1, <2>2, <2>3 DEF IdsOK
  <2>5. LlvmOK
    BY <1>5, <2>1, <2>2, <2>3 DEF LlvmOK
  <2> QED
    BY <2>4, <2>5
<1>9. TablesOK
  <2>1. \A name : DefinedBy(name, 0) = {}
    BY DEF DefinedBy
  <2> QED
    BY <1>1, <1>5, <2>1 DEF TablesOK, IsTableOf
<1>10. ResolvesOK /\ NamesOK
  BY <1>1 DEF ResolvesOK, NamesOK
<1> QED
  BY <1>2, <1>3, <1>6, <1>7, <1>8, <1>9, <1>10 DEF FullInv, SoFarOK

\* Every step keeps what has been made right so far.
LEMMA FullStep == FullInv /\ [Next]_vars => FullInv'
<1> SUFFICES ASSUME FullInv, [Next]_vars PROVE FullInv'
  OBVIOUS
<1>1. IInv /\ TypeOK /\ docs \in Documents /\ PlaceOK /\ BestOK /\ AtOK /\ PassedOK /\ SoFarOK /\ FamilyIsTheWholeSet
  BY DEF FullInv, IInv
<1>2. IInv'
  BY <1>1, TypeStep, PlaceStep, BestStep, GenerationStep DEF IInv
<1>3. AtOK' /\ PassedOK'
  BY <1>1, AtStep
<1>4. CASE pc' = "raised"
  BY <1>1, <1>2, <1>3, <1>4, RaisedKeeps DEF FullInv, SoFarOK
<1>5. CASE pc' # "raised"
  <2>1. pc # "raised"
    BY <1>1, <1>5, EachItsOwn
  <2>2. GpusOK /\ PrecisionOK /\ IdsOK /\ LlvmOK /\ ResolvesOK /\ NamesOK /\ TablesOK /\ NpusOK
    BY <1>1, <2>1 DEF SoFarOK
  <2>3. GpusOK' /\ PrecisionOK' /\ IdsOK'
    BY <1>1, <1>5, <2>2, GpusStep, PrecisionStep, IdsStep
  <2>4. LlvmOK' /\ ResolvesOK'
    BY <1>1, <1>5, <2>2, LlvmStep, ResolvesStep
  <2>5. NamesOK' /\ TablesOK' /\ NpusOK'
    BY <1>1, <1>5, <2>2, NamesStep, TablesStep, NpusStep
  <2>6. FamilyIsTheWholeSet'
    BY <1>1, <1>5, <2>2, FamilyStep
  <2> QED
    BY <1>2, <1>3, <2>3, <2>4, <2>5, <2>6 DEF FullInv, SoFarOK
<1> QED
  BY <1>4, <1>5

\* What has been made is right so far, at every moment.
LEMMA FullInvariance == Spec => []FullInv
  BY FullInit, FullStep, PTL DEF Spec

\* For all driver sources, an NPU has the names of its table in the driver, all
\* of them and no other, or none: ingest_xdna_pciids.ingest().
THEOREM FamilyIsTheWholeSetHolds == Spec => []FamilyIsTheWholeSet
<1>1. FullInv => FamilyIsTheWholeSet
  BY DEF FullInv
<1> QED
  BY <1>1, FullInvariance, PTL

\* A verdict stands at the end when its row is the last to speak of its type.
LEMMA StandsIsLast ==
    ASSUME docs \in Documents, ~Missing("types"), NEW g, NEW j \in 1..Len(TypeRows(docs))
    PROVE  LET said == {m \in 1..Len(TypeRows(docs)) : Says(g, KeyOf(TypeRows(docs)[j]), m)}
           IN  Stands(g, j, Len(TypeRows(docs))) <=> j \in said /\ j = LastOf(said)
<1> DEFINE n == Len(TypeRows(docs))
           key == KeyOf(TypeRows(docs)[j])
           said == {m \in 1..n : Says(g, key, m)}
<1>1. n \in Nat
  BY RowsType DEF Missing
<1>2. said \in SUBSET (1..n) /\ (j \in said <=> g \in Covered(TypeRows(docs)[j]))
  BY DEF Says
<1>3. Stands(g, j, n) <=> j \in said /\ \A m \in (j + 1)..n : m \notin said
  BY <1>1, <1>2 DEF Stands
<1> HIDE DEF said
<1>4. ASSUME j \in said
      PROVE  (\A m \in (j + 1)..n : m \notin said) <=> j = LastOf(said)
  <2>1. LastOf(said) \in said /\ \A m \in said : m <= LastOf(said)
    BY <1>1, <1>2, <1>4, EndsType, EndsBound
  <2>2. LastOf(said) \in 1..n /\ said \in SUBSET (1..n)
    BY <1>2, <2>1
  <2> HIDE DEF n
  <2> QED
    BY <1>1, <1>4, <2>1, <2>2
<1> QED
  BY <1>3, <1>4 DEF said

\* For all tables of the precision document, a generation has for each type the
\* verdict of the last row that gives one: ingest_rocm_precision_support.ingest().
THEOREM OneVerdictPerTypeHolds == Spec => []OneVerdictPerType
<1>1. FullInv => OneVerdictPerType
  <2> SUFFICES ASSUME FullInv, pc \in Stages \ {"specs", "types"} PROVE OneVerdictPerType
    BY DEF OneVerdictPerType
  <2>1. docs \in Documents /\ PassedOK /\ SoFarOK /\ pc # "raised"
    BY StagesAre DEF FullInv, IInv
  <2>2. "types" \in Stages /\ Turn[pc] > Turn["types"]
    BY StagesAre, TurnIs
  <2>3. ~Missing("types")
    BY <2>1, <2>2 DEF PassedOK
  <2>4. Behind("types") = Len(TypeRows(docs))
    BY <2>2, TurnIs, StagesAre DEF Behind, Length
  <2>5. made.precision = Verdicts(Len(TypeRows(docs)))
    BY <2>1, <2>4 DEF SoFarOK, PrecisionOK
  <2> DEFINE rows == TypeRows(docs)
             said(g, key) == {j \in 1..Len(rows) : g \in Covered(rows[j]) /\ KeyOf(rows[j]) = key}
             last(g) == {j \in 1..Len(rows) : j \in said(g, KeyOf(rows[j])) /\ j = LastOf(said(g, KeyOf(rows[j])))}
  <2>6. \A g : last(g) = {j \in 1..Len(rows) : Stands(g, j, Len(rows))}
    <3>1. \A g, key : said(g, key) = {m \in 1..Len(rows) : Says(g, key, m)}
      BY DEF Says
    <3>2. \A g : \A j \in 1..Len(rows) :
             Stands(g, j, Len(rows)) <=> j \in said(g, KeyOf(rows[j])) /\ j = LastOf(said(g, KeyOf(rows[j])))
      BY <2>1, <2>3, <3>1, StandsIsLast
    <3> QED
      BY <3>2
  <2> DEFINE standing(g) == {VerdictOf(g, j) : j \in {m \in 1..Len(rows) : Stands(g, m, Len(rows))}}
             given(g) == {<<Generations[g], <<KeyOf(rows[j]), SupportIcon[rows[j][g + 1].text]>>>> : j \in last(g)}
  <2>7. \A g : standing(g) = given(g)
    BY <2>6 DEF VerdictOf
  <2>8. OneVerdictPerType <=> made.precision = UNION {given(g) : g \in 1..Len(Generations)}
    BY DEF OneVerdictPerType
  <2>9. Verdicts(Len(rows)) = UNION {standing(g) : g \in 1..Len(Generations)}
    BY DEF Verdicts
  <2> HIDE DEF standing, given
  <2>10. {standing(g) : g \in 1..Len(Generations)} = {given(g) : g \in 1..Len(Generations)}
    BY <2>7
  <2> QED
    BY <2>5, <2>8, <2>9, <2>10
<1> QED
  BY <1>1, FullInvariance, PTL

\* For all documents, what build_catalog() goes on with has every product of a
\* known tab with the cells its header names (a later one of a slug taking an
\* earlier one's place), every line with three fields, every processor
\* and every NPU, each once: the five ingest() functions.
THEOREM NothingIsLostHolds == Spec => []NothingIsLost
<1>1. FullInv => NothingIsLost
  <2> SUFFICES ASSUME FullInv, pc = "done" PROVE NothingIsLost
    BY DEF NothingIsLost
  <2>1. SoFarOK
    BY DEF FullInv
  <2>2. /\ Behind("specs") = Len(docs.specs) /\ Behind("ids") = Len(docs.ids)
        /\ Behind("processors") = Len(ProcessorRows(docs)) /\ Behind("npus") = Len(docs.driver.ids)
    BY TurnIs DEF Behind, Length
  <2>3. GpusOK /\ IdsOK /\ LlvmOK /\ NpusOK
    BY <2>1 DEF SoFarOK
  <2> QED
    BY <2>2, <2>3 DEF NothingIsLost, GpusOK, IdsOK, LlvmOK, NpusOK, LinesOf, ProcessorsOf
<1> QED
  BY <1>1, FullInvariance, PTL

-----------------------------------------------------------------------------
(***************************************************************************)
(* The calls return what no document has a fault in: every row behind the  *)
(* program is good, so that the end of the last loop has seen all of them, *)
(* and a call raises at a row, or for a table, that is a fault.            *)
(***************************************************************************)
GoodSoFar == pc # "raised" => \A stage \in Stages : \A j \in 1..Behind(stage) : ~Bad(stage, j)

RaisedOK == pc = "raised" => ~Faultless

FaultInv == FullInv /\ GoodSoFar /\ RaisedOK

\* A call that raises has met a fault.
LEMMA RaiseHasACause ==
    ASSUME TypeOK, docs \in Documents, Raise
    PROVE  ~Faultless
<1>1. pc \in Stages /\ ~Usable(pc, at) /\ at \in Nat \ {0}
  BY DEF Raise, TypeOK
<1>2. CASE Missing(pc)
  BY <1>1, <1>2 DEF Faultless
<1>3. CASE ~Missing(pc)
  <2>1. at <= Length(pc) /\ Bad(pc, at)
    BY <1>1, <1>3 DEF Usable
  <2>2. Length(pc) \in Nat
    BY <1>1, <1>3, LengthType
  <2>3. at \in 1..Length(pc)
    BY <1>1, <2>1, <2>2
  <2> QED
    BY <1>1, <2>1, <2>3 DEF Faultless
<1> QED
  BY <1>2, <1>3

\* A row that is left behind is good.
LEMMA GoodStep ==
    ASSUME TypeOK, docs \in Documents, PlaceOK, AtOK, PassedOK, GoodSoFar, [Next]_vars, pc' # "raised"
    PROVE  GoodSoFar'
<1>a. docs' = docs /\ pc # "raised" /\ at \in Nat \ {0}
  BY EachItsOwn DEF TypeOK
<1>b. \A stage, j : Bad(stage, j)' = Bad(stage, j)
  BY <1>a DEF Bad
<1>1. CASE EndLoop \/ BeginResolve \/ WeighCitation \/ BeginTable \/ ReadName \/ UNCHANGED vars
  <2>1. \A stage \in Stages : Behind(stage)' = Behind(stage)
    BY <1>1, <1>a, BehindKept
  <2> QED
    BY <1>a, <1>b, <2>1 DEF GoodSoFar
<1>2. CASE \/ IngestSpecs \/ IngestType \/ IngestLine \/ ReadHeader \/ SkipProcessor \/ EndResolve
           \/ EndTable \/ IngestNpu
  <2>1. PICK stage \in Stages :
           /\ Turn[pc] = Turn[stage] /\ Turn[pc'] = Turn[pc] /\ at' = at + 1
           /\ ~Bad(stage, at)
    <3>1. ASSUME NEW stage \in Stages, Iterate(stage)
          PROVE  /\ Turn[pc] = Turn[stage] /\ Turn[pc'] = Turn[pc] /\ at' = at + 1
                 /\ ~Bad(stage, at)
      BY <3>1 DEF Iterate, Running, Usable
    <3>2. CASE EndResolve
      <4>1. pc = "resolve" /\ pc' = "processors" /\ at' = at + 1 /\ "processors" \in Stages
        BY <3>2, StagesAre DEF EndResolve
      <4>2. ~Bad("processors", at)
        BY DEF Bad
      <4> QED
        BY <4>1, <4>2, TurnIs
    <3>3. CASE EndTable
      <4>1. pc = "names" /\ pc' = "tables" /\ at' = at + 1 /\ "tables" \in Stages
        BY <3>3, StagesAre DEF EndTable
      <4>2. ~Bad("tables", at)
        BY DEF Bad
      <4> QED
        BY <4>1, <4>2, TurnIs
    <3> QED
      BY <1>2, <3>1, <3>2, <3>3, StagesAre
      DEF IngestSpecs, IngestType, IngestLine, ReadHeader, SkipProcessor, IngestNpu
  <2>2. \A other \in Stages : Behind(other)' = IF other = stage THEN at ELSE Behind(other)
    BY <1>a, <2>1, BehindMoves
  <2>3. Behind(stage) = at - 1
    BY <2>1 DEF Behind
  <2>4. \A j \in 1..at : j \in 1..(at - 1) \/ j = at
    BY <1>a
  <2>5. \A j \in 1..at : ~Bad(stage, j)
    BY <1>a, <2>1, <2>3, <2>4 DEF GoodSoFar
  <2> QED
    BY <1>a, <1>b, <2>2, <2>5 DEF GoodSoFar
<1>3. CASE Raise
  BY <1>3 DEF Raise
<1> QED
  BY <1>1, <1>2, <1>3 DEF Next

\* Nothing starts again once an ingest has raised.
LEMMA RaisedStep ==
    ASSUME TypeOK, docs \in Documents, RaisedOK, [Next]_vars
    PROVE  RaisedOK'
<1> SUFFICES ASSUME pc' = "raised" PROVE ~Faultless'
  BY DEF RaisedOK
<1>1. Raise \/ UNCHANGED vars
  <2>1. CASE EndLoop
    BY <2>1, StagesAre DEF EndLoop
  <2>2. CASE IngestSpecs \/ IngestType \/ IngestLine \/ IngestNpu \/ ReadHeader \/ SkipProcessor
    BY <2>2, StagesAre
    DEF IngestSpecs, IngestType, IngestLine, IngestNpu, ReadHeader, SkipProcessor, Iterate, Running
  <2>3. CASE BeginResolve \/ WeighCitation \/ EndResolve \/ BeginTable \/ ReadName \/ EndTable
    BY <2>3 DEF BeginResolve, WeighCitation, EndResolve, BeginTable, ReadName, EndTable
  <2> QED
    BY <2>1, <2>2, <2>3 DEF Next
<1>2. docs' = docs /\ ~Faultless
  BY <1>1, RaiseHasACause DEF Raise, vars, RaisedOK
<1> QED
  BY <1>2 DEF Faultless, Missing, Bad, Length

\* At every moment the rows behind are good.
LEMMA FaultInvariance == Spec => []FaultInv
<1>1. Init => FaultInv
  <2> SUFFICES ASSUME Init PROVE FaultInv
    OBVIOUS
  <2>1. FullInv /\ pc = "specs"
    BY FullInit DEF Init
  <2>2. \A stage \in Stages : Behind(stage) = 0
    <3> SUFFICES ASSUME NEW stage \in Stages PROVE Behind(stage) = 0
      OBVIOUS
    <3>1. Turn["specs"] = 1 /\ Turn[stage] \in 1..6 /\ at = 1
      BY TurnIs DEF Init
    <3> QED
      BY <2>1, <3>1 DEF Behind
  <2>3. GoodSoFar
    BY <2>2 DEF GoodSoFar
  <2> QED
    BY <2>1, <2>3 DEF FaultInv, RaisedOK
<1>2. FaultInv /\ [Next]_vars => FaultInv'
  <2> SUFFICES ASSUME FaultInv, [Next]_vars PROVE FaultInv'
    OBVIOUS
  <2>1. FullInv /\ TypeOK /\ docs \in Documents /\ PlaceOK /\ AtOK /\ PassedOK /\ GoodSoFar /\ RaisedOK
    BY DEF FaultInv, FullInv, IInv
  <2>2. FullInv' /\ RaisedOK'
    BY <2>1, FullStep, RaisedStep
  <2>3. GoodSoFar'
    <3>1. CASE pc' = "raised"
      BY <3>1 DEF GoodSoFar
    <3>2. CASE pc' # "raised"
      BY <2>1, <3>2, GoodStep
    <3> QED
      BY <3>1, <3>2
  <2> QED
    BY <2>2, <2>3 DEF FaultInv
<1> QED
  BY <1>1, <1>2, PTL DEF Spec

\* For all documents, the five calls return only when none of the documents has
\* a fault, and one raises only when some has: nothing reaches the join from a
\* document that is read in part.
THEOREM AllOrNothingHolds == Spec => []AllOrNothing
<1>1. FaultInv => AllOrNothing
  <2> SUFFICES ASSUME FaultInv PROVE AllOrNothing
    OBVIOUS
  <2>1. PassedOK /\ GoodSoFar /\ RaisedOK
    BY DEF FaultInv, FullInv
  <2>2. ASSUME pc = "done" PROVE Faultless
    <3> SUFFICES ASSUME NEW stage \in Stages
                 PROVE  ~Missing(stage) /\ \A j \in 1..Length(stage) : ~Bad(stage, j)
      BY DEF Faultless
    <3>1. Turn["done"] = 7 /\ Turn[stage] \in 1..6
      BY TurnIs
    <3>2. ~Missing(stage)
      BY <2>1, <2>2, <3>1 DEF PassedOK
    <3>3. Behind(stage) = Length(stage)
      BY <2>2, <3>1 DEF Behind
    <3> QED
      BY <2>1, <2>2, <3>2, <3>3 DEF GoodSoFar
  <2> QED
    BY <2>1, <2>2 DEF AllOrNothing, RaisedOK
<1> QED
  BY <1>1, FaultInvariance, PTL

-----------------------------------------------------------------------------
(***************************************************************************)
(* The hand-over to CatalogJoin.                                           *)
(***************************************************************************)

\* The sets that CatalogJoin leaves open have what the documents can yield: a
\* cell for each verdict of a good row, and a row for each NPU.
JoinTakes ==
    /\ \A d \in Documents : NativeTables(d) # {} =>
          \A j \in 1..Len(TypeRows(d)) : ~BadTypeRow(TypeRows(d)[j]) =>
              \A supported \in BOOLEAN : <<KeyOf(TypeRows(d)[j]), supported>> \in Cell
    /\ NpuIdRow \subseteq NpuRow

\* A generation is a string: it is the title of a column.
LEMMA GenerationIsText ==
    ASSUME NEW d \in Documents, NativeTables(d) # {}, NEW g \in 1..Len(Generations)
    PROVE  Generations[g] \in STRING
<1> DEFINE t == FirstOf(NativeTables(d))
<1>1. t \in NativeTables(d)
  <2>1. Len(d.types) \in Nat /\ NativeTables(d) \in SUBSET (1..Len(d.types))
    BY DocTypes DEF NativeTables
  <2> QED
    BY <2>1, EndsType
<1>2. d.types[t] \in Table /\ d.types[t].header = NativeHeader
  <2>1. t \in 1..Len(d.types) /\ d.types[t].header = NativeHeader
    BY <1>1 DEF NativeTables
  <2> HIDE DEF t
  <2> QED
    BY <2>1, DocTypes, ElementOfSeq
<1>3. NativeHeader \in Seq(STRING)
  BY <1>2 DEF Table
<1>4. g + 1 \in 1..Len(NativeHeader) /\ NativeHeader[g + 1] = Generations[g]
  <2> DEFINE type == <<"HIP C++ Type">>
  <2>1. /\ NativeHeader = type \o Generations /\ Len(type) = 1 /\ Len(Generations) = 7
        /\ DOMAIN type = 1..1 /\ DOMAIN Generations = 1..7
    BY DEF NativeHeader, Generations
  <2> HIDE DEF type
  <2>2. type = [j \in 1..1 |-> type[j]] /\ Generations = [j \in 1..7 |-> Generations[j]]
    BY DEF type, Generations
  <2> DEFINE titles == {type[j] : j \in 1..1} \cup {Generations[j] : j \in 1..7}
  <2>3. type \in Seq(titles) /\ Generations \in Seq(titles)
    BY <2>2
  <2> HIDE DEF titles
  <2>4. /\ Len(type \o Generations) = Len(type) + Len(Generations)
        /\ \A i \in 1..(Len(type) + Len(Generations)) :
              (type \o Generations)[i] = IF i <= Len(type) THEN type[i] ELSE Generations[i - Len(type)]
    <3> DEFINE list == Generations
    <3>1. list \in Seq(titles)
      BY <2>3
    <3> HIDE DEF list
    <3>2. /\ Len(type \o list) = Len(type) + Len(list)
          /\ \A i \in 1..(Len(type) + Len(list)) :
                (type \o list)[i] = IF i <= Len(type) THEN type[i] ELSE list[i - Len(type)]
      BY <2>3, <3>1, ConcatProperties
    <3> QED
      BY <3>2 DEF list
  <2>5. g \in 1..7 /\ g + 1 \in 1..8 /\ ~(g + 1 <= 1) /\ (g + 1) - 1 = g
    BY <2>1
  <2>6. Len(NativeHeader) = 8
    BY <2>1, <2>4
  <2>7. NativeHeader[g + 1] = Generations[(g + 1) - 1]
    BY <2>1, <2>4, <2>5
  <2> QED
    BY <2>5, <2>6, <2>7
<1> QED
  BY <1>3, <1>4, ElementOfSeq

\* The verdicts of good rows are cells of the join, under their generation.
LEMMA PrecisionSuits ==
    ASSUME JoinTakes, FaultInv, pc = "done"
    PROVE  made.precision \in SUBSET (STRING \X Cell)
<1>1. docs \in Documents /\ PassedOK /\ SoFarOK /\ GoodSoFar
  BY DEF FaultInv, FullInv, IInv
<1>2. "types" \in Stages /\ Turn["done"] > Turn["types"]
  BY TurnIs, StagesAre
<1>3. NativeTables(docs) # {}
  BY <1>1, <1>2 DEF PassedOK, Missing
<1> DEFINE rows == TypeRows(docs)
<1>4. Behind("types") = Len(rows)
  BY <1>2, TurnIs DEF Behind, Length
<1>5. \A j \in 1..Len(rows) : ~BadTypeRow(rows[j])
  BY <1>1, <1>2, <1>4 DEF GoodSoFar, Bad
<1>6. ASSUME NEW g \in 1..Len(Generations), NEW j \in 1..Len(rows), g \in Covered(rows[j])
      PROVE  VerdictOf(g, j) \in STRING \X Cell
  <2>1. Generations[g] \in STRING
    BY <1>1, <1>3, GenerationIsText
  <2>2. SupportIcon[rows[j][g + 1].text] \in BOOLEAN
    <3>1. rows[j][g + 1].text \in DOMAIN SupportIcon
      BY <1>5, <1>6 DEF BadTypeRow
    <3> QED
      BY <3>1 DEF SupportIcon
  <2>3. <<KeyOf(rows[j]), SupportIcon[rows[j][g + 1].text]>> \in Cell
    BY <1>1, <1>3, <1>5, <2>2 DEF JoinTakes
  <2> QED
    BY <2>1, <2>3 DEF VerdictOf
<1>7. made.precision = Verdicts(Len(rows))
  BY <1>1, <1>4 DEF SoFarOK, PrecisionOK
<1>8. \A p \in Verdicts(Len(rows)) : \E g \in 1..Len(Generations), j \in 1..Len(rows) :
         g \in Covered(rows[j]) /\ p = VerdictOf(g, j)
  BY DEF Verdicts, Stands
<1> QED
  BY <1>6, <1>7, <1>8

\* A processor keeps what the join reads of its row.
LEMMA LlvmSuits ==
    ASSUME FaultInv, pc = "done"
    PROVE  Ingested.llvm \in Seq(LlvmRow)
<1>1. docs \in Documents /\ PassedOK /\ SoFarOK /\ made.llvm \in Seq(Processor)
  BY DEF FaultInv, FullInv, IInv, TypeOK, Made
<1>2. "processors" \in Stages /\ Turn["done"] > Turn["processors"]
  BY TurnIs, StagesAre
<1>3. ProcessorRows(docs) \in Seq(LlvmTableRow)
  BY <1>1, <1>2, RowsType DEF PassedOK, Missing
<1>4. Behind("processors") = Len(ProcessorRows(docs))
  BY <1>2, TurnIs DEF Behind, Length
<1>5. ASSUME NEW j \in 1..Len(made.llvm)
      PROVE  [gfx_target |-> ProcessorRows(docs)[made.llvm[j].at].target,
              generation |-> made.llvm[j].generation,
              subarch    |-> ProcessorRows(docs)[made.llvm[j].at].subarch] \in LlvmRow
  <2>1. made.llvm[j].at \in 1..Len(ProcessorRows(docs))
    BY <1>1, <1>4 DEF SoFarOK, LlvmOK, ProcessorsOf
  <2>2. ProcessorRows(docs)[made.llvm[j].at] \in LlvmTableRow
    BY <1>3, <2>1, ElementOfSeq
  <2>3. made.llvm[j] \in Processor
    BY <1>1, ElementOfSeq
  <2> QED
    BY <2>2, <2>3 DEF LlvmRow, LlvmTableRow, Processor
<1>6. Len(made.llvm) \in Nat
  BY <1>1
<1> QED
  BY <1>5, <1>6 DEF Ingested

\* For all documents, what the five calls return is a tuple of inputs that the
\* theorems about build_catalog() speak of.
THEOREM SuitsTheJoinHolds ==
    ASSUME JoinTakes
    PROVE  Spec => []SuitsTheJoin
<1>1. FaultInv => SuitsTheJoin
  <2> SUFFICES ASSUME FaultInv, pc = "done" PROVE Ingested \in SourceRecord
    BY DEF SuitsTheJoin
  <2>1. made \in Made
    BY DEF FaultInv, FullInv, IInv, TypeOK
  <2>2. /\ Ingested.parses = TRUE /\ Ingested.ids = made.ids /\ Ingested.precision = made.precision
        /\ Ingested.npus = made.npus /\ Ingested.notes = <<>>
        /\ Ingested.gpus = [j \in 1..Len(made.gpus) |-> made.gpus[j].row]
    BY DEF Ingested
  <2>3. Ingested.gpus \in Seq(GpuRow)
    <3>1. made.gpus \in Seq(GpuSpecs) /\ Len(made.gpus) \in Nat
      BY <2>1 DEF Made
    <3>2. \A j \in 1..Len(made.gpus) : made.gpus[j] \in GpuSpecs
      BY <3>1, ElementOfSeq
    <3>3. \A j \in 1..Len(made.gpus) : made.gpus[j].row \in GpuRow
      BY <3>2 DEF GpuSpecs
    <3> QED
      BY <2>2, <3>1, <3>3
  <2>4. Ingested.ids \in Seq(IdRow)
    BY <2>1, <2>2 DEF Made
  <2>5. Ingested.npus \in Seq(NpuRow)
    <3>1. made.npus \in Seq(NpuIdRow)
      BY <2>1 DEF Made
    <3>2. Len(made.npus) \in Nat /\ \A j \in 1..Len(made.npus) : made.npus[j] \in NpuRow
      BY <3>1, ElementOfSeq DEF JoinTakes
    <3>3. made.npus = [j \in 1..Len(made.npus) |-> made.npus[j]]
      BY <3>1
    <3> QED
      BY <2>2, <3>2, <3>3
  <2>6. Ingested.notes \in Seq(Note)
    BY <2>2
  <2>7. Ingested.precision \in SUBSET (STRING \X Cell) /\ Ingested.llvm \in Seq(LlvmRow)
    BY <2>2, PrecisionSuits, LlvmSuits
  <2>8. Ingested = [parses |-> Ingested.parses, gpus |-> Ingested.gpus, ids |-> Ingested.ids,
                    precision |-> Ingested.precision, llvm |-> Ingested.llvm, npus |-> Ingested.npus,
                    notes |-> Ingested.notes]
    BY DEF Ingested
  <2> QED
    BY <2>2, <2>3, <2>4, <2>5, <2>6, <2>7, <2>8 DEF SourceRecord
<1> QED
  BY <1>1, FaultInvariance, PTL

=============================================================================
