----------------------------- MODULE IngestInputs -----------------------------
(***************************************************************************)
(* The downloaded documents as the five ingests see them, row by row, and  *)
(* what the ingests make of one row.                                       *)
(*                                                                         *)
(* A constant function stands for each conversion of text to text: what    *)
(* its pattern does not match is outside its domain.                       *)
(***************************************************************************)
EXTENDS CatalogInputs

CONSTANTS
    Documents,    \* the tuples of documents to ingest
    LowerCase,    \* text of four hex digits |-> device id
    UpperCase,    \* revision as written |-> in capitals
    Slug,         \* column title |-> key of specs
    Numeric,      \* cells that int() or float() reads
    TypeKey,      \* _TYPE_KEY_MAP
    Modern,       \* "RDNA 4m" |-> "RDNA4m", for what _MODERN_GENERATION_RE matches
    HwGen,        \* dev_info symbol |-> hw_gen, for what _HW_GEN_RE matches
    TableName,    \* symbols of marketing-name tables
    OneCharacter  \* words of one letter or digit

\* One cell, as text and as the words that names are compared by.
TableCell == [text : STRING, words : Name]

\* within: the containers around the table, innermost first: the title of a
\* tab-item, NONE for a container of another kind.
Table == [within : Seq(STRING \cup {NONE}),
          header : Seq(STRING),
          rows   : Seq(Seq(TableCell))]

\* A line of amdgpu.ids with so many comma-separated fields.
Line == [comment : BOOLEAN, fields : Nat, device : STRING, revision : STRING, names : SUBSET Name]

\* A gfx number: its characters, in capitals.
Number == Seq(STRING)

\* A citation "AMD-GCN-GFX900-GFX904-VEGA" is one token for each gfx number in
\* it, with the rest as generation; one without a number has the number NONE.
Token == [number : Number \cup {NONE}, generation : STRING \cup {NONE}]

\* A row of LLVM's table: a family header when it has one cell, with the
\* citations and the first parenthesis of that cell; otherwise a processor,
\* whose number is NONE when its target does not start with "gfx".
LlvmTableRow == [header : BOOLEAN,
                 tokens : Seq(Token),
                 paren  : STRING \cup {NONE},
                 target : STRING,
                 number : Number \cup {NONE},
                 subarch : Seq(STRING) \cup {NONE}]

LlvmTable == [names : SUBSET STRING, rows : Seq(LlvmTableRow)]

\* The driver's sources: amdxdna_ids[], if it is found, and the definitions of
\* all register files in the order they are read.
Driver == [found  : BOOLEAN,
           ids    : Seq([device : STRING, revision : Nat, info : STRING]),  \* rows of _IDS_ROW_RE's shape
           infos  : Seq([info : STRING, table : TableName \cup {NONE}]),
           tables : Seq([name : TableName, names : Seq(Name)])]

Document == [specs : Seq(Table), types : Seq(Table), ids : Seq(Line), llvm : Seq(LlvmTable), driver : Driver]

ASSUME ConversionsAssumption ==
    /\ \A text \in DOMAIN LowerCase : LowerCase[text] \in DeviceId
    /\ \A text \in DOMAIN UpperCase : UpperCase[text] \in STRING
    /\ \A text \in DOMAIN TypeKey : TypeKey[text] \in STRING
    /\ \A text \in DOMAIN Modern : Modern[text] \in STRING
    /\ \A text \in DOMAIN HwGen : HwGen[text] \in STRING
ASSUME CellAssumption == NONE \notin TableCell
ASSUME DocumentsAssumption ==
    \A d \in Documents :
        /\ d \in Document
        /\ \A j \in 1..Len(d.ids) : d.ids[j].revision \in DOMAIN UpperCase
        /\ \A j \in 1..Len(d.driver.ids) : d.driver.ids[j].device \in DOMAIN LowerCase
        /\ \A t \in 1..Len(d.specs) : \A c \in 1..Len(d.specs[t].header) : d.specs[t].header[c] \in DOMAIN Slug

FirstOf(positions) == CHOOSE j \in positions : \A k \in positions : j <= k

-----------------------------------------------------------------------------
\* rst_tables.py and ingest_rocm_gpu_specs.py.

\* _enclosing_tab_item_title.
TabTitle(table) ==
    LET tabs == {k \in 1..Len(table.within) : table.within[k] # NONE}
    IN  IF tabs = {} THEN NONE ELSE table.within[FirstOf(tabs)]

UnifiedMemoryTabs == {"AMD Ryzen APUs"}

KnownTabs == {"AMD Instinct GPUs", "AMD Radeon PRO GPUs", "AMD Radeon GPUs"} \cup UnifiedMemoryTabs

TopLevelFields == {"Name", "Architecture", "LLVM target name", "Graphics model"}

\* Mutant: a row's last cell is left out.
ZippedShort(header, row) == {k \in 1..Len(header) : k < Len(row)}

\* The columns that zip(header, row) pairs with a cell.
Zipped(header, row) == {k \in 1..Len(header) : k <= Len(row)}

\* entry[field] = cell: the last column of that title wins.
Field(table, row, title) ==
    LET columns == {k \in Zipped(table.header, row) : table.header[k] = title}
    IN  IF columns = {} THEN NONE ELSE row[LastOf(columns)]

TextOf(cell) == IF cell = NONE THEN NONE ELSE cell.text
WordsOf(cell) == IF cell = NONE THEN NONE ELSE cell.words

SpecColumns(table, row) == {k \in Zipped(table.header, row) : table.header[k] \notin TopLevelFields}

\* _coerce_spec_value: a clean number becomes one, anything else stays text.
Coerce(cell) == [number |-> cell.text \in Numeric, text |-> cell.text]

Slugs == {Slug[title] : title \in DOMAIN Slug}

\* entry["specs"][slug] = cell: the last column of that slug wins.
SpecOf(table, row, slug) ==
    LET columns == {k \in SpecColumns(table, row) : Slug[table.header[k]] = slug}
    IN  IF columns = {} THEN NONE ELSE Coerce(row[LastOf(columns)])

\* _row_to_entry, with the place the row was read from.
RowToEntry(d, t, r) ==
    LET table == d.specs[t]
        row == table.rows[r]
    IN  [at  |-> <<t, r>>,
         row |-> [product_name   |-> WordsOf(Field(table, row, "Name")),
                  graphics_model |-> WordsOf(Field(table, row, "Graphics model")),
                  generation     |-> TextOf(Field(table, row, "Architecture")),
                  gfx_target     |-> TextOf(Field(table, row, "LLVM target name"))],
         specs |-> [slug \in Slugs |-> SpecOf(table, row, slug)],
         memory_model |-> IF TabTitle(table) \in UnifiedMemoryTabs THEN "unified" ELSE "dedicated"]

-----------------------------------------------------------------------------
\* ingest_rocm_precision_support.py.
Generations == <<"CDNA1", "CDNA2", "CDNA3", "CDNA4", "RDNA2", "RDNA3", "RDNA4">>

NativeHeader == <<"HIP C++ Type">> \o Generations

\* The first table with exactly that header, if there is one.
NativeTables(d) == {t \in 1..Len(d.types) : d.types[t].header = NativeHeader}

TypeRows(d) == d.types[FirstOf(NativeTables(d))].rows

SupportIcon == [icon \in {"yes", "no"} |-> icon = "yes"]

\* The generations that zip(GENERATIONS, cells) pairs with an icon.
Covered(row) == {g \in 1..Len(Generations) : g < Len(row)}

\* An unrecognised token is its own key.
KeyOf(row) == IF row[1].text \in DOMAIN TypeKey THEN TypeKey[row[1].text] ELSE row[1].text

BadTypeRow(row) == row = <<>> \/ \E g \in Covered(row) : row[g + 1].text \notin DOMAIN SupportIcon

-----------------------------------------------------------------------------
\* ingest_libdrm_amdgpu_ids.py.
SkippedLine(line) == line.comment \/ line.fields < 2

BadLine(line) == ~SkippedLine(line) /\ (line.fields # 3 \/ line.device \notin DOMAIN LowerCase)

-----------------------------------------------------------------------------
\* ingest_llvm_amdgpu_usage.py.
ProcessorTables(d) == {t \in 1..Len(d.llvm) : "amdgpu-processor-table" \in d.llvm[t].names}

ProcessorRows(d) == d.llvm[FirstOf(ProcessorTables(d))].rows

\* gfx_number.startswith(candidate)
StartsWith(number, candidate) ==
    Len(candidate) <= Len(number) /\ \A k \in 1..Len(candidate) : number[k] = candidate[k]

\* A citation that speaks of the number and names a generation.
Covers(token, number) ==
    token.number # NONE /\ token.generation # NONE /\ StartsWith(number, token.number)

\* _parenthetical_generation.
ParenGeneration(paren) == IF paren \in DOMAIN Modern THEN Modern[paren] ELSE NONE

-----------------------------------------------------------------------------
\* ingest_xdna_pciids.py.

\* _normalize_family_name: "NPU Krackan 1" is "Krackan".
StripNpu(name) == IF Len(name) > 1 /\ name[1] = "NPU" THEN DropFirst(1, name) ELSE name

StripSubRevision(name) ==
    IF Len(name) > 1 /\ name[Len(name)] \in OneCharacter THEN SubSeq(name, 1, Len(name) - 1) ELSE name

NormalizeFamily(name) == StripSubRevision(StripNpu(name))

\* _parse_dev_info_vbnv_refs: the last definition that has the field.
References(d, info) == {k \in 1..Len(d.driver.infos) : d.driver.infos[k].info = info /\ d.driver.infos[k].table # NONE}

TableOf(d, info) ==
    IF References(d, info) = {} THEN NONE ELSE d.driver.infos[LastOf(References(d, info))].table

NpuIdRow == [device_id : DeviceId, revision_id : Nat, hw_gen : STRING, family : Seq(Name) \cup {NONE}]

=============================================================================
