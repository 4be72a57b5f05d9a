------------------------------- MODULE MCIngest -------------------------------
(***************************************************************************)
(* Documents for TLC to ingest: one of the five is varied, the others are  *)
(* small and good.                                                         *)
(***************************************************************************)
EXTENDS Ingest

Pairs(S) == {<<x, y>> : x \in S, y \in S}
UpToOne(S) == {<<>>} \cup {<<x>> : x \in S}
UpToTwo(S) == UpToOne(S) \cup Pairs(S)

MCLowerCase == [text \in {"73BF", "73bf", "744C"} |-> IF text = "744C" THEN "744c" ELSE "73bf"]
MCUpperCase == [text \in {"c1", "C1"} |-> "C1"]
MCSlug == [title \in TopLevelFields \cup {"VRAM (GiB)", "VRAM, GiB", "Compute units"} |->
             IF title \in {"VRAM (GiB)", "VRAM, GiB"} THEN "vram_gib" ELSE title]
MCTypeKey == [text \in {"half", "__half"} |-> "float16"]
MCModern == [text \in {"RDNA 4m"} |-> "RDNA4m"]
MCHwGen == [symbol \in {"dev_npu4_info", "dev_npu5_info"} |->
              IF symbol = "dev_npu4_info" THEN "NPU4" ELSE "NPU5"]
MCNpuRow == [device_id : DeviceId, revision_id : Nat, hw_gen : STRING, family : Seq(Name) \cup {NONE}]
MCCell == {"float16", "int9_t"} \X BOOLEAN

-----------------------------------------------------------------------------
Text(text) == [text |-> text, words |-> <<text>>]

SpecsTable(within, header, rows) == [within |-> within, header |-> header, rows |-> rows]

\* Rows shorter and longer than the header, columns that share a slug or are
\* absent, tabs that are known, unknown, nested or not there.
SpecsTables ==
    {SpecsTable(within, header, rows) :
        within \in {<<"AMD Ryzen APUs">>, <<NONE, "AMD Radeon GPUs">>, <<"Preview">>, <<>>},
        header \in {<<"Name", "VRAM (GiB)", "VRAM, GiB">>, <<"Architecture", "Name", "Compute units">>},
        rows \in UpToTwo({<<Text("a"), Text("32")>>, <<Text("b"), Text("32"), Text("48 (x2)")>>,
                          <<Text("a"), Text("c"), Text("32"), Text("64")>>})}

FewSpecsTables == {table \in SpecsTables : Len(table.rows) = 1 /\ Len(table.within) = 1}

SpecsDocs == UpToOne(SpecsTables) \cup Pairs(FewSpecsTables)

-----------------------------------------------------------------------------
TypeRow(type, icons) == <<Text(type)>> \o [g \in 1..Len(icons) |-> Text(icons[g])]

Full(icon, second) == <<icon, second, icon, icon, icon, icon, icon>>

Icons == {Full("yes", "yes"), Full("yes", "no"), <<"no", "yes">>, Full("no", "no") \o <<"?">>, <<"yes", "?">>, <<>>}

TypesTables ==
    {SpecsTable(<<>>, <<"Type">>, <<>>)}
    \cup {SpecsTable(<<>>, NativeHeader, rows) :
        rows \in UpToTwo({TypeRow(type, icons) : type \in {"half", "__half", "int9_t"}, icons \in Icons})}

GoodTypes == SpecsTable(<<>>, NativeHeader, <<TypeRow("half", Full("yes", "yes"))>>)

TypesDocs ==
    UpToOne(TypesTables)
    \cup {<<SpecsTable(<<>>, <<"Type">>, <<>>), GoodTypes>>, <<GoodTypes, SpecsTable(<<>>, NativeHeader, <<>>)>>}

-----------------------------------------------------------------------------
Lines ==
    {[comment |-> comment, fields |-> fields, device |-> device, revision |-> "c1", names |-> {<<"amd", "x">>}] :
        comment \in BOOLEAN, fields \in 1..4, device \in {"73BF", "744C", "73G"}}

-----------------------------------------------------------------------------
\* Citations that are exact, shorter, for another number, of equal length,
\* without a number or without a generation; targets with letters.
Citation(number, generation) == [number |-> number, generation |-> generation]

Citations ==
    {Citation(<<"9">>, "VEGA"), Citation(<<"9", "0">>, NONE), Citation(<<"9", "0", "8">>, "CDNA1"),
     Citation(<<"9", "0", "8">>, "OTHER"), Citation(<<"9", "0", "A">>, "CDNA2"), Citation(NONE, "ISA")}

Header(tokens, paren) ==
    [header |-> TRUE, tokens |-> tokens, paren |-> paren, target |-> "", number |-> NONE, subarch |-> NONE]

Target(target, number) ==
    [header |-> FALSE, tokens |-> <<>>, paren |-> NONE, target |-> target, number |-> number, subarch |-> <<"0", "a">>]

Headers == {Header(tokens, paren) : tokens \in UpToTwo(Citations), paren \in {NONE, "Vega", "RDNA 4m"}}
ShortHeaders == {header \in Headers : Len(header.tokens) <= 1}
LongHeaders == {Header(tokens, NONE) : tokens \in {<<x, y, z>> : x \in Citations, y \in Citations, z \in Citations}}

Targets ==
    {Target("gfx908", <<"9", "0", "8">>), Target("gfx90a", <<"9", "0", "A">>), Target("r600", NONE), Target("", NONE)}

LlvmRowLists ==
    UpToTwo(Targets)
    \cup {<<header, target>> : header \in Headers \cup LongHeaders, target \in Targets}
    \cup {<<first, Target("gfx90a", <<"9", "0", "A">>), second, Target("gfx908", <<"9", "0", "8">>)>> :
            first \in ShortHeaders, second \in ShortHeaders}

LlvmDocs ==
    {<<[names |-> {"amdgpu-processor-table"}, rows |-> rows]>> : rows \in LlvmRowLists}
    \cup {<<>>, <<[names |-> {"other"}, rows |-> <<>>], [names |-> {"amdgpu-processor-table"}, rows |-> <<>>]>>}

-----------------------------------------------------------------------------
\* One or two tables of one or two symbols, a dev_info with and without a
\* reference, defined once or twice.
Names == {<<"NPU", "Krackan", "1">>, <<"NPU", "Krackan">>, <<"Strix", "Halo">>, <<"NPU">>}

NameTables == {[name |-> name, names |-> names_] : name \in TableName, names_ \in UpToTwo(Names)}

Infos == {[info |-> info, table |-> table] : info \in DOMAIN MCHwGen, table \in TableName \cup {NONE}}

FewNameTables == {table \in NameTables : table.names \in {<<>>, <<<<"NPU", "Krackan", "1">>, <<"NPU">>>>, <<<<"Strix", "Halo">>>>}}

Npu4 == [device |-> "73BF", revision |-> 16, info |-> "dev_npu4_info"]
Npu5 == [device |-> "73BF", revision |-> 17, info |-> "dev_npu5_info"]
Vf == [device |-> "744C", revision |-> 16, info |-> "vf_info"]

DriverOf(ids, infos, tables) == [found |-> TRUE, ids |-> ids, infos |-> infos, tables |-> tables]

Drivers ==
    {DriverOf(<<Npu4>>, infos, tables) : infos \in UpToOne(Infos), tables \in UpToOne(NameTables)}
    \cup {DriverOf(<<Npu4>>, infos, tables) : infos \in Pairs(Infos), tables \in UpToOne(FewNameTables)}
    \cup {DriverOf(ids, <<info>>, tables) :
            ids \in {<<Npu4, Npu5>>, <<Npu5, Vf>>}, info \in Infos, tables \in Pairs(FewNameTables)}
    \cup {[found |-> FALSE, ids |-> <<>>, infos |-> <<>>, tables |-> <<>>]}

-----------------------------------------------------------------------------
Good == [specs |-> <<>>, types |-> <<GoodTypes>>, ids |-> <<>>,
         llvm |-> <<[names |-> {"amdgpu-processor-table"}, rows |-> <<>>]>>,
         driver |-> [found |-> TRUE, ids |-> <<>>, infos |-> <<>>, tables |-> <<>>]]

MCDocuments ==
    {[Good EXCEPT !.specs = specs] : specs \in SpecsDocs}
    \cup {[Good EXCEPT !.types = types] : types \in TypesDocs}
    \cup {[Good EXCEPT !.ids = ids] : ids \in UpToTwo(Lines)}
    \cup {[Good EXCEPT !.llvm = llvm] : llvm \in LlvmDocs}
    \cup {[Good EXCEPT !.driver = driver] : driver \in Drivers}

=============================================================================
