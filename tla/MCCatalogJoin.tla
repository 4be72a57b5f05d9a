---------------------------- MODULE MCCatalogJoin ----------------------------
(***************************************************************************)
(* Documents for TLC to build from.                                        *)
(***************************************************************************)
EXTENDS CatalogJoin, FiniteSets

\* All sequences over a set of at most so many elements.
SeqUpTo(S, max) == UNION {[1..k -> S] : k \in 0..max}

Base == [parses |-> TRUE, gpus |-> <<>>, ids |-> <<>>, precision |-> {}, llvm |-> <<>>,
         npus |-> <<>>, notes |-> <<>>]

Product(name, model, generation, target) ==
    [product_name |-> name, graphics_model |-> model, generation |-> generation, gfx_target |-> target]

Id(device, names) == [device_id |-> device, revision_id |-> "C1", names |-> names]

-----------------------------------------------------------------------------
\* Names that meet every branch of the normalisation, in one or two rows for
\* each of two device ids, against products matched by either column.
MI == <<"mi300x">>
VF == <<"amd", "instinct", "mi300x", "vf">>

IdRows ==
    {Id(d, names) : d \in DeviceId,
        names \in {{<<"amd", "instinct", "mi300x">>}, {<<"amd", "radeon", "instinct", "mi300x">>},
                   {VF}, {<<"amd", "instinct">>}, {<<"amd", "780m", "graphics">>},
                   {<<"amd", "mi60">>, <<"mi300x">>}}}

Products ==
    {Product(MI, NONE, "CDNA3", "gfx942"), Product(<<"mi300x", "vf">>, NONE, "CDNA3", "gfx942"),
     Product(<<"ryzen">>, <<"780m">>, "RDNA3", "gfx1103"), Product(<<"mi60">>, <<>>, "CDNA", "gfx906"),
     Product(NONE, MI, "CDNA3", "gfx942"), Product(NONE, <<>>, "CDNA3", "gfx942")}

MatchSources ==
    {[Base EXCEPT !.gpus = gpuRows, !.ids = idRows, !.parses = parses] :
        gpuRows \in SeqUpTo(Products, 2), idRows \in SeqUpTo(IdRows, 2), parses \in {TRUE}}
    \cup {[Base EXCEPT !.gpus = gpuRows, !.ids = idRows] :
        gpuRows \in {<<p>> : p \in Products}, idRows \in [1..3 -> IdRows]}
    \cup {[Base EXCEPT !.parses = FALSE]}

-----------------------------------------------------------------------------
\* Targets with no row, one row or two rows in LLVM's table, generations that
\* agree literally, by alias or not at all, and subarchs that parse or do not.
Targets == {"gfx908", "gfx90a"}

LlvmRows ==
    {[gfx_target |-> t, generation |-> g, subarch |-> s] :
        t \in Targets, g \in {NONE, "CDNA1", "CDNA2"}, s \in {NONE, <<"0", "a">>, <<"0">>}}

Gpus ==
    {Product(MI, NONE, g, t) : g \in {"CDNA", "CDNA1", "CDNA2", NONE}, t \in {"gfx908", NONE}}

LlvmSources ==
    {[Base EXCEPT !.gpus = gpuRows, !.llvm = llvmRows, !.precision = precision] :
        gpuRows \in SeqUpTo(Gpus, 2), llvmRows \in SeqUpTo(LlvmRows, 1), precision \in SUBSET ({"CDNA1"} \X Cell)}
    \cup {[Base EXCEPT !.gpus = <<p>>, !.llvm = llvmRows] : p \in Gpus, llvmRows \in [1..2 -> LlvmRows]}

MCSources == MatchSources \cup LlvmSources

=============================================================================
