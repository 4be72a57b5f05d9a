--------------------------- MODULE MCBindingLookup ---------------------------
(***************************************************************************)
(* Catalogs of two products that share a device id under two spellings,    *)
(* notes that override, annotate and override again, and every flaw.       *)
(***************************************************************************)
EXTENDS BindingLookup

CONSTANTS sourced, first, second

MCId == {"744c", "744C", "17f0", ""}
MCNormalizeHex == [id \in MCId |-> IF id = "744C" THEN "744c" ELSE id]
MCName == {"XTX", "XT", "gfx1100", "RDNA3", ""}

Gpu(id, name, generation, specs) ==
    [device_id |-> id, product_name |-> name, gfx_target |-> "gfx1100", generation |-> generation,
     specs |-> specs]

Npu(id, revision) == [device_id |-> id, revision_id |-> revision]
Note(id, key, override) == [device_id |-> id, key |-> key, override |-> override]

Unset == NONE
Vram == [k \in {"vram"} |-> sourced]

Shared(generation) ==
    <<Gpu("744c", "XTX", generation, <<>>), Gpu("744C", "XT", "RDNA3", Vram)>>

GpuLists == {Shared("RDNA3"), <<Gpu(Unset, "XT", "RDNA3", Vram), Gpu("744C", "XTX", "RDNA3", Vram)>>}

NoteLists ==
    {<<>>,
     <<Note("744c", "vram", first), Note("744C", "vram", NONE)>>,
     <<Note("744C", "vram", first), Note("744c", "vram", second)>>,
     <<Note("17f0", "vram", first), Note("744c", NONE, first)>>}

Npus == <<Npu("17f0", NONE), Npu("17f0", "744c"), Npu("17f0", "744C")>>

MCTextWith(gpus, notes, flaws) == [gpus |-> gpus, npus |-> Npus, notes |-> notes, flaws |-> flaws]

Flawless == {MCTextWith(gpus, notes, {}) : gpus \in GpuLists, notes \in NoteLists}

MCText ==
    Flawless
    \cup {MCTextWith(Shared("RDNA3"), <<>>, {flaw}) : flaw \in Flaw \ {"noGeneration"}}
    \cup {MCTextWith(Shared(NONE), <<>>, {"noGeneration"})}

Ask1(verb, of) == [verb |-> verb, of |-> of, revision |-> NONE]

MCAsked ==
    {Ask1("gpu", "744c"), Ask1("resolve", "744C"), Ask1("resolve", "17f0"),
     Ask1("target", "gfx1100"), Ask1("generation", "RDNA3"), Ask1("npus", "17f0"),
     Ask1("notes", "744c"), [verb |-> "npu", of |-> "17f0", revision |-> "744C"]}

=============================================================================
