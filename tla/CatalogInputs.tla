---------------------------- MODULE CatalogInputs ----------------------------
(***************************************************************************)
(* What the five ingests hand to build_catalog(), and the helpers that its *)
(* joins and the reference specification share.                            *)
(***************************************************************************)
EXTENDS NameMatch

CONSTANTS
    NONE,        \* a missing dictionary key, or None
    DeviceId,    \* lower-case PCI device ids
    Cell,        \* cells of a precision block: <<HIP type, supported?>>
    NpuRow,      \* rows of the xdna-driver's PCI table
    Note,        \* entries of catalog/notes.json
    Sources      \* the tuples of ingested documents to build from

\* One row of gpu-specs.rst.  A column absent from its table is NONE.
GpuRow == [product_name   : Name \cup {NONE},
           graphics_model : Name \cup {NONE},
           generation     : STRING \cup {NONE},
           gfx_target     : STRING \cup {NONE}]

\* One row of amdgpu.ids; names holds the parts of "MI60 / MI50".
IdRow == [device_id : DeviceId, revision_id : STRING, names : SUBSET Name]

\* One row of LLVM's processor table.  subarch holds the characters after the
\* dot of "amdgpu<major>.", <<>> for a string of any other shape.
LlvmRow == [gfx_target : STRING,
            generation : STRING \cup {NONE},
            subarch    : Seq(STRING) \cup {NONE}]

\* precision relates a generation to the cells of its block; parses is FALSE
\* when one of the five ingests raises.
SourceRecord == [parses    : BOOLEAN,
                 gpus      : Seq(GpuRow),
                 ids       : Seq(IdRow),
                 precision : SUBSET (STRING \X Cell),
                 llvm      : Seq(LlvmRow),
                 npus      : Seq(NpuRow),
                 notes     : Seq(Note)]

ASSUME SourcesAssumption == Sources \subseteq SourceRecord
ASSUME NoneAssumption == NONE \notin DeviceId /\ NONE \notin STRING /\ NONE \notin Name

-----------------------------------------------------------------------------
\* _GENERATION_ALIASES.get(generation, generation)
Alias(generation) == IF generation = "CDNA" THEN "CDNA1" ELSE generation

\* entry.get("graphics_model") or entry["product_name"]
CandidateName(row) ==
    IF row.graphics_model \in {NONE, <<>>} THEN row.product_name ELSE row.graphics_model

\* Mutant: the generation is looked up as gpu-specs.rst spells it.
PrecisionBlockUnaliased(s, generation) == {cell \in Cell : <<generation, cell>> \in s.precision}

\* precision_by_generation.get(...): the empty block for an unknown
\* generation, which the code's truth test does not tell from a missing one.
PrecisionBlock(s, generation) ==
    {cell \in Cell : <<Alias(generation), cell>> \in s.precision}

\* The positions of LLVM's rows for a target.  A dictionary built from the
\* rows keeps the last of them.
LlvmRowsOf(s, target) == {j \in 1..Len(s.llvm) : s.llvm[j].gfx_target = target}

LastOf(positions) == CHOOSE j \in positions : \A k \in positions : k <= j

LlvmRowOf(s, target) == s.llvm[LastOf(LlvmRowsOf(s, target))]

\* LLVM knows the target, and its row has a subarch.
HasSubarch(s, target) ==
    /\ LlvmRowsOf(s, target) # {}
    /\ LlvmRowOf(s, target).subarch # NONE

\* LLVM knows the target, resolves its generation, and to another one.
Mismatch(s, target, generation) ==
    /\ LlvmRowsOf(s, target) # {}
    /\ LlvmRowOf(s, target).generation # NONE
    /\ Alias(generation) # Alias(LlvmRowOf(s, target).generation)

\* stepping_from_subarch: the second of exactly two characters after the dot.
Stepping(subarch) == IF Len(subarch) = 2 THEN subarch[2] ELSE NONE

=============================================================================
