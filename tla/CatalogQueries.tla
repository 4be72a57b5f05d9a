---------------------------- MODULE CatalogQueries ----------------------------
(***************************************************************************)
(* Catalogs, questions about them, and the answers: the lookups as the     *)
(* Rust binding writes them, with iterators and without a loop.            *)
(***************************************************************************)
EXTENDS Naturals, Sequences, FiniteSets

CONSTANTS
    NONE,           \* a missing key, no question, no answer yet
    Id,             \* spellings of device and revision ids
    NormalizeHex,   \* strip and lower: the spelling each one is compared in
    Name,           \* products, gfx targets and generations
    SpecKey,        \* keys of specs
    SpecValue,      \* their values
    Text            \* catalogs to look things up in

Specs == UNION {[keys -> SpecValue] : keys \in SUBSET SpecKey}

GpuRow == [device_id : Id \cup {NONE}, product_name : Name, gfx_target : Name,
           generation : Name \cup {NONE}, specs : Specs]

NpuRow == [device_id : Id, revision_id : Id \cup {NONE}]

\* key is the <key> of a field "specs.<key>", NONE for any other field.
NoteRow == [device_id : Id, key : SpecKey \cup {NONE}, override : SpecValue \cup {NONE}]

\* What can be odd about a text: a GPU without specs, with null for them, or
\* without a generation; a memory model outside the enumeration; a precision
\* flag that is not a boolean; the token NaN, which json.dumps writes.
Flaw == {"noSpecs", "nullSpecs", "noGeneration", "otherMemoryModel", "numberAsFlag", "nan"}

TextRecord == [gpus : Seq(GpuRow), npus : Seq(NpuRow), notes : Seq(NoteRow), flaws : SUBSET Flaw]

ASSUME TextAssumption ==
    \A c \in Text :
        /\ c \in TextRecord
        /\ (\E i \in 1..Len(c.gpus) : c.gpus[i].generation = NONE) => "noGeneration" \in c.flaws
ASSUME NormalizeAssumption ==
    /\ NormalizeHex \in [Id -> Id]
    /\ \A id \in Id : NormalizeHex[NormalizeHex[id]] = NormalizeHex[id]
ASSUME MarksAssumption == NONE \notin Id /\ NONE \notin Name /\ NONE \notin SpecKey /\ NONE \notin SpecValue

-----------------------------------------------------------------------------
\* json.loads and the schema; json.loads takes NaN for a number, which the
\* schema then has nothing against.
SchemaRefuses == {"nullSpecs", "noGeneration", "otherMemoryModel", "numberAsFlag"}

SchemaAccepts(text) == text.flaws \cap SchemaRefuses = {}

\* A text that the schema accepts and that is JSON for other readers than
\* Python, too: one without the token NaN.
Readable(text) == SchemaAccepts(text) /\ "nan" \notin text.flaws

Same(id, other) == NormalizeHex[id] = NormalizeHex[other]

\* iter().filter(..).collect(): the positions of the rows kept, in their order.
InOrder(positions) ==
    CHOOSE s \in [1..Cardinality(positions) -> positions] :
        \A k, m \in 1..Cardinality(positions) : k < m => s[k] < s[m]

\* iter().find(..): the first of them, if there is one.
First(positions) ==
    IF positions = {} THEN <<>> ELSE <<CHOOSE i \in positions : \A k \in positions : i <= k>>

GpuByDeviceId(c, id) ==
    First({i \in 1..Len(c.gpus) : c.gpus[i].device_id # NONE /\ Same(c.gpus[i].device_id, id)})

GpusByGfxTarget(c, target) == InOrder({i \in 1..Len(c.gpus) : c.gpus[i].gfx_target = target})

GpusByGeneration(c, generation) == InOrder({i \in 1..Len(c.gpus) : c.gpus[i].generation = generation})

NpusByDeviceId(c, id) == InOrder({i \in 1..Len(c.npus) : Same(c.npus[i].device_id, id)})

NpuByDeviceIdAndRevision(c, id, revision) ==
    First({i \in 1..Len(c.npus) : /\ Same(c.npus[i].device_id, id)
                                  /\ c.npus[i].revision_id # NONE
                                  /\ Same(c.npus[i].revision_id, revision)})

NotesForDevice(c, id) == InOrder({i \in 1..Len(c.notes) : Same(c.notes[i].device_id, id)})

\* Every key that a note of the device overrides has the last such note's value.
Overriding(c, id, key) ==
    {j \in 1..Len(c.notes) :
        Same(c.notes[j].device_id, id) /\ c.notes[j].key = key /\ c.notes[j].override # NONE}

ApplyGpuOverrides(c, specs, id) ==
    LET overridden == {key \in SpecKey : Overriding(c, id, key) # {}}
        last(key) == CHOOSE j \in Overriding(c, id, key) :
                        \A m \in Overriding(c, id, key) : m <= j
    IN  [key \in DOMAIN specs \cup overridden |->
            IF key \in overridden THEN c.notes[last(key)].override ELSE specs[key]]

-----------------------------------------------------------------------------
\* A question is a verb, the id, target or generation asked for, and a revision.
\* The skill's command line can ask for None.
GpuVerbs == {"gpu", "resolve", "target", "generation"}
Verbs == GpuVerbs \cup {"npus", "npu", "notes"}

Question == [verb : Verbs, of : Id \cup Name \cup {NONE}, revision : Id \cup {NONE}]

PositionsOf(c, q) ==
    CASE q.verb \in {"gpu", "resolve"} -> GpuByDeviceId(c, q.of)
      [] q.verb = "target"     -> GpusByGfxTarget(c, q.of)
      [] q.verb = "generation" -> GpusByGeneration(c, q.of)
      [] q.verb = "npus"       -> NpusByDeviceId(c, q.of)
      [] q.verb = "npu"        -> NpuByDeviceIdAndRevision(c, q.of, q.revision)
      [] q.verb = "notes"      -> NotesForDevice(c, q.of)

\* An answer is a sequence of rows, each by its position, and a GPU's with the
\* specs that the caller sees in it.
SpecsOf(c, q, i) ==
    CASE q.verb = "resolve"               -> ApplyGpuOverrides(c, c.gpus[i].specs, q.of)
      [] q.verb \in GpuVerbs \ {"resolve"} -> c.gpus[i].specs
      [] OTHER                            -> <<>>

AnswerOf(c, q) ==
    LET positions == PositionsOf(c, q)
    IN  [k \in 1..Len(positions) |-> [row |-> positions[k], specs |-> SpecsOf(c, q, positions[k])]]

=============================================================================
