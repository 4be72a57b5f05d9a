---------------------------- MODULE BindingLookup ----------------------------
(***************************************************************************)
(* The lookups as the Go and Python bindings and the skill's script run    *)
(* them: loops over one catalog that all callers share, answers that refer *)
(* to its entries, and, for resolve_gpu, an entry of the caller's own that *)
(* the notes overlay is written into.  The callers are threads.            *)
(***************************************************************************)
EXTENDS CatalogQueries

CONSTANTS
    RAISED,         \* the lookup raised
    Thread,         \* callers; one that asks again is another caller
    Asked           \* the questions they ask

Bindings == {"rust", "go", "python", "skill"}

ASSUME AskedAssumption == Asked \subseteq Question /\ NONE \notin Question
ASSUME ThreadAssumption == Thread \cap Nat = {} /\ NONE \notin Nat \cup Thread

VARIABLES
    text,       \* the catalog's text
    binding,    \* who reads it
    loaded,     \* "no", "yes" or "refused"
    heap,       \* specs objects: a GPU's, under its position, and each caller's own
    question,   \* per caller, its question: NONE before
    answer,     \* per caller, the answer to it: NONE before
    pc,         \* per caller, the loop it is in
    at,         \* per caller, the position of that loop
    hits        \* per caller, the rows found so far and the specs each refers to

vars == <<text, binding, loaded, heap, question, answer, pc, at, hits>>

Own == Thread

Reference == Nat \cup Own \cup {NONE}

Found == Seq([row : Nat, specs : Reference])

\* No mark is an answer, or what a caller sees of one.
ASSUME AnswerMarksAssumption ==
    /\ NONE # RAISED
    /\ \A mark \in {NONE, RAISED} : mark \notin Found /\ mark \notin Seq([row : Nat, specs : Specs])

TypeOK ==
    /\ text \in TextRecord
    /\ binding \in Bindings
    /\ loaded \in {"no", "yes", "refused"}
    /\ heap \in [(1..Len(text.gpus)) \cup Own -> Specs]
    /\ question \in [Thread -> Question \cup {NONE}]
    /\ answer \in [Thread -> Found \cup {NONE, RAISED}]
    /\ pc \in [Thread -> {"idle", "scan", "overlay"}]
    /\ at \in [Thread -> Nat \ {0}]
    /\ hits \in [Thread -> Found]

Init ==
    /\ text \in Text
    /\ binding \in Bindings
    /\ loaded = "no"
    /\ heap = [r \in (1..Len(text.gpus)) \cup Own |-> IF r \in Own THEN <<>> ELSE text.gpus[r].specs]
    /\ question = [t \in Thread |-> NONE]
    /\ answer = [t \in Thread |-> NONE]
    /\ pc = [t \in Thread |-> "idle"]
    /\ at = [t \in Thread |-> 1]
    /\ hits = [t \in Thread |-> <<>>]

-----------------------------------------------------------------------------
\* serde: no missing field, no other variant, a default only for an absent key.
RustRefuses == {"nullSpecs", "noGeneration", "otherMemoryModel", "numberAsFlag", "nan"}

\* encoding/json: a missing field is its zero value, MemoryModel any string and
\* null no map; a value of another type is an error, and so is NaN.
GoRefuses == {"numberAsFlag", "nan"}

\* data[..] and the enumeration's constructor raise; the flags are not looked at.
PythonRefuses == {"noGeneration", "otherMemoryModel"}

\* json.loads alone.
SkillRefuses == {}

Refuses ==
    [rust |-> RustRefuses, go |-> GoRefuses, python |-> PythonRefuses, skill |-> SkillRefuses]

\* from_json.
Load ==
    /\ loaded = "no"
    /\ loaded' = IF text.flaws \cap Refuses[binding] = {} THEN "yes" ELSE "refused"
    /\ UNCHANGED <<text, binding, heap, question, answer, pc, at, hits>>

-----------------------------------------------------------------------------
Ask(t, q) ==
    /\ loaded = "yes"
    /\ question[t] = NONE
    /\ question' = [question EXCEPT ![t] = q]
    /\ pc' = [pc EXCEPT ![t] = "scan"]
    /\ UNCHANGED <<text, binding, loaded, heap, answer, at, hits>>

\* The list that the loop of a verb goes over.
Rows(verb) ==
    CASE verb \in GpuVerbs        -> text.gpus
      [] verb \in {"npus", "npu"} -> text.npus
      [] verb = "notes"           -> text.notes

Row(t) == Rows(question[t].verb)[at[t]]

\* The test of the loop.  (In Go a generation that is missing is "", which
\* nobody asks for.)
Hit(q, row) ==
    CASE q.verb \in {"gpu", "resolve"}  -> row.device_id # NONE /\ Same(row.device_id, q.of)
      [] q.verb = "target"              -> row.gfx_target = q.of
      [] q.verb = "generation"          -> row.generation = q.of
      [] q.verb \in {"npus", "notes"}   -> Same(row.device_id, q.of)
      [] q.verb = "npu"                 -> /\ Same(row.device_id, q.of)
                                           /\ row.revision_id # NONE
                                           /\ Same(row.revision_id, q.revision)

\* The row at hand, as an answer refers to it.
This(t) ==
    [row   |-> at[t],
     specs |-> IF question[t].verb \in GpuVerbs THEN at[t] ELSE NONE]

Scanning(t) == pc[t] = "scan" /\ at[t] <= Len(Rows(question[t].verb))

\* g["generation"] of an entry without one.
Missing(t) ==
    binding = "skill" /\ question[t].verb = "generation" /\ Row(t).generation = NONE

Return(t, value) ==
    /\ answer' = [answer EXCEPT ![t] = value]
    /\ pc' = [pc EXCEPT ![t] = "idle"]
    /\ UNCHANGED <<text, binding, loaded, question>>

Raise(t) ==
    /\ Scanning(t)
    /\ Missing(t)
    /\ Return(t, RAISED)
    /\ UNCHANGED <<heap, at, hits>>

Advance(t) ==
    /\ at' = [at EXCEPT ![t] = @ + 1]
    /\ UNCHANGED <<text, binding, loaded, question, answer, pc>>

Pass(t) ==
    /\ Scanning(t)
    /\ ~Missing(t)
    /\ ~Hit(question[t], Row(t))
    /\ Advance(t)
    /\ UNCHANGED <<heap, hits>>

\* append(result, ..): the lookups that list.
Collect(t) ==
    /\ Scanning(t)
    /\ question[t].verb \in {"target", "generation", "npus", "notes"}
    /\ ~Missing(t)
    /\ Hit(question[t], Row(t))
    /\ hits' = [hits EXCEPT ![t] = Append(@, This(t))]
    /\ Advance(t)
    /\ UNCHANGED heap

\* The lookups that return from inside the loop.
Stop(t) ==
    /\ Scanning(t)
    /\ question[t].verb \in {"gpu", "npu"}
    /\ Hit(question[t], Row(t))
    /\ Return(t, <<This(t)>>)
    /\ UNCHANGED <<heap, at, hits>>

Exhausted(t) ==
    /\ pc[t] = "scan"
    /\ at[t] > Len(Rows(question[t].verb))
    /\ Return(t, hits[t])
    /\ UNCHANGED <<heap, at, hits>>

\* Mutant: resolve_gpu overlays the entry it found.
CopyEntryAliases(t) ==
    /\ Scanning(t)
    /\ question[t].verb = "resolve"
    /\ Hit(question[t], Row(t))
    /\ hits' = [hits EXCEPT ![t] = <<This(t)>>]
    /\ pc' = [pc EXCEPT ![t] = "overlay"]
    /\ at' = [at EXCEPT ![t] = 1]
    /\ UNCHANGED <<text, binding, loaded, heap, question, answer>>

\* resolve_gpu's copy of the entry, with a specs map of its own.
CopyEntry(t) ==
    /\ Scanning(t)
    /\ question[t].verb = "resolve"
    /\ Hit(question[t], Row(t))
    /\ heap' = [heap EXCEPT ![t] = heap[at[t]]]
    /\ hits' = [hits EXCEPT ![t] = <<[row |-> at[t], specs |-> t]>>]
    /\ pc' = [pc EXCEPT ![t] = "overlay"]
    /\ at' = [at EXCEPT ![t] = 1]
    /\ UNCHANGED <<text, binding, loaded, question, answer>>

Overlaying(t) == pc[t] = "overlay" /\ at[t] <= Len(text.notes)

\* specs[key] = value, for a key that may be new.
Assign(specs, key, value) ==
    [k \in DOMAIN specs \cup {key} |-> IF k = key THEN value ELSE specs[k]]

\* Mutant: a note without an override overwrites the value with nothing.
OverlayNoteUnchecked(t) ==
    /\ Overlaying(t)
    /\ LET note == text.notes[at[t]]
           own == hits[t][1].specs
       IN  heap' = IF Same(note.device_id, question[t].of) /\ note.key # NONE
                     THEN [heap EXCEPT ![own] = Assign(@, note.key, note.override)]
                     ELSE heap
    /\ Advance(t)
    /\ UNCHANGED hits

\* Mutant: a key that has been overridden, or had a value, keeps it.
OverlayNoteKeeps(t) ==
    /\ Overlaying(t)
    /\ LET note == text.notes[at[t]]
           own == hits[t][1].specs
       IN  heap' = IF /\ Same(note.device_id, question[t].of)
                      /\ note.override # NONE
                      /\ note.key \notin DOMAIN heap[own] \cup {NONE}
                     THEN [heap EXCEPT ![own] = Assign(@, note.key, note.override)]
                     ELSE heap
    /\ Advance(t)
    /\ UNCHANGED hits

\* notes_for_device's test and the body of apply_gpu_overrides.
OverlayNote(t) ==
    /\ Overlaying(t)
    /\ LET note == text.notes[at[t]]
           own == hits[t][1].specs
       IN  heap' = IF /\ Same(note.device_id, question[t].of)
                      /\ note.override # NONE
                      /\ note.key # NONE
                     THEN [heap EXCEPT ![own] = Assign(@, note.key, note.override)]
                     ELSE heap
    /\ Advance(t)
    /\ UNCHANGED hits

Overlaid(t) ==
    /\ pc[t] = "overlay"
    /\ at[t] > Len(text.notes)
    /\ Return(t, hits[t])
    /\ UNCHANGED <<heap, at, hits>>

\* A caller writes into the specs of an entry that resolve_gpu gave it, which
\* the binding calls a copy.  (No caller writes into a raw entry, which Go and
\* Python hand out by reference.)
Scribble(t, key, value) ==
    /\ pc[t] = "idle"
    /\ question[t] # NONE
    /\ question[t].verb = "resolve"
    /\ answer[t] # <<>>
    /\ LET own == answer[t][1].specs
       IN  /\ key \in DOMAIN heap[own]
           /\ heap' = [heap EXCEPT ![own][key] = value]
    /\ UNCHANGED <<text, binding, loaded, question, answer, pc, at, hits>>

Step(t) ==
    \/ Raise(t) \/ Pass(t) \/ Collect(t) \/ Stop(t) \/ Exhausted(t)
    \/ CopyEntry(t) \/ OverlayNote(t) \/ Overlaid(t)

Next ==
    \/ Load
    \/ \E t \in Thread :
          \/ \E q \in Asked : Ask(t, q)
          \/ Step(t)
          \/ \E key \in SpecKey, value \in SpecValue : Scribble(t, key, value)

Spec == Init /\ [][Next]_vars

-----------------------------------------------------------------------------
\* An answer with the specs its caller sees: what each row refers to.
Seen(value) ==
    IF value \in {NONE, RAISED}
      THEN value
      ELSE [k \in 1..Len(value) |->
              [row |-> value[k].row, specs |-> IF value[k].specs = NONE THEN <<>> ELSE heap[value[k].specs]]]

Promise == INSTANCE LookupReference
             WITH refused <- (loaded = "refused"), answer <- [t \in Thread |-> Seen(answer[t])]

\* In every binding and under every interleaving, an answer is what the Rust
\* iterators give for that question; it changes only when its own caller
\* writes into it; no lookup raises on a text that the schema accepts; and none
\* of those texts is refused, unless it has NaN: the schema accepts that, and
\* Rust and Go refuse it.
KeepsPromise == Promise!Init /\ [][Promise!Next]_Promise!vars

\* "Raw lookup (no overlay) must be unaffected": no overlay, and no caller's
\* write into a resolved entry, reaches the catalog that all callers share.
SourceUntouched == \A i \in 1..Len(text.gpus) : heap[i] = text.gpus[i].specs

\* PRD.md:215 has the bindings look up by device_id, "+ revision where the
\* device ID alone is ambiguous": an entry found is the only product of its id.
NamesOneProduct ==
    \A t \in Thread :
        (/\ question[t] # NONE
         /\ question[t].verb \in {"gpu", "resolve"}
         /\ answer[t] \notin {NONE, RAISED, <<>>}) =>
            \A i, j \in 1..Len(text.gpus) :
                (/\ text.gpus[i].device_id # NONE /\ text.gpus[j].device_id # NONE
                 /\ Same(text.gpus[i].device_id, question[t].of)
                 /\ Same(text.gpus[j].device_id, question[t].of))
                => text.gpus[i].product_name = text.gpus[j].product_name

=============================================================================
