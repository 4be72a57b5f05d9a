---------------------------- MODULE SnapshotSync ----------------------------
(***************************************************************************)
(* The copies of catalog.json that the repository commits: the canonical   *)
(* one (which Python and Rust read), the skill's, resynced by              *)
(* sync_catalog_snapshot.sh, and the Go module's, resynced by go generate. *)
(* Contributors regenerate and resync on branches of their own, CI tests a *)
(* branch merged with the main of that moment, and main goes on meanwhile. *)
(***************************************************************************)
EXTENDS Naturals

CONSTANTS
    Branch,       \* the contributors' branches
    MaxBuilds,    \* bound on the catalogs ever built
    MaxEdits      \* bound on the edits of notes.json

ASSUME BoundsAssumption == MaxBuilds \in Nat /\ MaxEdits \in Nat

\* What a build can leave behind: a catalog that the schema accepts, one that
\* it does not (build_catalog never asks), or a file cut short.
Kind == {"valid", "invalid", "torn"}

Catalog == [build : 0..MaxBuilds, kind : Kind, notes : 0..MaxEdits]

Tree == [canonical : Catalog, skill : Catalog, go : Catalog, notes : 0..MaxEdits]

VARIABLES
    main,      \* the tree of the main branch
    base,      \* per branch, the tree of main it started from
    work,      \* per branch, its own tree
    green,     \* per branch, whether CI passed since it last changed
    built,     \* catalogs built so far
    edited     \* edits of notes.json so far

vars == <<main, base, work, green, built, edited>>

TypeOK ==
    /\ main \in Tree
    /\ base \in [Branch -> Tree]
    /\ work \in [Branch -> Tree]
    /\ green \in [Branch -> BOOLEAN]
    /\ built \in 0..MaxBuilds
    /\ edited \in 0..MaxEdits

First == [build |-> 0, kind |-> "valid", notes |-> 0]

InSync(catalog) == [canonical |-> catalog, skill |-> catalog, go |-> catalog, notes |-> catalog.notes]

Init ==
    /\ main = InSync(First)
    /\ base = [b \in Branch |-> main]
    /\ work = [b \in Branch |-> main]
    /\ green = [b \in Branch |-> FALSE]
    /\ built = 0
    /\ edited = 0

-----------------------------------------------------------------------------
Fork(b) ==
    /\ base' = [base EXCEPT ![b] = main]
    /\ work' = [work EXCEPT ![b] = main]
    /\ green' = [green EXCEPT ![b] = FALSE]
    /\ UNCHANGED <<main, built, edited>>

\* A commit on the branch: CI has not seen it.
Commit(b, tree) ==
    /\ work' = [work EXCEPT ![b] = tree]
    /\ green' = [green EXCEPT ![b] = FALSE]
    /\ UNCHANGED <<main, base>>

\* python -m tools.catalog_build.build_catalog
Regenerate(b) ==
    /\ built < MaxBuilds
    /\ built' = built + 1
    /\ \E kind \in Kind :
          Commit(b, [work[b] EXCEPT
                        !.canonical = [build |-> built', kind |-> kind, notes |-> work[b].notes]])
    /\ UNCHANGED edited

EditNotes(b) ==
    /\ edited < MaxEdits
    /\ edited' = edited + 1
    /\ Commit(b, [work[b] EXCEPT !.notes = edited'])
    /\ UNCHANGED built

\* Mutant: the script moves the file instead of copying it.
SyncSkillMoves(b) ==
    /\ Commit(b, [work[b] EXCEPT !.skill = work[b].canonical, !.canonical.kind = "missing"])
    /\ UNCHANGED <<built, edited>>

\* sync_catalog_snapshot.sh: cp ../../catalog/catalog.json assets/catalog.json
SyncSkill(b) ==
    /\ Commit(b, [work[b] EXCEPT !.skill = work[b].canonical])
    /\ UNCHANGED <<built, edited>>

\* go generate: cp ../../catalog/catalog.json catalog.json
GoGenerate(b) ==
    /\ Commit(b, [work[b] EXCEPT !.go = work[b].canonical])
    /\ UNCHANGED <<built, edited>>

-----------------------------------------------------------------------------
Files == {"canonical", "skill", "go", "notes"}

\* A file changed on both sides conflicts, unless both made it the same.
Conflicts(b) ==
    \E f \in Files : work[b][f] # base[b][f] /\ main[f] # base[b][f] /\ work[b][f] # main[f]

Merged(b) ==
    [f \in Files |-> IF work[b][f] = base[b][f] THEN main[f] ELSE work[b][f]]

\* Mutant: the skill's copy is validated and not compared.
TestsPassUncompared(tree) ==
    tree.skill.kind = "valid" /\ tree.canonical.kind # "torn" /\ tree.go.kind # "torn"

\* The catalog tests of ci.yml: the skill's copy is valid and the canonical
\* one's equal, and the Python, Rust and Go tests parse the file each reads.
TestsPass(tree) ==
    /\ tree.skill.kind = "valid"
    /\ tree.skill = tree.canonical
    /\ tree.canonical.kind # "torn"
    /\ tree.go.kind # "torn"

CI(b) ==
    /\ ~Conflicts(b)
    /\ TestsPass(Merged(b))
    /\ green' = [green EXCEPT ![b] = TRUE]
    /\ UNCHANGED <<main, base, work, built, edited>>

\* A green branch is merged even if main has moved since CI saw it.
Merge(b) ==
    /\ green[b]
    /\ ~Conflicts(b)
    /\ main' = Merged(b)
    /\ base' = [base EXCEPT ![b] = main']
    /\ work' = [work EXCEPT ![b] = main']
    /\ green' = [green EXCEPT ![b] = FALSE]
    /\ UNCHANGED <<built, edited>>

Next == \E b \in Branch :
    Fork(b) \/ Regenerate(b) \/ EditNotes(b) \/ SyncSkill(b) \/ GoGenerate(b) \/ CI(b) \/ Merge(b)

Spec == Init /\ [][Next]_vars

-----------------------------------------------------------------------------
\* However stale the CI runs that two branches were merged on, no two green
\* branches break each other: on main the skill, the Python and the Rust
\* bindings answer from one catalog that the schema accepts, though nothing
\* ever validates the canonical file, and Go's copy is whole.
MainStaysGreen ==
    /\ main.skill = main.canonical
    /\ main.canonical.kind = "valid"
    /\ main.go.kind # "torn"

\* catalog.go:109 calls Go's file a committed copy of the canonical one, and
\* SKILL.md:28 says that results agree whichever binding answers.
GoAgrees == main.go = main.canonical

=============================================================================
