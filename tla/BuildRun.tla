------------------------------- MODULE BuildRun -------------------------------
(***************************************************************************)
(* main() of build_catalog.py: it downloads each source's files from the   *)
(* head of a branch, asks the host in a later request which commit to name *)
(* as the source's ref, loads the notes, builds, and writes catalog.json.  *)
(* Meanwhile the upstream projects push, the notes are edited and the      *)
(* process may die.                                                        *)
(***************************************************************************)
EXTENDS Naturals, Sequences, FiniteSets

CONSTANTS
    Repo,         \* upstream repositories, each with the one branch read
    Doc,          \* the sources of the catalog
    File,         \* the files read
    Order,        \* the sources in the order main() fetches them
    RepoOf,       \* the repository of each source
    FilesOf,      \* the files of each source, in the order it reads them
    BranchRef,    \* the sources whose ref is the branch's head (xdna-driver);
                  \* the others' is the last commit that touched their file
    Unparsable,   \* <<file, version>> pairs that an ingest raises on
    NoteVersion,  \* contents of notes.json that parse
    NONE,         \* nothing yet, or a missing file
    Malformed,    \* notes.json that is not JSON
    Fixture,      \* the version and the ref of an offline fixture
    Torn,         \* catalog.json truncated or partly written
    MaxCommits,   \* bound on the pushes to one repository
    MaxPushes,    \* bound on the pushes to all of them
    MaxRuns       \* bound on the runs of the build

\* The files of a source are in its repository alone, and a source whose ref
\* is asked for by path has one file.
FilesIn(d) == {FilesOf[d][k] : k \in 1..Len(FilesOf[d])}

ASSUME OrderAssumption ==
    /\ Order \in Seq(Doc) \ {<<>>}
    /\ \A k, m \in 1..Len(Order) : Order[k] = Order[m] => k = m
ASSUME RepoAssumption == RepoOf \in [Doc -> Repo]
ASSUME FilesAssumption ==
    /\ FilesOf \in [Doc -> Seq(File) \ {<<>>}]
    /\ \A d \in Doc : d \notin BranchRef => Len(FilesOf[d]) = 1
    /\ \A d, e \in Doc : FilesIn(d) \cap FilesIn(e) # {} => d = e
    /\ \A d \in Doc : \A k, m \in 1..Len(FilesOf[d]) : FilesOf[d][k] = FilesOf[d][m] => k = m
ASSUME MarksAssumption == NONE \notin Nat /\ Fixture \notin Nat /\ NONE # Fixture

VARIABLES
    history,    \* per repository, the files that each commit touched
    notesFile,  \* catalog/notes.json
    output,     \* catalog/catalog.json
    pc,         \* what the process does next
    doc,        \* the position in Order of the source being fetched
    file,       \* the position of the file being fetched in that source
    texts,      \* the version downloaded of each file
    refs,       \* the commit named for each source
    began,      \* the head when the download of each source began
    notes,      \* the notes loaded
    before,     \* catalog.json when the run started
    runs        \* how many runs have started

vars == <<history, notesFile, output, pc, doc, file, texts, refs, began, notes, before, runs>>
upstream == <<history, notesFile>>
fetched == <<texts, refs, began, notes>>

-----------------------------------------------------------------------------
\* Commits of a repository are numbered from 1; version 0 of a file is what it
\* was before.  The version of a file at a commit is the last that touched it.
Versions(h, f, commit) == {k \in 0..commit : k = 0 \/ f \in h[k]}

VersionAt(h, f, commit) ==
    CHOOSE k \in Versions(h, f, commit) : \A m \in Versions(h, f, commit) : m <= k

HeadOf(d) == Len(history[RepoOf[d]])

Latest(d, f) == VersionAt(history[RepoOf[d]], f, HeadOf(d))

This == Order[doc]

Content == [texts : [File -> Nat \cup {NONE, Fixture}],
            refs  : [Doc -> Nat \cup {NONE, Fixture}],
            notes : NoteVersion \cup {NONE}]

TypeOK ==
    /\ history \in [Repo -> Seq(SUBSET File)]
    /\ notesFile \in NoteVersion \cup {NONE, Malformed}
    /\ output \in Content \cup {NONE, Torn}
    /\ pc \in {"idle", "raw", "ref", "notes", "build", "open", "write", "done", "failed"}
    /\ doc \in Nat
    /\ file \in Nat
    /\ texts \in [File -> Nat \cup {NONE, Fixture}]
    /\ refs \in [Doc -> Nat \cup {NONE, Fixture}]
    /\ began \in [Doc -> Nat]
    /\ notes \in NoteVersion \cup {NONE}
    /\ before \in Content \cup {NONE, Torn}
    /\ runs \in Nat

Init ==
    /\ history = [r \in Repo |-> <<>>]
    /\ notesFile \in NoteVersion \cup {NONE, Malformed}
    /\ output = NONE
    /\ pc = "idle"
    /\ doc = 1
    /\ file = 1
    /\ texts = [f \in File |-> NONE]
    /\ refs = [d \in Doc |-> NONE]
    /\ began = [d \in Doc |-> 0]
    /\ notes = NONE
    /\ before = NONE
    /\ runs = 0

-----------------------------------------------------------------------------
\* The world outside.  A commit may touch none of the files read.
Pushed == UNION {{r} \X (1..Len(history[r])) : r \in Repo}

Push(r, touched) ==
    /\ Len(history[r]) < MaxCommits
    /\ Cardinality(Pushed) < MaxPushes
    /\ history' = [history EXCEPT ![r] = Append(@, touched)]
    /\ UNCHANGED <<notesFile, output, pc, doc, file, fetched, before, runs>>

EditNotes ==
    /\ notesFile' \in NoteVersion \cup {NONE, Malformed}
    /\ notesFile' # notesFile
    /\ UNCHANGED <<history, output, pc, doc, file, fetched, before, runs>>

-----------------------------------------------------------------------------
\* main() starts; its variables are the run's own.
Start(mode) ==
    /\ pc \in {"idle", "done", "failed"}
    /\ runs < MaxRuns
    /\ runs' = runs + 1
    /\ doc' = 1
    /\ file' = 1
    /\ texts' = [f \in File |-> IF mode = "offline" THEN Fixture ELSE NONE]
    /\ refs' = [d \in Doc |-> IF mode = "offline" THEN Fixture ELSE NONE]
    /\ began' = [d \in Doc |-> 0]
    /\ notes' = NONE
    /\ before' = output
    /\ pc' = IF mode = "offline" THEN "notes" ELSE "raw"
    /\ UNCHANGED <<upstream, output>>

\* requests.get of one raw file: the version at the branch's head.
FetchRaw ==
    /\ pc = "raw"
    /\ LET f == FilesOf[This][file]
       IN  texts' = [texts EXCEPT ![f] = Latest(This, f)]
    /\ began' = IF file = 1 THEN [began EXCEPT ![This] = HeadOf(This)] ELSE began
    /\ IF file < Len(FilesOf[This])
         THEN file' = file + 1 /\ pc' = "raw"
         ELSE file' = 1 /\ pc' = "ref"
    /\ UNCHANGED <<upstream, output, doc, refs, notes, before, runs>>

\* Mutant: the head found before the download is named.
RefOfBegan(d) == began[d]

\* Mutant: the ref of a source is that of its first file.
RefOfFirst(d) == Latest(d, FilesOf[d][1])

\* The commits request: the last commit on the path, or the branch's head.
RefOf(d) == IF d \in BranchRef THEN HeadOf(d) ELSE Latest(d, FilesOf[d][1])

FetchRef ==
    /\ pc = "ref"
    /\ refs' = [refs EXCEPT ![This] = RefOf(This)]
    /\ IF doc < Len(Order)
         THEN doc' = doc + 1 /\ pc' = "raw"
         ELSE doc' = doc /\ pc' = "notes"
    /\ UNCHANGED <<upstream, output, file, texts, began, notes, before, runs>>

\* Mutant: a source that cannot be had is skipped.
RequestFailureSkips ==
    /\ pc \in {"raw", "ref"}
    /\ pc' = "notes"
    /\ UNCHANGED <<upstream, output, doc, file, fetched, before, runs>>

\* Mutant: a failed request starts the downloads over.
RequestRetries ==
    /\ pc \in {"raw", "ref"}
    /\ pc' = "raw"
    /\ doc' = 1
    /\ file' = 1
    /\ texts' = [f \in File |-> NONE]
    /\ refs' = [d \in Doc |-> NONE]
    /\ began' = [d \in Doc |-> 0]
    /\ UNCHANGED <<upstream, output, notes, before, runs>>

\* raise_for_status(), the timeout, an empty list of commits.
RequestFails ==
    /\ pc \in {"raw", "ref"}
    /\ pc' = "failed"
    /\ UNCHANGED <<upstream, output, doc, file, fetched, before, runs>>

\* Mutant: the notes are taken as they are.
LoadNotesUnparsed ==
    /\ pc = "notes"
    /\ notes' = notesFile
    /\ pc' = "build"
    /\ UNCHANGED <<upstream, output, doc, file, texts, refs, began, before, runs>>

\* Mutant: catalog.json is opened before the build, which may still raise.
LoadNotesOpens ==
    /\ pc = "notes"
    /\ notesFile # Malformed
    /\ notes' = notesFile
    /\ output' = Torn
    /\ pc' = "build"
    /\ UNCHANGED <<upstream, doc, file, texts, refs, began, before, runs>>

\* A missing notes.json is no notes; one that does not parse raises.
LoadNotes ==
    /\ pc = "notes"
    /\ notesFile # Malformed
    /\ notes' = notesFile
    /\ pc' = "build"
    /\ UNCHANGED <<upstream, output, doc, file, texts, refs, began, before, runs>>

NotesRaise ==
    /\ pc = "notes"
    /\ notesFile = Malformed
    /\ pc' = "failed"
    /\ UNCHANGED <<upstream, output, doc, file, fetched, before, runs>>

Parses == \A f \in File : <<f, texts[f]>> \notin Unparsable

Build ==
    /\ pc = "build"
    /\ pc' = IF Parses THEN "open" ELSE "failed"
    /\ UNCHANGED <<upstream, output, doc, file, fetched, before, runs>>

\* write_text opens catalog.json for writing, which empties it, ...
Open ==
    /\ pc = "open"
    /\ output' = Torn
    /\ pc' = "write"
    /\ UNCHANGED <<upstream, doc, file, fetched, before, runs>>

\* ... and then writes the text and closes the file.
Write ==
    /\ pc = "write"
    /\ output' = [texts |-> texts, refs |-> refs, notes |-> notes]
    /\ pc' = "done"
    /\ UNCHANGED <<upstream, doc, file, fetched, before, runs>>

\* The process is killed, or the open or the write itself fails.
Crash ==
    /\ pc \in {"raw", "ref", "notes", "build", "open", "write"}
    /\ pc' = "failed"
    /\ UNCHANGED <<upstream, output, doc, file, fetched, before, runs>>

Program ==
    \/ FetchRaw \/ FetchRef \/ RequestFails
    \/ LoadNotes \/ NotesRaise
    \/ Build
    \/ Open \/ Write

Next ==
    \/ Program
    \/ Crash
    \/ \E mode \in {"live", "offline"} : Start(mode)
    \/ EditNotes
    \/ \E r \in Repo : \E touched \in SUBSET {f \in File : \E d \in Doc : RepoOf[d] = r /\ f \in FilesIn(d)} :
          Push(r, touched)

\* Each request of the program has a timeout of 30 seconds, after which it
\* fails; no other step waits.  Nobody has to push, edit or start a run.
Spec == Init /\ [][Next]_vars /\ WF_vars(Program)

-----------------------------------------------------------------------------
\* The named ref is never behind the text: every version ingested is in the
\* history of the commit that provenance names for it, because the commit is
\* asked for after the download.
RefCoversText ==
    \A d \in Doc : refs[d] \in Nat =>
        \A f \in FilesIn(d) : texts[f] \in Nat /\ texts[f] <= refs[d]

\* When the ref named is no newer than the branch was when the download began,
\* nobody changed the source meanwhile: checking that commit out gives exactly
\* the texts ingested.  For any newer ref nothing of the kind holds.
OldRefPinsExactly ==
    \A d \in Doc : (refs[d] \in Nat /\ refs[d] <= began[d]) =>
        \A f \in FilesIn(d) : texts[f] = VersionAt(history[RepoOf[d]], f, refs[d])

\* catalog.json is the one that was there, or the whole catalog of this run,
\* unless the run was cut short between opening and closing it; a run that
\* fails on a request, on the notes or in the build leaves it as it was.
OutputIsOldOrNew ==
    \/ output = before
    \/ output = Torn /\ pc \in {"write", "failed"}
    \/ output = [texts |-> texts, refs |-> refs, notes |-> notes] /\ pc = "done"

Published == output \notin {NONE, Torn}

\* What is published was downloaded, named and parsed, every part of it: a
\* published catalog has no source left over from a run that failed, none
\* without a ref and none that the ingests would have raised on.
OutputIsComplete ==
    Published =>
        /\ \A k \in 1..Len(Order) : output.refs[Order[k]] # NONE
        /\ \A k \in 1..Len(Order) : \A f \in FilesIn(Order[k]) :
              /\ output.texts[f] # NONE
              /\ output.texts[f] = Fixture <=> output.refs[Order[k]] = Fixture
              /\ <<f, output.texts[f]>> \notin Unparsable

\* A run ends, whatever the upstream projects do.
EveryRunEnds == (pc \notin {"idle", "done", "failed"}) ~> (pc \in {"done", "failed"})

\* PRD.md:104 says that the ref of a published source pins exactly what was
\* ingested: checking it out gives the texts the catalog was built from.
PinnedRef ==
    Published => \A d \in Doc : output.refs[d] \in Nat =>
        \A f \in FilesIn(d) : output.texts[f] = VersionAt(history[RepoOf[d]], f, output.refs[d])

=============================================================================
