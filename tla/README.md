# AMD Platform Catalog: formal model

TLA+ models of the program in this repository, TLC configurations that check
them on small instances, and TLAPS proofs of what matters most for every
instance. Every definition is translated from the source named for it in
`PROJECT.json` ("map").

## The system

`tools/catalog_build` downloads five public documents, parses them, joins them
into one catalog and writes `catalog/catalog.json`. The file is committed; two
copies of it (the agent skill's and the Go module's) are committed too. Three
language bindings embed it and answer lookups; the skill's script does the same
from its copy. Maintainers' notes (`catalog/notes.json`) travel in the catalog
and are overlaid on some lookups.

| Component | State it keeps | Operations | Talks to |
|---|---|---|---|
| build run: `main()` of `build_catalog.py` | fetched texts and refs, `catalog.json` | fetch or load fixtures, load notes, build, write | upstream hosts, the file system |
| catalog join: `build_catalog()`, `match_gpu_device_ids.py`, `cross_check_llvm.py` | a list of mutable GPU entries, a name index, reports | index, match, precision join, cross-check, stepping join, assemble | the ingests' results |
| five ingests, `rst_tables.py` | within a call: the family header last seen, the names of a table so far, the best citation so far | `ingest`, row by row | called by `build_catalog()` before the join |
| schema and `validate_schema.py` | none | validate | tests, contributors |
| embedded catalogs: `embedded()` of Python, Rust, Go | one cell per process, its lock | first and later calls | callers' threads |
| lookups: bindings and `catalog_lookup.py` | the parsed catalog, shared by all callers | `from_json`, seven lookups, notes overlay | callers |
| skill command line: `main()` of `catalog_lookup.py` | none | one query per process | the lookups |
| snapshots and CI: `sync_catalog_snapshot.sh`, `go:generate`, `ci.yml`, `tests/test_skill.py` | three committed copies, the notes | regenerate, resync, test, merge | contributors' branches |
| hardware validation: `validate_precision_support.py`, its HIP companion | results so far, the report | one probe per data type, each a few GPU operations | a GPU, which runs kernels on its own time |
| docs site, other workflows | none of the program's | render, scan | |

What is hard here:

* *Time between two reads.* A document is downloaded in one request and the
  commit that names it is asked for in another, while its project pushes.
* *Failure in the middle.* A request, the notes file, an ingest or a row
  without a name can fail after others have succeeded, and `write_text` empties
  the file before it writes it.
* *Never guessing.* Names lead to device ids through a normalisation and an
  index that is built from rows in any order. "CDNA" and "CDNA1" are one.
* *Shared, mutable entries.* Bindings hand out references into a process-wide
  catalog, and `resolve_gpu` writes into an entry.
* *First calls that race*, and a first call that fails.
* *Rows that depend on earlier rows*: a family header that is carried along, a
  table that replaces one of the same name, a type mentioned twice.
* *A GPU that answers late*: a kernel's fault shows at a later operation, which
  may belong to the probe of another type.
* *Copies that drift*, and branches that are each green and merged together.
* *Four implementations* in three languages that promise the same answers.

## Modules

```
NameMatch ── CatalogInputs ─┬─ CatalogReference  <··· (refined by)
                            ├─ CatalogJoin ···········┘ ── CatalogJoinProofs
                            └─ IngestInputs ── Ingest ── IngestProofs
BuildRun ── BuildRunProofs
OnceCell <··· EmbeddedOnce ── EmbeddedOnceProofs
CatalogQueries ─┬─ LookupReference  <···┐
                └─ BindingLookup ·······┘ ── SkillCommand ── BindingLookupProofs
HardwareProbe ── HardwareProbeProofs
SnapshotSync ── SnapshotSyncProofs
```

**NameMatch** is `normalize_name`. A name is the sequence of its lower-case
words; white space and case are what the code's patterns make irrelevant.
`Undecorated` is not code: it is what may be left of a name when AMD's decorating
words are taken off its ends, to say what the normalisation must not strip.

**CatalogInputs** has the rows that the ingests return and the lookups that the
joins share. **CatalogJoin** is `build_catalog()` with `apply_device_ids()` and
`cross_check()`: `pc` is the loop being run, `n` its position, `index` the name
index, `gpus` the entries, `warned` the reports, each with the row it is about.
An action is one iteration under one branch (`MatchNone`, `MatchAmbiguous`,
`MatchOne`, `MatchRaises`, ...). **CatalogReference** is the abstract
specification: one step publishes the catalog and the warnings as functions of
the documents, without a loop or an index, or the call publishes nothing.

**IngestInputs** is the five documents as the ingests see them: tables of cells
under the tabs that enclose them, lines with so many fields, family headers as
lists of citations, the driver's tables and symbols; and what becomes of one row
(`Zipped`, `RowToEntry`, `Covers`, `NormalizeFamily`, `TableOf`, ...). A constant
function stands for each conversion of text: its domain is what the code's
pattern matches. **Ingest** is the five `ingest()` calls at the head of
`build_catalog()`, in their order: `pc` is the loop being run and `at` its row.
`family` is the family header last seen, `best` the best citation so far of the
processor being resolved, `names` the marketing names of the table being read.
`WeighCitation` is one citation, `ReadName` one name; the other rows are one step
each. `Raise` is every exception that ends the call. `Ingested` is what
`CatalogJoin` goes on with: `SuitsTheJoin` says that it is one of the inputs that
`CatalogJoin` and its theorems are about, which composes the two.

**BuildRun** is `main()`: `Order`, `RepoOf` and `FilesOf` describe the sources;
a file's content is the number of the commit that last touched it. `FetchRaw` is
one download, `FetchRef` the later request, `LoadNotes`, `Build`, `Open` and
`Write` the rest; `RequestFails`, `NotesRaise` and `Crash` are the ways out.
`Push` and `EditNotes` are the world. `began` and `before` are history
variables: no action reads them.

**EmbeddedOnce** is `embedded()` of the three bindings, with the shape that they
share (look, wait for the owner, look again, parse) and their differences by
name: Python takes its lock before it looks; after a failed parse Go's
`sync.Once` is done while Rust's `OnceLock` and Python's `None` are not.
**OnceCell** is what they promise: every call is one step.

**CatalogQueries** is the lookups as functions of a catalog, translated from the
Rust binding, which writes them with iterators: `InOrder` is a filter that is
collected, `First` a find, each over the positions that its predicate keeps.
**BindingLookup** is the same
lookups as Go, Python and the skill write them: loops over a catalog that all
callers share, in `heap`, where an answer refers to entries and only
`resolve_gpu`'s has specs of its own. The four `...Refuses` sets say which odd
texts each implementation refuses to load. The loop runs for Rust, too, whose
iterators visit the same rows. **LookupReference** is the promise: each answer is,
in one step, a function of the text and the question.

**SkillCommand** is `main()` of `catalog_lookup.py` around those lookups: what
argparse accepts, the lookup that a command line comes to (an empty option counts
as none), the rows printed and the exit status. The other bindings have no
command line and go on as in `BindingLookup`, in the same specification.

**HardwareProbe** is the two programs that probe a GPU. A probe's kind has a
sequence of operations (`StepsOf`); an operation returns (`Return`) with values
that are right, wrong or not finite, and the check that the code has behind it
(`Accepts`) decides whether the probe goes on; or it raises (`Except`), because the
build rejects it, because its kernel faulted, or because an earlier one had. An
operation that only launches may leave a fault behind, and one that waits does
not return over it. `seen` and `faults` are history variables. The HIP program is
the kind `hip`, whose errors are codes that it looks at where Python catches; a code
that it does not look at (`hipMemcpy`'s) or that is an earlier call's
(`hipGetLastError`) ends the probe with the same verdict, as an error of its own. It
prints each verdict as it goes, without the card's id: that a report is whole is said
of the Python program.

**SnapshotSync** is the committed copies: contributors' branches regenerate,
resync and edit notes, CI tests a branch merged with the main of that moment,
and a green branch is merged even when main has moved since.

**Positions** has lemmas on positions in a sequence and on counting down. The
`MC...` modules give TLC its constants.

Mutants: an operator marked "Mutant" stands before the definition it changes and
is what a plausible bug in that code would look like. No specification uses
one; put in its place, each one breaks the property `PROJECT.json` pairs it with.

## Runs

| Run | Question | Bounds |
|---|---|---|
| `MCCatalogJoin` | Do the loops compute what `CatalogReference` defines? Is no id guessed, no variant confused, no gap and no disagreement silent? | up to 2 products and 3 id rows; up to 2 products and 1 LLVM row, or 1 and 2; about 9000 tuples of documents |
| `MCCatalogJoinSilent` | Is a target that LLVM lacks reported, as a comment says? **No.** | as above |
| `MCBuildRun` | Is the ref never behind the text, does an old ref pin it, is `catalog.json` old, whole or torn only by a kill, is what is published complete, and does each run end? | 2 sources (one with 2 files), 2 commits per repository (`MaxCommits`), 3 pushes in all (`MaxPushes`), 2 runs (`MaxRuns`) |
| `MCBuildRunPinned` | Does a published ref pin exactly what was ingested, as PRD.md:104 says? **No.** | as `MCBuildRun` |
| `MCEmbeddedOnce` | Do the locks make every call look like one step? Parsed once, one object, nobody blocked for ever? | 3 threads, 2 calls each; Python and Rust with a file that parses or not, Go with one that does |
| `MCEmbeddedOnceGo` | Does Go panic whenever the file does not parse, as its comment says? **No**: the second call returns nil. | 3 threads, 2 calls each |
| `MCSnapshotSync` | Can two green branches break main? | 2 branches, 2 builds, 1 edit of the notes |
| `MCSnapshotSyncGo` | Does Go's copy agree with the canonical one? **Not necessarily.** | as above |
| `MCSkillCommand` | Do the four implementations give the same answers under every interleaving? Does an overlay stay out of the shared catalog? Does what the schema accepts load everywhere, NaN aside? Does the skill's exit status tell what the catalog has? | 2 callers and 8 questions, or one command line with options absent and empty; 14 catalogs |
| `MCBindingLookupShared` | Does a lookup by device id name the one product of that id, as PRD.md:215 has it? **No**, for an id that products share. | as above |
| `MCIngest` | Does each processor get the generation of the most specific citation of its own family header, each NPU the driver's whole set of names, each type one verdict? Is a product, a cell, a line or a row lost or doubled? Does what comes out suit the join? Do the calls raise for a fault in any document, and for nothing else? | one document of the five varied, up to 2 tables, rows, lines or names and up to 4 processor rows and 3 citations; some thousands of documents |
| `MCHardwareProbe` | Can a late fault make a type count as supported? Does each "not supported" have a cause? Is a report whole? | programs of 2 probes of any kinds, 1 between 2 narrow ones, or 3 of the HIP program's; 1 card |

The runs that find a violation check one sentence of the repository each;
`PROJECT.json` ("findings") quotes it. Checked and violated do not mean a wrong
catalog today: the committed one has products with a shared id (744c, among
others), but its three copies agree.

Three more disagreements are in the model without a run that looks for them; the
properties are worded so as not to claim the contrary.

* NaN. `float("nan")` becomes the token `NaN` in `catalog.json`. `validate_schema.py`,
  Python and the skill read that with `json.loads`; Rust and Go refuse the whole file,
  although SKILL.md:28 has "results agree regardless of which one is used".
  `KeepsPromise` allows that refusal: `Readable` is `SchemaAccepts` and no NaN.
* Slugs. Of two columns whose titles have one slug the later cell stays, although the
  docstring of `ingest_rocm_gpu_specs.py` has "every other column stays verbatim".
  `NothingIsLost` lets a cell give way to a later one of its slug.
* Empty lists. `gpus` and `notes` print a count of 0 and exit 0, although the docstring
  of `catalog_lookup.py` has "lookups that find nothing ... exit 1". `ExitTellsFound` is
  about the lookups of one device.

**Why the bounds are enough.** *CatalogJoin*: each entry is joined on its own,
through the index and LLVM's rows; what goes wrong needs two products (an
entry's join leaking into another), two rows of one name or target (ambiguity,
last row wins), or a third row under a name already ambiguous. The names
meet each branch of the normalisation, with and without the word after it.
*BuildRun*: a race needs one push between two requests, and a second to move on
from a version; the two kinds of source differ in how the ref is asked for. A
second run shows what a first, failed one leaves behind; with three pushes one
branch moves twice and the other once, the sources being independent of each other.
*Ingest*: the ingests share nothing but the order of the calls, so one
document is varied at a time; what goes wrong within one needs two rows (a carried
header, a repeated type, a replaced table) and, for the citations, three of them:
a longest, its equal, and one that is shorter. *HardwareProbe*: a fault moves from
one probe to the next; the third shows that it goes on, or that it does not. *EmbeddedOnce*: one
owner, one waiting thread and one that comes late. *BindingLookup*: two
products under two spellings of one id, the first without specs; two notes on
one key in either order; two callers, since what they share is only the heap,
and a caller that asks again is another caller. *SnapshotSync*: with two
branches, each can be stale for the other; two builds tell old from new.

**Deadlock** is off where the program may stop: a call has returned, the bounds
on pushes, runs, calls or builds are used up, nobody asks.

**Fairness.** `BuildRun` has `WF(Program)`: each request has a timeout of 30 seconds,
after which it fails, and no other step waits; no push, edit, start or kill is fair.
(`requests` counts the 30 seconds for each wait for the host, not for the whole
request: a host that goes on sending a little at a time is outside the model.)
`EmbeddedOnce` has `WF(Step(t))` for each thread, the scheduler's; nobody has to
call. The other specifications state safety alone. `CatalogJoin` and `Ingest` are
loops over finite lists, whose end would say nothing; the code gives a GPU
operation of `HardwareProbe` no timeout, and one may hang.

## Proofs

Eight modules hold the theorems, which are about all values of the constants that
satisfy the named assumptions. Each `TypeCorrect` is `[]TypeOK`, with one step per
action. The other theorems have the name of the property they state and `Holds`
after it. Hardly any of these properties is inductive; what follows says what
each invariant adds, and why.

**CatalogJoinProofs.**

* `NeverGuessesHolds`. That `Candidates` has one element says nothing about rows
  the index has not seen. `IInv` adds `IndexComplete` (the index holds every alias
  of every row that its loop has passed, and of all rows once the loop has
  ended) and `StartsAtOne` (the loop that builds it starts at the first row).
  `CandidatesComplete` is the heart: a complete index with one candidate for a
  name leaves no row to disagree.
* `VariantsStayApartHolds`, `GapsAreWarnedHolds`, `LlvmDisagreementsAreWarnedHolds`,
  `SameGenerationSamePrecisionHolds`, `JoinsOnlyAddHolds` and `ReferenceImplemented`
  (`ImplementsReference`) come from one invariant, `FullInv`: the state is a function of
  the documents and of how far the loops are. `Behind(stage)` counts the rows of a
  loop that are behind the program; `EntriesOK` gives each field of each entry
  from them, `WarnedOK` each finding, `NamedOK` the products that had a name, and
  `CatalogOK` the result. `Advances(stage)` says what one iteration of a loop
  does; one lemma shows it of each action, and `AdvanceStep` that it keeps the
  invariant, once for all seven loops. At the end every loop has all its rows
  behind it, and the state is what `CatalogReference` publishes. `JoinsOnlyAdd`
  follows in the middle: an iteration writes to an entry that its loop has not
  reached before. `NormalizeUndecorates` is the lemma on names that
  `VariantsStayApart` rests on.
* From `SourcesAssumption` and `NoneAssumption`.

**IngestProofs.**

* `MostSpecificGenerationHolds`. An entry is made when the loop over the citations
  ends, so the invariant has to say what is known in the middle of it. `PlaceOK`:
  the row is one of the table, `family` is the last header above it, and the loop
  is about a processor. `BestOK`: `best` is the first longest of the citations
  weighed so far, and 0 exactly when none of them covers the number. `LlvmAdded`
  then adds one right entry to a list of right ones.
* `FamilyIsTheWholeSetHolds`, `OneVerdictPerTypeHolds`, `NothingIsLostHolds`.
  `Behind(stage)` counts as above; `SoFarOK` says of each list what the rows behind
  make of it, with none lost and none doubled, of `names` that they are those read
  so far of the table at hand, each once and in order, and of the verdicts that
  each is of the last row so far with an icon for its type.
* `AllOrNothingHolds`, in both directions. `GoodSoFar`: no row behind the program, of
  whichever document, is one that raises; with `PassedOK` (no loop behind had its
  table missing) a return means that no document has a fault. `RaisedOK` is the
  other direction, which `RaiseHasACause` gives at the step that raises: the loop's
  own document lacks its table, or the row at hand is a bad one. What later
  documents hold makes no difference to either.
* `SuitsTheJoinHolds`. The constants of `CatalogInputs` are open, so the theorem
  assumes `JoinTakes`: `Cell` has the verdicts that good rows of the documents can
  give, and `NpuRow` the rows of the driver; the run's constants are of that kind.
  The rest is the ingests' doing. That a generation is a text is so because the
  names of the generations are titles of columns of a table that was read
  (`GenerationIsText`).
* From `ConversionsAssumption`, `DocumentsAssumption` and `CellAssumption`.

**BuildRunProofs.**

* `RefCoversTextHolds`. `IInv` adds `PositionOK` (which sources and files are behind
  the run, at each `pc`) and `TextsAreVersions` (a text downloaded is a version
  that the branch still has, since histories only grow). The ref is asked for last,
  so it is at least as new as any of them.
* `OldRefPinsExactlyHolds`, `OutputIsOldOrNewHolds`, `OutputIsCompleteHolds`. `FullInv` adds
  `SinceBegan` (a text is no older than its branch was when the download began),
  `Ahead` (the files that the run has not come to have no text yet), `Named` (each
  source behind has its ref) and `Parsed` (nothing that an ingest raises on goes
  further than the build).
* `RunCountsDown` (see "How a run and a call end").
* From `OrderAssumption`, `RepoAssumption`, `FilesAssumption` and `MarksAssumption`.

**BindingLookupProofs**, which is also about `SkillCommand`.

* `SourceUntouchedHolds`. The overlay writes into what the copy refers to, and a
  caller into what its answer refers to. `Ownership` says that both are the caller's
  own: a caller that overlays has a copy under its own name (`OverlaysOwn`), has
  found nothing before (`ResolvesOnce`), and is answered with that copy
  (`ResolvedOwn`). `HeapStep` then has every step write at most one caller's own
  specs.
* `KeepsPromiseHolds`, the refinement: the answers are those of the Rust iterators, no
  lookup raises on a text that the schema accepts (`SchemaAccepts`), and a text that is
  refused is one that the schema refuses or one with NaN (`Readable` excludes both).
  Iterators and loops meet in `Progress`: `hits` is
  the list of the positions below `at` whose rows pass the loop's test
  (`ScansInOrder`), nothing for the lookups that return from the loop; the copy's
  specs are the row's with the overrides of the notes below `at` (`OverlaysFirst`);
  and what is returned are the positions that the query keeps (`AnsweredRight`), or
  a raise at an entry without a generation, which the schema refuses (`RaisesRight`).
  `InOrderIs` is the lemma on the queries: the increasing list of a set of positions is the only one.
  `AppliedNext` and `AppliedIsTheOverlay` are those on the overlay. `SeenStays`: what one
  caller has got is not changed by another. Then `Stop`, `Exhausted` and `Overlaid` are
  `Reply`, `Raise` and `Scribble` are themselves, `Load` is `Refuse` or nothing, and the
  other steps are seen by nobody.
* `ExitTellsFoundHolds` and `CommandKeepsPromise` are of `CommandSpec`.
  Each step of the command line is a step of some caller, or none (`CommandIsAny`), so
  the invariant above holds of it. It adds `Dispatched`: the only question is the one
  that the command comes to, and so no lookup of one device raises. `AskedAreHits` then has the rows asked for be that
  question's hits, whether or not a revision is named. An empty revision counts as none,
  in the property as in the code: it does not say that this is right.
* From `TextAssumption` (a text with a missing generation is marked as such),
  `AskedAssumption`, `ThreadAssumption`, `MarksAssumption`, `AnswerMarksAssumption` (the marks
  for no answer and for a raise are no answers) and `CommandsAssumption`.

**EmbeddedOnceProofs.** `ParsedOnceHolds`, `OneCatalogHolds`, and, where the embedded
file parses or the binding is not Go's (`GoParses`), `NeverNothingHolds` and
`Implementation` (`ImplementsOnceCell`). `LockOK`: who parses owns the lock, nobody
else does, and never once it is done. `CellOK`: the cell is filled by the first
parse that succeeds, which is the only one, and the lock is done from then on.
`ResultOK`: a call was given the cell's catalog, or failed on a file that does
not parse. `DoneOK`, that done means that there is a catalog, is what needs
`GoParses`: Go's `sync.Once` is done after a parse that failed, and its second call
returns nil, as `MCEmbeddedOnceGo` shows. `CallsCountDown` and `LockIsInUseHolds` are
about how calls end (see "How a run and a call end"). From `CaseAssumption`, `BoundAssumption` and
`MarksAssumption`.

**SnapshotSyncProofs.** `MainStaysGreenHolds`. A branch is merged into a main that CI has
not seen. That is safe because each build is a file of its own: a branch that has
regenerated the catalog has one that nobody else has (`OwnBuild`, which rests on
`Numbered`), so that CI cannot have found its copy for the skill in main; one that
has not has left the skill's copy alone, too (`SkillFollows`). `GreenOK` keeps what
CI has seen of a branch, whichever main it was merged with. From
`BoundsAssumption`.

**HardwareProbeProofs.** `SupportedIsConfirmedHolds`, `BlameHasACauseHolds`,
`ReportIsWholeHolds`. A verdict rests on what the probe's operations gave one after
another. `CurrentOK`: each operation behind has given a value that its check
accepted, none of them has raised, and a fault of this probe's kernels is still
to be noticed. `BehindOK`: nothing has been asked of the probes ahead. `ReportOK`: the
report is of the results, and the file is it, torn or not there. From
`ProgramsAssumption` (a program has a probe) and `MarksAssumption`.

**Positions** has a first and a last member for each non-empty set of positions, by
well-founded induction; "the last row wins" rests on it throughout. `CountDownEnds` and
`CountsDown` are about lists of numbers in lexicographic order.

**How a run and a call end.** Liveness is out of the prover's reach, but its core is an
action property: each step makes less of what is left. `Left` lists what is left, the
outermost loop first, `CountDown(n)` is the lexicographic order on such lists, and
the theorems say that it is well-founded and that every step goes down in it.

* `RunCountsDown`: phases, sources and files left. The projects push and the notes are
  edited meanwhile; no such step changes what is left, and only a new run, which starts
  when the last has ended, makes more of it. A retry (`RequestRetries`) would, too.
* `CallsCountDown`: look, take the lock, parse. No other thread's step sends a call
  back; and `LockIsInUseHolds`: who holds the lock is parsing, so that nobody waits
  for a thread that waits.

What remains for TLC is that a program which has not ended has a step to take
(ENABLED), and that fairness then makes it take one.

TLC evaluates the assumptions in the runs of the modules that state them, and it
checked each inductive invariant on a small instance before it was proved.

Only model-checked are the liveness properties as such: `EveryRunEnds` and
`EveryCallReturns`. The properties of the runs that find a violation
do not hold, and so have no theorem.

## What is abstracted

* Strings are compared, never built: names are sequences of words, ids and
  targets are atoms, urls, dates, wording and formatting are left out.
* `specs` of an entry is one field in `CatalogJoin` (`stepping`, the only key it
  writes) and a small map in `BindingLookup`.
* Conversions of text in the ingests (lower case, slugs, numbers, patterns, the
  cleaning of cells) are constant functions on the texts that the code accepts;
  what a pattern does not find is not in the model's documents.
* A tensor has right values, wrong ones or none that are finite; which card
  amd-smi lists first is any.
* A commit is a set of files; a merge works on whole files, which is the merge
  of a conflict or of one side's change, since `catalog.json` carries its date.
* A missing generation is `NONE`. In Go it is the empty string, which
  `GPUsByGeneration("")` would find; no caller of the model asks for that.
* A row's cells beyond its header are dropped, as `zip` does; they have no title, and
  `NothingIsLost` is about the cells that have one.
* What a GPU's memory holds from an earlier probe is not state: the properties say
  that a failure which nobody looked at cannot pass, whatever the memory holds.
* A file that is cut short is `Torn`; that `write_text` may write any prefix
  makes no difference to who reads it.
* The lookups' callers write only into the specs of a resolved entry, which the
  bindings call a copy. A caller that writes into a raw entry, or into the
  precision map that a resolved one still shares, changes the catalog for all.
* Weak memory is not modelled: `OnceLock`, `sync.Once` and Python's lock are
  taken at their word for the order of memory accesses.

## Not modelled

* docutils' parsing, which `rst_tables.py` wraps: a table that is nested in a cell
  (it would be found twice), or a cell with an error message in it. The sources
  have no nested table.
* The regular expressions, character by character.
* The docs site and the other workflows: no state of the program.
* The contents of the tests.
* How long a GPU operation takes, and a program that hangs in one.

## Plan

Every component with state of its own has its module. Every safety property, action
property and refinement that a passing run checks is proved, and of the liveness
properties what does not depend on fairness. What is left is to say more:

* entries that callers share on purpose: the precision map of a resolved entry,
  which a caller's write changes for all (`catalog.go:170`);
* the notes: `SnapshotSync` has both `notes.json` and the notes in the catalog, which
  no document promises to agree.

The invariants are stated as conjunctions of named parts, and none of the
modules with theorems uses a RECURSIVE operator.
