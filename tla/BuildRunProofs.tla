---------------------------- MODULE BuildRunProofs ----------------------------
(***************************************************************************)
(* What holds of a run of the build against every list of sources, however *)
(* their upstream projects push while it downloads.                        *)
(***************************************************************************)
EXTENDS BuildRun, Positions, SequenceTheorems

\* The versions of a file at a commit are numbers, and have a last one.
LEMMA VersionAtLast ==
    ASSUME NEW h \in Seq(SUBSET File), NEW f, NEW commit \in 0..Len(h)
    PROVE  /\ VersionAt(h, f, commit) \in Versions(h, f, commit)
           /\ \A m \in Versions(h, f, commit) : m <= VersionAt(h, f, commit)
           /\ VersionAt(h, f, commit) \in Nat
           /\ VersionAt(h, f, commit) <= commit
<1> DEFINE vs == Versions(h, f, commit)
<1>1. vs \in SUBSET (0..commit) /\ vs # {} /\ commit \in Nat
  <2>1. commit \in Nat
    OBVIOUS
  <2>2. 0 \in vs
    BY <2>1 DEF Versions
  <2> QED
    BY <2>1, <2>2 DEF Versions
<1>2. \E k \in vs : \A m \in vs : m <= k
  <2> HIDE DEF vs
  <2> QED
    BY <1>1, LastExists
<1>3. VersionAt(h, f, commit) \in vs /\ \A m \in vs : m <= VersionAt(h, f, commit)
  BY <1>2 DEF VersionAt
<1> QED
  BY <1>1, <1>3

\* A push keeps the versions a file had.
LEMMA PushKeepsVersions ==
    ASSUME NEW h \in Seq(SUBSET File), NEW touched \in SUBSET File, NEW f
    PROVE  Versions(h, f, Len(h)) \subseteq Versions(Append(h, touched), f, Len(h) + 1)
<1>1. \A k \in 1..Len(h) : Append(h, touched)[k] = h[k]
  BY AppendProperties
<1> QED
  BY <1>1 DEF Versions

\* The position the run is at names a source.
LEMMA ThisType ==
    ASSUME doc \in 1..Len(Order)
    PROVE  This \in Doc
  BY OrderAssumption DEF This

-----------------------------------------------------------------------------
(***************************************************************************)
(* RefCoversText needs to know that a source's files are all downloaded    *)
(* before its ref is asked for and not again after, which is the position  *)
(* the run is at, and that a downloaded text is a version its repository   *)
(* had.                                                                    *)
(***************************************************************************)
Fetching == pc \in {"raw", "ref"}

PositionOK ==
    Fetching =>
        /\ doc \in 1..Len(Order)
        /\ file \in 1..Len(FilesOf[This])
        /\ pc = "ref" => file = 1
        /\ pc = "ref" => \A f \in FilesIn(This) : texts[f] \in Nat
        /\ pc = "raw" => \A k \in 1..(file - 1) : texts[FilesOf[This][k]] \in Nat
        /\ \A k \in doc..Len(Order) : refs[Order[k]] \notin Nat

TextsAreVersions ==
    \A d \in Doc : \A f \in FilesIn(d) :
        texts[f] \in Nat => texts[f] \in Versions(history[RepoOf[d]], f, HeadOf(d))

IInv == TypeOK /\ PositionOK /\ TextsAreVersions /\ RefCoversText

\* The variables start with their types.
LEMMA TypeInit == Init => TypeOK
  BY DEF Init, TypeOK

\* What a download of a file gives: the last version in its branch.
LEMMA LatestType ==
    ASSUME TypeOK, NEW d \in Doc, NEW f
    PROVE  /\ HeadOf(d) \in Nat
           /\ Latest(d, f) \in Versions(history[RepoOf[d]], f, HeadOf(d))
           /\ Latest(d, f) \in Nat
           /\ Latest(d, f) <= HeadOf(d)
           /\ \A m \in Versions(history[RepoOf[d]], f, HeadOf(d)) : m <= Latest(d, f)
<1>1. history[RepoOf[d]] \in Seq(SUBSET File)
  BY RepoAssumption DEF TypeOK
<1>2. HeadOf(d) \in 0..Len(history[RepoOf[d]]) /\ HeadOf(d) \in Nat
  BY <1>1 DEF HeadOf
<1> QED
  BY <1>1, <1>2, VersionAtLast DEF Latest

\* The commit asked for is a number.
LEMMA RefType ==
    ASSUME TypeOK, NEW d \in Doc
    PROVE  RefOf(d) \in Nat
  BY LatestType DEF RefOf

\* Every step keeps the types: FetchRaw and FetchRef need the position to be
\* within the list of sources.
LEMMA TypeStep == TypeOK /\ PositionOK /\ [Next]_vars => TypeOK'
<1> SUFFICES ASSUME TypeOK, PositionOK, [Next]_vars PROVE TypeOK'
  OBVIOUS
<1> USE DEF TypeOK, fetched, upstream
<1>1. CASE FetchRaw
  <2>1. This \in Doc
    BY <1>1, ThisType DEF FetchRaw, PositionOK, Fetching
  <2>2. Latest(This, FilesOf[This][file]) \in Nat /\ HeadOf(This) \in Nat
    BY <2>1, LatestType
  <2>3. texts' \in [File -> Nat \cup {NONE, Fixture}] /\ began' \in [Doc -> Nat]
    BY <1>1, <2>2 DEF FetchRaw
  <2>4. file' \in Nat /\ pc' \in {"raw", "ref"}
    BY <1>1 DEF FetchRaw
  <2> QED
    BY <1>1, <2>3, <2>4 DEF FetchRaw
<1>2. CASE FetchRef
  <2>1. RefOf(This) \in Nat
    BY <1>2, ThisType, RefType DEF FetchRef, PositionOK, Fetching
  <2>2. refs' \in [Doc -> Nat \cup {NONE, Fixture}]
    BY <1>2, <2>1 DEF FetchRef
  <2> QED
    BY <1>2, <2>2 DEF FetchRef
<1>3. CASE RequestFails \/ NotesRaise \/ Crash
  BY <1>3 DEF RequestFails, NotesRaise, Crash
<1>4. CASE LoadNotes
  BY <1>4 DEF LoadNotes
<1>5. CASE Build
  BY <1>5 DEF Build
<1>6. CASE Open \/ Write
  BY <1>6 DEF Open, Write, Content
<1>7. CASE \E mode \in {"live", "offline"} : Start(mode)
  BY <1>7 DEF Start
<1>8. CASE EditNotes
  BY <1>8 DEF EditNotes
<1>9. ASSUME NEW r \in Repo, NEW touched \in SUBSET File, Push(r, touched)
      PROVE  TypeOK'
  BY <1>9 DEF Push
<1>10. CASE UNCHANGED vars
  BY <1>10 DEF vars
<1> QED
  BY <1>1, <1>2, <1>3, <1>4, <1>5, <1>6, <1>7, <1>8, <1>9, <1>10 DEF Next, Program

\* A file names the one source that it is read for.
LEMMA FileOfThis ==
    ASSUME doc \in 1..Len(Order), file \in 1..Len(FilesOf[This])
    PROVE  /\ FilesOf[This][file] \in FilesIn(This)
           /\ FilesOf[This][file] \in File
           /\ \A d \in Doc : FilesOf[This][file] \in FilesIn(d) => d = This
           /\ FilesOf[This] \in Seq(File)
<1>1. This \in Doc /\ FilesOf[This] \in Seq(File)
  BY ThisType, FilesAssumption
<1>2. FilesOf[This][file] \in FilesIn(This)
  BY DEF FilesIn
<1> QED
  BY <1>1, <1>2, FilesAssumption

\* A step that leaves the run's own variables alone.
RunUnchanged == UNCHANGED <<pc, doc, file, texts, refs>>

\* Every step keeps the run's position and what it says of the files and
\* refs fetched before it.
LEMMA PositionStep == TypeOK /\ PositionOK /\ [Next]_vars => PositionOK'
<1> SUFFICES ASSUME TypeOK, PositionOK, [Next]_vars PROVE PositionOK'
  OBVIOUS
<1> USE DEF Fetching
<1>1. CASE FetchRaw
  <2> DEFINE f == FilesOf[This][file]
  <2>1. /\ doc \in 1..Len(Order) /\ file \in 1..Len(FilesOf[This]) /\ This \in Doc
        /\ f \in FilesIn(This) /\ f \in File /\ FilesOf[This] \in Seq(File)
        /\ \A k \in doc..Len(Order) : refs[Order[k]] \notin Nat
        /\ \A k \in 1..(file - 1) : texts[FilesOf[This][k]] \in Nat
    BY <1>1, ThisType, FileOfThis DEF FetchRaw, PositionOK
  <2>2. texts' = [texts EXCEPT ![f] = Latest(This, f)] /\ Latest(This, f) \in Nat
    BY <1>1, <2>1, LatestType DEF FetchRaw
  <2>3. ASSUME NEW k \in 1..file PROVE texts'[FilesOf[This][k]] \in Nat
    <3>1. FilesOf[This][k] \in File /\ (k = file \/ k \in 1..(file - 1))
      BY <2>1
    <3>2. FilesOf[This][k] = f \/ texts[FilesOf[This][k]] \in Nat
      BY <2>1, <3>1
    <3> HIDE DEF f
    <3> QED
      BY <2>1, <2>2, <3>1, <3>2 DEF TypeOK
  <2>4. UNCHANGED <<doc, refs>> /\ This' = This
    BY <1>1 DEF FetchRaw, This
  <2>5. CASE file < Len(FilesOf[This])
    <3>1. file' = file + 1 /\ pc' = "raw"
      BY <1>1, <2>5 DEF FetchRaw
    <3>2. file' \in 1..Len(FilesOf[This]) /\ file' - 1 = file
      BY <2>1, <2>5, <3>1
    <3> QED
      BY <2>1, <2>3, <2>4, <3>1, <3>2 DEF PositionOK
  <2>6. CASE ~(file < Len(FilesOf[This]))
    <3>1. file' = 1 /\ pc' = "ref" /\ file = Len(FilesOf[This])
      BY <1>1, <2>1, <2>6 DEF FetchRaw
    <3>2. \A g \in FilesIn(This) : texts'[g] \in Nat
      BY <2>3, <3>1 DEF FilesIn
    <3> QED
      BY <2>1, <2>4, <3>1, <3>2 DEF PositionOK, FilesIn
  <2> QED
    BY <2>5, <2>6
<1>2. CASE FetchRef
  <2>1. /\ doc \in 1..Len(Order)
        /\ \A k \in doc..Len(Order) : refs[Order[k]] \notin Nat
        /\ refs' = [refs EXCEPT ![This] = RefOf(This)]
    BY <1>2 DEF FetchRef, PositionOK
  <2>2. CASE doc < Len(Order)
    <3>1. doc' = doc + 1 /\ pc' = "raw" /\ doc' \in 1..Len(Order)
      BY <1>2, <2>1, <2>2, OrderAssumption DEF FetchRef
    <3>2. file' \in 1..Len(FilesOf[This'])
      <4>1. file' = file /\ This' \in Doc /\ This \in Doc
        BY <1>2, <2>1, <3>1, OrderAssumption DEF FetchRef, This
      <4>2. file = 1
        BY <1>2 DEF FetchRef, PositionOK
      <4>3. \A d \in Doc : 1 \in 1..Len(FilesOf[d])
        BY FilesAssumption
      <4> QED
        BY <4>1, <4>2, <4>3
    <3>3. \A k \in doc'..Len(Order) : refs'[Order[k]] \notin Nat
      BY <2>1, <3>1, OrderAssumption DEF TypeOK, This
    <3>4. \A k \in 1..(file' - 1) : texts'[FilesOf[This'][k]] \in Nat
      BY <1>2 DEF FetchRef, PositionOK
    <3> QED
      BY <3>1, <3>2, <3>3, <3>4 DEF PositionOK
  <2>3. CASE ~(doc < Len(Order))
    BY <1>2, <2>3 DEF FetchRef, PositionOK
  <2> QED
    BY <2>2, <2>3
<1>3. CASE RequestFails \/ LoadNotes \/ NotesRaise \/ Build \/ Open \/ Write \/ Crash
  BY <1>3 DEF RequestFails, LoadNotes, NotesRaise, Build, Open, Write, Crash, PositionOK
<1>4. CASE \E mode \in {"live", "offline"} : Start(mode)
  <2>1. doc' = 1 /\ file' = 1 /\ pc' \in {"raw", "notes"}
    BY <1>4 DEF Start
  <2>2. \A d \in Doc : refs'[d] \notin Nat
    BY <1>4, MarksAssumption DEF Start
  <2>3. 1 \in 1..Len(Order) /\ Order[1] \in Doc
    BY OrderAssumption
  <2>4. This' = Order[1] /\ 1 \in 1..Len(FilesOf[Order[1]])
    BY <2>1, <2>3, FilesAssumption DEF This
  <2> QED
    BY <2>1, <2>2, <2>3, <2>4, OrderAssumption DEF PositionOK
<1>5. CASE RunUnchanged
  BY <1>5 DEF RunUnchanged, PositionOK, This
<1> QED
  BY <1>1, <1>2, <1>3, <1>4, <1>5 DEF Next, Program, vars, EditNotes, Push, RunUnchanged, fetched, upstream

\* A downloaded text stays a version of its file while the projects push.
LEMMA VersionsStep == IInv /\ [Next]_vars => TextsAreVersions'
<1> SUFFICES ASSUME IInv, [Next]_vars PROVE TextsAreVersions'
  OBVIOUS
<1>0. TypeOK /\ PositionOK /\ TextsAreVersions
  BY DEF IInv
<1>1. CASE FetchRaw
  <2> DEFINE f == FilesOf[This][file]
  <2>1. /\ This \in Doc /\ f \in File
        /\ \A d \in Doc : f \in FilesIn(d) => d = This
    BY <1>0, <1>1, ThisType, FileOfThis DEF FetchRaw, PositionOK, Fetching
  <2>2. texts' = [texts EXCEPT ![f] = Latest(This, f)] /\ history' = history
    BY <1>1 DEF FetchRaw, upstream
  <2>3. Latest(This, f) \in Versions(history[RepoOf[This]], f, HeadOf(This))
    BY <1>0, <2>1, LatestType
  <2> QED
    BY <1>0, <2>1, <2>2, <2>3 DEF TypeOK, TextsAreVersions, HeadOf
<1>2. CASE \E mode \in {"live", "offline"} : Start(mode)
  <2>1. \A f \in File : texts'[f] \notin Nat
    BY <1>2, MarksAssumption DEF Start
  <2>2. \A d \in Doc : FilesIn(d) \subseteq File
    BY FilesAssumption DEF FilesIn
  <2> QED
    BY <2>1, <2>2 DEF TextsAreVersions
<1>3. ASSUME NEW r \in Repo, NEW touched \in SUBSET File, Push(r, touched)
      PROVE  TextsAreVersions'
  <2> SUFFICES ASSUME NEW d \in Doc, NEW f \in FilesIn(d), texts[f] \in Nat
               PROVE  texts[f] \in Versions(history'[RepoOf[d]], f, Len(history'[RepoOf[d]]))
    BY <1>3 DEF TextsAreVersions, HeadOf, Push, fetched
  <2>1. /\ history \in [Repo -> Seq(SUBSET File)]
        /\ history' = [history EXCEPT ![r] = Append(@, touched)]
        /\ texts[f] \in Versions(history[RepoOf[d]], f, Len(history[RepoOf[d]]))
        /\ RepoOf[d] \in Repo
    BY <1>0, <1>3, RepoAssumption DEF TypeOK, Push, TextsAreVersions, HeadOf
  <2>2. CASE RepoOf[d] = r
    <3>1. history[r] \in Seq(SUBSET File) /\ history'[r] = Append(history[r], touched)
      BY <2>1
    <3>2. Len(history'[r]) = Len(history[r]) + 1
      BY <3>1
    <3> QED
      BY <2>1, <2>2, <3>1, <3>2, PushKeepsVersions
  <2>3. CASE RepoOf[d] # r
    BY <2>1, <2>3
  <2> QED
    BY <2>2, <2>3
<1>4. CASE UNCHANGED <<history, texts>>
  BY <1>0, <1>4 DEF TextsAreVersions, HeadOf
<1> QED
  BY <1>1, <1>2, <1>3, <1>4
  DEF Next, Program, vars, fetched, upstream, FetchRef, RequestFails, LoadNotes, NotesRaise, Build, Open, Write,
      Crash, EditNotes

\* Naming a commit after the download names one that covers it, and no later
\* step of the run, or push, disturbs a source that has its ref.
LEMMA CoversStep == IInv /\ [Next]_vars => RefCoversText'
<1> SUFFICES ASSUME IInv, [Next]_vars PROVE RefCoversText'
  OBVIOUS
<1>0. TypeOK /\ PositionOK /\ TextsAreVersions /\ RefCoversText
  BY DEF IInv
<1>1. CASE FetchRaw
  <2> DEFINE f == FilesOf[This][file]
  <2>1. /\ This \in Doc /\ refs[This] \notin Nat
        /\ \A d \in Doc : f \in FilesIn(d) => d = This
    <3>1. doc \in doc..Len(Order)
      BY <1>0, <1>1 DEF FetchRaw, PositionOK, Fetching
    <3> QED
      BY <1>0, <1>1, <3>1, ThisType, FileOfThis DEF FetchRaw, PositionOK, Fetching, This
  <2>2. texts' = [texts EXCEPT ![f] = Latest(This, f)] /\ refs' = refs
    BY <1>1 DEF FetchRaw
  <2>3. \A d \in Doc : refs[d] \in Nat => \A g \in FilesIn(d) : texts'[g] = texts[g]
    BY <1>0, <2>1, <2>2 DEF TypeOK
  <2> QED
    BY <1>0, <2>2, <2>3 DEF RefCoversText
<1>2. CASE FetchRef
  <2>1. /\ This \in Doc
        /\ \A f \in FilesIn(This) : texts[f] \in Nat
        /\ refs' = [refs EXCEPT ![This] = RefOf(This)]
        /\ texts' = texts
    BY <1>0, <1>2, ThisType DEF FetchRef, PositionOK, Fetching
  <2>2. \A f \in FilesIn(This) : texts[f] <= RefOf(This)
    <3> SUFFICES ASSUME NEW f \in FilesIn(This) PROVE texts[f] <= RefOf(This)
      OBVIOUS
    <3>1. texts[f] \in Versions(history[RepoOf[This]], f, HeadOf(This))
      BY <1>0, <2>1 DEF TextsAreVersions
    <3>2. CASE This \in BranchRef
      BY <3>1, <3>2 DEF RefOf, Versions
    <3>3. CASE This \notin BranchRef
      <4>1. f = FilesOf[This][1]
        BY <2>1, <3>3, FilesAssumption DEF FilesIn
      <4> QED
        BY <1>0, <2>1, <3>1, <3>3, <4>1, LatestType DEF RefOf
    <3> QED
      BY <3>2, <3>3
  <2> QED
    BY <1>0, <2>1, <2>2 DEF RefCoversText, TypeOK
<1>3. CASE \E mode \in {"live", "offline"} : Start(mode)
  <2>1. \A d \in Doc : refs'[d] \notin Nat
    BY <1>3, MarksAssumption DEF Start
  <2> QED
    BY <2>1 DEF RefCoversText
<1>4. CASE UNCHANGED <<texts, refs>>
  BY <1>0, <1>4 DEF RefCoversText
<1> QED
  BY <1>1, <1>2, <1>3, <1>4
  DEF Next, Program, vars, fetched, RequestFails, LoadNotes, NotesRaise, Build, Open, Write, Crash, EditNotes, Push

\* Before the first run nothing is downloaded and nothing named.
LEMMA IInit == Init => IInv
<1> SUFFICES ASSUME Init PROVE IInv
  OBVIOUS
<1>1. \A d \in Doc : refs[d] \notin Nat /\ \A f \in FilesIn(d) : texts[f] \notin Nat
  BY MarksAssumption, FilesAssumption DEF Init, FilesIn
<1>2. pc = "idle"
  BY DEF Init
<1> QED
  BY <1>1, <1>2, TypeInit DEF IInv, PositionOK, Fetching, TextsAreVersions, RefCoversText

\* The inductive invariant is kept by every step.
LEMMA IStep == IInv /\ [Next]_vars => IInv'
  BY TypeStep, PositionStep, VersionsStep, CoversStep DEF IInv

\* The state of a run has its type, whatever happens around it: main().
THEOREM TypeCorrect == Spec => []TypeOK
<1>1. IInv => TypeOK
  BY DEF IInv
<1> QED
  BY <1>1, IInit, IStep, PTL DEF Spec

\* For any sources and any pushes: the commit that provenance names has every
\* text ingested in its history (fetch_source, fetch_xdna_pciids).
THEOREM RefCoversTextHolds == Spec => []RefCoversText
<1>1. IInv => RefCoversText
  BY DEF IInv
<1> QED
  BY <1>1, IInit, IStep, PTL DEF Spec

-----------------------------------------------------------------------------
(***************************************************************************)
(* What checking out an old ref gives, and what is published, need more of *)
(* the run's past: what it has not fetched yet, that a text is no older    *)
(* than the branch was when the download of its source began, and that     *)
(* every source has its ref when the notes are loaded.                     *)
(***************************************************************************)
\* Nothing is fetched twice in a run: the files ahead have no text yet.
Ahead ==
    /\ pc = "raw" => \A k \in file..Len(FilesOf[This]) : texts[FilesOf[This][k]] \notin Nat
    /\ Fetching => \A k \in (doc + 1)..Len(Order) : \A f \in FilesIn(Order[k]) : texts[f] \notin Nat

\* Nobody can push before a commit that is already there.
SinceBegan ==
    \A d \in Doc :
        /\ began[d] <= HeadOf(d)
        /\ \A f \in FilesIn(d) : texts[f] \in Nat =>
              \A m \in Versions(history[RepoOf[d]], f, began[d]) : m <= texts[f]

Named ==
    /\ Fetching => \A k \in 1..(doc - 1) : refs[Order[k]] \in Nat
    /\ pc \in {"notes", "build", "open", "write"} =>
          \/ \A k \in 1..Len(Order) : refs[Order[k]] \in Nat
          \/ (\A d \in Doc : refs[d] = Fixture) /\ (\A f \in File : texts[f] = Fixture)

Parsed == pc \in {"open", "write"} => Parses

FullInv == IInv /\ Ahead /\ SinceBegan /\ Named /\ Parsed /\ OutputIsOldOrNew /\ OutputIsComplete

\* The files of two sources, and two files of a source, are different ones.
LEMMA FilesApart ==
    ASSUME doc \in 1..Len(Order), file \in 1..Len(FilesOf[This])
    PROVE  /\ \A k \in (doc + 1)..Len(Order) : FilesOf[This][file] \notin FilesIn(Order[k])
           /\ \A k \in (file + 1)..Len(FilesOf[This]) : FilesOf[This][k] # FilesOf[This][file]
<1>1. This \in Doc /\ FilesOf[This][file] \in FilesIn(This) /\ FilesOf[This] \in Seq(File)
  BY ThisType, FileOfThis
<1>2. ASSUME NEW k \in (doc + 1)..Len(Order) PROVE FilesOf[This][file] \notin FilesIn(Order[k])
  <2>1. k \in 1..Len(Order) /\ k # doc
    BY OrderAssumption
  <2>2. Order[k] \in Doc /\ Order[k] # This
    BY <2>1, OrderAssumption DEF This
  <2> QED
    BY <2>2, FileOfThis
<1>3. ASSUME NEW k \in (file + 1)..Len(FilesOf[This]) PROVE FilesOf[This][k] # FilesOf[This][file]
  <2>1. k \in 1..Len(FilesOf[This]) /\ k # file
    BY <1>1
  <2> QED
    BY <1>1, <2>1, FilesAssumption
<1> QED
  BY <1>2, <1>3

\* Every step keeps what is ahead without a text.
LEMMA AheadStep == IInv /\ Ahead /\ [Next]_vars => Ahead'
<1> SUFFICES ASSUME IInv, Ahead, [Next]_vars PROVE Ahead'
  OBVIOUS
<1>0. TypeOK /\ PositionOK
  BY DEF IInv
<1> USE DEF Fetching
<1>1. CASE FetchRaw
  <2> DEFINE f == FilesOf[This][file]
  <2>1. /\ doc \in 1..Len(Order) /\ file \in 1..Len(FilesOf[This]) /\ This \in Doc
        /\ f \in File /\ FilesOf[This] \in Seq(File) /\ Len(FilesOf[This]) \in Nat
    BY <1>0, <1>1, ThisType, FileOfThis DEF FetchRaw, PositionOK
  <2>2. texts' = [texts EXCEPT ![f] = Latest(This, f)] /\ doc' = doc /\ This' = This
    BY <1>1 DEF FetchRaw, This
  <2>3. /\ \A k \in (doc + 1)..Len(Order) : f \notin FilesIn(Order[k])
        /\ \A k \in (file + 1)..Len(FilesOf[This]) : FilesOf[This][k] # f
    BY <2>1, FilesApart
  <2>4. \A g : g # f /\ texts[g] \notin Nat => texts'[g] \notin Nat
    <3> HIDE DEF f
    <3> QED
      BY <1>0, <2>1, <2>2 DEF TypeOK
  <2>5. \A k \in (doc + 1)..Len(Order) : \A g \in FilesIn(Order[k]) : texts'[g] \notin Nat
    BY <1>1, <2>3, <2>4 DEF FetchRaw, Ahead
  <2>6. \A k \in (file + 1)..Len(FilesOf[This]) : texts'[FilesOf[This][k]] \notin Nat
    <3> SUFFICES ASSUME NEW k \in (file + 1)..Len(FilesOf[This]) PROVE texts'[FilesOf[This][k]] \notin Nat
      OBVIOUS
    <3>1. k \in file..Len(FilesOf[This])
      BY <2>1
    <3>2. texts[FilesOf[This][k]] \notin Nat
      BY <1>1, <3>1 DEF FetchRaw, Ahead
    <3>3. FilesOf[This][k] # f
      BY <2>3
    <3> QED
      BY <2>4, <3>2, <3>3
  <2>7. pc' = "raw" => file' = file + 1
    BY <1>1 DEF FetchRaw
  <2> QED
    BY <2>2, <2>5, <2>6, <2>7 DEF Ahead
<1>2. CASE FetchRef
  <2>1. file' = file /\ file = 1 /\ texts' = texts /\ doc \in 1..Len(Order)
    BY <1>0, <1>2 DEF FetchRef, PositionOK
  <2>2. \A k \in (doc + 1)..Len(Order) : \A f \in FilesIn(Order[k]) : texts[f] \notin Nat
    BY <1>2 DEF FetchRef, Ahead
  <2>3. CASE doc < Len(Order)
    <3>1. doc' = doc + 1 /\ doc' \in (doc + 1)..Len(Order) /\ This' = Order[doc']
      BY <1>2, <2>1, <2>3, OrderAssumption DEF FetchRef, This
    <3>2. \A k \in 1..Len(FilesOf[This']) : texts[FilesOf[This'][k]] \notin Nat
      BY <2>2, <3>1 DEF FilesIn
    <3>3. \A k \in (doc' + 1)..Len(Order) : k \in (doc + 1)..Len(Order)
      BY <2>1, <3>1
    <3> QED
      BY <2>1, <2>2, <3>2, <3>3 DEF Ahead
  <2>4. CASE ~(doc < Len(Order))
    BY <1>2, <2>4 DEF FetchRef, Ahead
  <2> QED
    BY <2>3, <2>4
<1>3. CASE RequestFails \/ LoadNotes \/ NotesRaise \/ Build \/ Open \/ Write \/ Crash
  BY <1>3 DEF RequestFails, LoadNotes, NotesRaise, Build, Open, Write, Crash, Ahead
<1>4. CASE \E mode \in {"live", "offline"} : Start(mode)
  <2>1. doc' = 1 /\ \A f \in File : texts'[f] \notin Nat
    BY <1>4, MarksAssumption DEF Start
  <2>2. \A d \in Doc : FilesIn(d) \subseteq File
    BY FilesAssumption DEF FilesIn
  <2>3. \A k \in 1..Len(Order) : Order[k] \in Doc
    BY OrderAssumption
  <2>4. \A k \in (doc' + 1)..Len(Order) : k \in 1..Len(Order)
    BY <2>1, OrderAssumption
  <2>5. file' = 1 /\ This' = Order[1] /\ Order[1] \in Doc
    BY <1>4, OrderAssumption DEF Start, This
  <2>6. \A k \in 1..Len(FilesOf[This']) : FilesOf[This'][k] \in File
    BY <2>2, <2>5 DEF FilesIn
  <2> QED
    BY <2>1, <2>2, <2>3, <2>4, <2>5, <2>6 DEF Ahead
<1>5. CASE RunUnchanged
  BY <1>5 DEF RunUnchanged, Ahead, This
<1> QED
  BY <1>1, <1>2, <1>3, <1>4, <1>5 DEF Next, Program, vars, EditNotes, Push, RunUnchanged, fetched, upstream

\* Versions of a file at an older commit are versions at a newer one.
LEMMA VersionsGrow ==
    ASSUME NEW h, NEW f, NEW c \in Nat, NEW e \in Nat, c <= e
    PROVE  Versions(h, f, c) \subseteq Versions(h, f, e)
  BY DEF Versions

\* A push behind a commit changes none of the versions at that commit.
LEMMA PushIsBehind ==
    ASSUME NEW h \in Seq(SUBSET File), NEW touched \in SUBSET File, NEW f, NEW c \in 0..Len(h)
    PROVE  Versions(Append(h, touched), f, c) = Versions(h, f, c)
<1>1. \A k \in 1..Len(h) : Append(h, touched)[k] = h[k]
  BY AppendProperties
<1>2. \A k \in 0..c : k = 0 \/ k \in 1..Len(h)
  OBVIOUS
<1> QED
  BY <1>1, <1>2 DEF Versions

\* Every step keeps the texts no older than the head when their download began.
LEMMA SinceBeganStep == IInv /\ Ahead /\ SinceBegan /\ [Next]_vars => SinceBegan'
<1> SUFFICES ASSUME IInv, Ahead, SinceBegan, [Next]_vars, NEW d \in Doc
             PROVE  /\ began'[d] <= HeadOf(d)'
                    /\ \A f \in FilesIn(d) : texts'[f] \in Nat =>
                          \A m \in Versions(history'[RepoOf[d]], f, began'[d]) : m <= texts'[f]
  BY DEF SinceBegan
<1>0. TypeOK /\ PositionOK
  BY DEF IInv
<1>a. /\ began[d] \in Nat /\ HeadOf(d) \in Nat /\ began[d] <= HeadOf(d)
      /\ history[RepoOf[d]] \in Seq(SUBSET File)
      /\ \A f \in FilesIn(d) : texts[f] \in Nat =>
            \A m \in Versions(history[RepoOf[d]], f, began[d]) : m <= texts[f]
  BY <1>0, LatestType, RepoAssumption DEF SinceBegan, TypeOK
<1>1. CASE FetchRaw
  <2> DEFINE g == FilesOf[This][file]
  <2>1. /\ doc \in 1..Len(Order) /\ file \in 1..Len(FilesOf[This]) /\ This \in Doc
        /\ g \in File /\ FilesOf[This] \in Seq(File) /\ (g \in FilesIn(d) => d = This)
    BY <1>0, <1>1, ThisType, FileOfThis DEF FetchRaw, PositionOK, Fetching
  <2>2. /\ texts' = [texts EXCEPT ![g] = Latest(This, g)]
        /\ began' = IF file = 1 THEN [began EXCEPT ![This] = HeadOf(This)] ELSE began
        /\ history' = history /\ HeadOf(d)' = HeadOf(d)
    BY <1>1 DEF FetchRaw, upstream, HeadOf
  <2> HIDE DEF g
  <2>3. CASE d # This
    <3>1. began'[d] = began[d] /\ \A f \in FilesIn(d) : texts'[f] = texts[f]
      BY <1>0, <2>1, <2>2, <2>3 DEF TypeOK
    <3> QED
      BY <1>a, <2>2, <3>1
  <2>4. CASE d = This
    <3>1. began'[d] \in {began[d], HeadOf(d)} /\ (file # 1 => began'[d] = began[d])
      BY <1>0, <2>1, <2>2, <2>4 DEF TypeOK
    <3>2. ASSUME NEW f \in FilesIn(d), texts'[f] \in Nat,
                 NEW m \in Versions(history[RepoOf[d]], f, began'[d])
          PROVE  m <= texts'[f]
      <4>1. CASE f = g
        <5>1. m \in Versions(history[RepoOf[d]], f, HeadOf(d))
          BY <1>a, <3>1, VersionsGrow
        <5>2. texts'[f] = Latest(d, f)
          BY <1>0, <2>1, <2>2, <2>4, <4>1 DEF TypeOK
        <5> QED
          BY <1>0, <5>1, <5>2, LatestType
      <4>2. CASE f # g
        <5>1. texts'[f] = texts[f]
          BY <1>0, <2>2, <4>2 DEF TypeOK
        <5>2. file # 1
          <6> SUFFICES ASSUME file = 1 PROVE FALSE
            OBVIOUS
          <6>1. PICK k \in 1..Len(FilesOf[This]) : FilesOf[This][k] = f
            BY <2>4 DEF FilesIn
          <6>2. texts[f] \notin Nat
            BY <1>1, <6>1 DEF FetchRaw, Ahead
          <6> QED
            BY <3>2, <5>1, <6>2
        <5> QED
          BY <1>a, <3>1, <3>2, <5>1, <5>2
      <4> QED
        BY <4>1, <4>2
    <3> QED
      BY <1>a, <2>2, <3>1, <3>2
  <2> QED
    BY <2>3, <2>4
<1>2. CASE \E mode \in {"live", "offline"} : Start(mode)
  <2>1. /\ \A f \in File : texts'[f] \notin Nat
        /\ began'[d] = 0 /\ history' = history
    BY <1>2, MarksAssumption DEF Start, upstream
  <2>2. FilesIn(d) \subseteq File
    BY FilesAssumption DEF FilesIn
  <2> QED
    BY <1>a, <2>1, <2>2 DEF HeadOf
<1>3. ASSUME NEW r \in Repo, NEW touched \in SUBSET File, Push(r, touched)
      PROVE  /\ began'[d] <= HeadOf(d)'
             /\ \A f \in FilesIn(d) : texts'[f] \in Nat =>
                   \A m \in Versions(history'[RepoOf[d]], f, began'[d]) : m <= texts'[f]
  <2>1. /\ texts' = texts /\ began' = began
        /\ history' = [history EXCEPT ![r] = Append(@, touched)]
        /\ history \in [Repo -> Seq(SUBSET File)] /\ RepoOf[d] \in Repo
    BY <1>0, <1>3, RepoAssumption DEF Push, fetched, TypeOK
  <2>2. CASE RepoOf[d] = r
    <3>1. history'[RepoOf[d]] = Append(history[RepoOf[d]], touched)
      BY <2>1, <2>2
    <3>2. HeadOf(d)' = HeadOf(d) + 1 /\ began[d] \in 0..Len(history[RepoOf[d]])
      BY <1>a, <3>1 DEF HeadOf
    <3>3. \A f : Versions(history'[RepoOf[d]], f, began[d]) = Versions(history[RepoOf[d]], f, began[d])
      BY <1>a, <3>1, <3>2, PushIsBehind
    <3> QED
      BY <1>a, <2>1, <3>2, <3>3
  <2>3. CASE RepoOf[d] # r
    BY <1>a, <2>1, <2>3 DEF HeadOf
  <2> QED
    BY <2>2, <2>3
<1>4. CASE UNCHANGED <<history, texts, began>>
  BY <1>a, <1>4 DEF HeadOf
<1> QED
  BY <1>1, <1>2, <1>3, <1>4
  DEF Next, Program, vars, fetched, upstream, FetchRef, RequestFails, LoadNotes, NotesRaise, Build, Open, Write,
      Crash, EditNotes

\* The notes are loaded when every source has its ref, or offline.
LEMMA NamedStep == IInv /\ Named /\ [Next]_vars => Named'
<1> SUFFICES ASSUME IInv, Named, [Next]_vars PROVE Named'
  OBVIOUS
<1>0. TypeOK /\ PositionOK
  BY DEF IInv
<1> USE DEF Fetching
<1>1. CASE FetchRaw
  <2>1. doc' = doc /\ refs' = refs /\ pc = "raw" /\ pc' \in {"raw", "ref"}
    BY <1>1 DEF FetchRaw
  <2> QED
    BY <2>1 DEF Named
<1>2. CASE FetchRef
  <2>1. /\ This \in Doc /\ RefOf(This) \in Nat /\ doc \in 1..Len(Order)
        /\ refs' = [refs EXCEPT ![This] = RefOf(This)]
    BY <1>0, <1>2, ThisType, RefType DEF FetchRef, PositionOK
  <2>2. ASSUME NEW k \in 1..doc PROVE refs'[Order[k]] \in Nat
    <3>1. Order[k] \in Doc /\ (k = doc \/ k \in 1..(doc - 1))
      BY <2>1, OrderAssumption
    <3>2. Order[k] = This \/ refs[Order[k]] \in Nat
      BY <1>2, <3>1 DEF FetchRef, Named, This
    <3> QED
      BY <1>0, <2>1, <3>1, <3>2 DEF TypeOK
  <2>3. CASE doc < Len(Order)
    <3>1. doc' = doc + 1 /\ pc' = "raw" /\ doc' - 1 = doc
      BY <1>2, <2>1, <2>3 DEF FetchRef
    <3> QED
      BY <2>2, <3>1 DEF Named
  <2>4. CASE ~(doc < Len(Order))
    <3>1. doc = Len(Order) /\ pc' = "notes"
      BY <1>2, <2>1, <2>4, OrderAssumption DEF FetchRef
    <3> QED
      BY <2>2, <3>1 DEF Named
  <2> QED
    BY <2>3, <2>4
<1>3. CASE RequestFails \/ LoadNotes \/ NotesRaise \/ Build \/ Open \/ Write \/ Crash
  BY <1>3 DEF RequestFails, LoadNotes, NotesRaise, Build, Open, Write, Crash, Named, fetched
<1>4. ASSUME NEW mode \in {"live", "offline"}, Start(mode)
      PROVE  Named'
  <2>1. /\ doc' = 1
        /\ pc' = "raw" \/ (pc' = "notes" /\ mode = "offline")
        /\ mode = "offline" =>
              (\A d \in Doc : refs'[d] = Fixture) /\ (\A f \in File : texts'[f] = Fixture)
    BY <1>4 DEF Start
  <2> QED
    BY <2>1 DEF Named
<1>5. CASE RunUnchanged
  BY <1>5 DEF RunUnchanged, Named
<1> QED
  BY <1>1, <1>2, <1>3, <1>4, <1>5 DEF Next, Program, vars, EditNotes, Push, RunUnchanged, fetched, upstream

\* catalog.json is opened when the build has raised on nothing.
LEMMA ParsedStep == Parsed /\ [Next]_vars => Parsed'
<1> SUFFICES ASSUME Parsed, [Next]_vars PROVE Parsed'
  OBVIOUS
<1>1. CASE pc' \notin {"open", "write"}
  BY <1>1 DEF Parsed
<1>2. CASE Build \/ Open
  BY <1>2 DEF Build, Open, Parsed, Parses, fetched
<1>3. CASE RunUnchanged
  BY <1>3 DEF RunUnchanged, Parsed, Parses
<1>4. FetchRaw \/ FetchRef \/ RequestFails \/ LoadNotes \/ NotesRaise \/ Write \/ Crash
         \/ (\E mode \in {"live", "offline"} : Start(mode)) => pc' \notin {"open", "write"}
  BY DEF FetchRaw, FetchRef, RequestFails, LoadNotes, NotesRaise, Write, Crash, Start
<1> QED
  BY <1>1, <1>2, <1>3, <1>4 DEF Next, Program, vars, EditNotes, Push, RunUnchanged, fetched, upstream

\* No step before the file is opened touches it, and what closes it has
\* written the whole catalog.
LEMMA OutputStep == OutputIsOldOrNew /\ [Next]_vars => OutputIsOldOrNew'
<1> SUFFICES ASSUME OutputIsOldOrNew, [Next]_vars PROVE OutputIsOldOrNew'
  OBVIOUS
<1> USE DEF OutputIsOldOrNew
<1>1. CASE FetchRaw \/ FetchRef \/ RequestFails \/ LoadNotes \/ NotesRaise \/ Build \/ Crash
  BY <1>1 DEF FetchRaw, FetchRef, RequestFails, LoadNotes, NotesRaise, Build, Crash
<1>2. CASE Open \/ Write
  BY <1>2 DEF Open, Write, fetched
<1>3. CASE \E mode \in {"live", "offline"} : Start(mode)
  BY <1>3 DEF Start
<1>4. CASE UNCHANGED <<output, before, pc, texts, refs, notes>>
  BY <1>4
<1> QED
  BY <1>1, <1>2, <1>3, <1>4 DEF Next, Program, vars, EditNotes, Push, fetched, upstream

\* What is written is complete; no other step publishes anything.
LEMMA CompleteStep == IInv /\ Named /\ Parsed /\ OutputIsComplete /\ [Next]_vars => OutputIsComplete'
<1> SUFFICES ASSUME IInv, Named, Parsed, OutputIsComplete, [Next]_vars PROVE OutputIsComplete'
  OBVIOUS
<1>1. CASE Write
  <2>1. /\ pc = "write"
        /\ output' = [texts |-> texts, refs |-> refs, notes |-> notes]
    BY <1>1 DEF Write
  <2>2. ASSUME NEW k \in 1..Len(Order), NEW f \in FilesIn(Order[k])
        PROVE  /\ refs[Order[k]] # NONE
               /\ texts[f] # NONE
               /\ texts[f] = Fixture <=> refs[Order[k]] = Fixture
               /\ <<f, texts[f]>> \notin Unparsable
    <3>1. Order[k] \in Doc /\ f \in File
      BY OrderAssumption, FilesAssumption DEF FilesIn
    <3>2. <<f, texts[f]>> \notin Unparsable
      BY <2>1, <3>1 DEF Parsed, Parses
    <3>3. \/ refs[Order[k]] \in Nat /\ texts[f] \in Nat
          \/ refs[Order[k]] = Fixture /\ texts[f] = Fixture
      BY <2>1, <3>1 DEF IInv, Named, RefCoversText
    <3> QED
      BY <3>2, <3>3, MarksAssumption
  <2>3. \A k \in 1..Len(Order) : refs[Order[k]] # NONE
    <3> SUFFICES ASSUME NEW k \in 1..Len(Order) PROVE refs[Order[k]] # NONE
      OBVIOUS
    <3>1. Order[k] \in Doc
      BY OrderAssumption
    <3> QED
      BY <2>1, <3>1, MarksAssumption DEF Named
  <2> QED
    BY <2>1, <2>2, <2>3 DEF OutputIsComplete
<1>2. CASE Open
  BY <1>2 DEF Open, OutputIsComplete, Published
<1>3. CASE output' = output
  BY <1>3 DEF OutputIsComplete, Published
<1> QED
  BY <1>1, <1>2, <1>3
  DEF Next, Program, vars, fetched, upstream, FetchRaw, FetchRef, RequestFails, LoadNotes, NotesRaise, Build, Crash,
      Start, EditNotes, Push

\* An old ref names the texts: no version lies between the text ingested and
\* the commit named, since the text is the last one at a later commit.
LEMMA OldRef == IInv /\ SinceBegan => OldRefPinsExactly
<1> SUFFICES ASSUME IInv, SinceBegan,
                    NEW d \in Doc, refs[d] \in Nat, refs[d] <= began[d],
                    NEW f \in FilesIn(d)
             PROVE  texts[f] = VersionAt(history[RepoOf[d]], f, refs[d])
  BY DEF OldRefPinsExactly
<1> DEFINE h == history[RepoOf[d]]
<1>1. /\ h \in Seq(SUBSET File) /\ began[d] \in Nat /\ HeadOf(d) \in Nat
      /\ began[d] <= HeadOf(d) /\ Len(h) = HeadOf(d)
  BY RepoAssumption, LatestType DEF IInv, TypeOK, SinceBegan, HeadOf
<1>2. /\ texts[f] \in Nat /\ texts[f] <= refs[d]
      /\ texts[f] \in Versions(h, f, HeadOf(d))
      /\ \A m \in Versions(h, f, began[d]) : m <= texts[f]
  BY DEF IInv, RefCoversText, TextsAreVersions, SinceBegan
<1> HIDE DEF h
<1>3. texts[f] \in Versions(h, f, refs[d])
  BY <1>2 DEF Versions
<1>4. refs[d] \in 0..Len(h)
  BY <1>1
<1>5. LET last == VersionAt(h, f, refs[d])
      IN  last \in Versions(h, f, began[d]) /\ last \in Nat /\ texts[f] <= last
  BY <1>1, <1>3, <1>4, VersionAtLast, VersionsGrow
<1>6. texts[f] = VersionAt(h, f, refs[d])
  BY <1>2, <1>5
<1> QED
  BY <1>6 DEF h

\* Before the first run there is nothing to be wrong.
LEMMA FullInit == Init => FullInv
<1> SUFFICES ASSUME Init PROVE FullInv
  OBVIOUS
<1>1. \A d \in Doc : HeadOf(d) = 0 /\ began[d] = 0
  BY RepoAssumption DEF Init, HeadOf
<1>2. \A d \in Doc : \A f \in FilesIn(d) : texts[f] \notin Nat
  BY MarksAssumption, FilesAssumption DEF Init, FilesIn
<1>3. pc = "idle" /\ output = NONE /\ before = NONE
  BY DEF Init
<1> QED
  BY <1>1, <1>2, <1>3, IInit
  DEF FullInv, Ahead, Fetching, SinceBegan, Named, Parsed, OutputIsOldOrNew, OutputIsComplete, Published

\* The larger inductive invariant is kept by every step.
LEMMA FullStep == FullInv /\ [Next]_vars => FullInv'
  BY IStep, AheadStep, SinceBeganStep, NamedStep, ParsedStep, OutputStep, CompleteStep DEF FullInv

\* For any sources and any pushes: when provenance names a commit no newer than
\* the branch was when the download began, checking it out gives exactly the
\* texts ingested (fetch_source, fetch_xdna_pciids).
THEOREM OldRefPinsExactlyHolds == Spec => []OldRefPinsExactly
<1>1. FullInv => OldRefPinsExactly
  BY OldRef DEF FullInv
<1> QED
  BY <1>1, FullInit, FullStep, PTL DEF Spec

\* A run that fails before it opens catalog.json leaves the old one, and one
\* that ends has replaced it with the whole of the new one: main().
THEOREM OutputIsOldOrNewHolds == Spec => []OutputIsOldOrNew
<1>1. FullInv => OutputIsOldOrNew
  BY DEF FullInv
<1> QED
  BY <1>1, FullInit, FullStep, PTL DEF Spec

\* Whatever fails on the way, a catalog that is published has every text and ref,
\* none that an ingest would have raised on: main().
THEOREM OutputIsCompleteHolds == Spec => []OutputIsComplete
<1>1. FullInv => OutputIsComplete
  BY DEF FullInv
<1> QED
  BY <1>1, FullInit, FullStep, PTL DEF Spec

-----------------------------------------------------------------------------
(***************************************************************************)
(* A run does not go on for ever, although the projects push all the time: *)
(* it downloads each file once and asks for each ref once, and retries     *)
(* nothing.                                                                *)
(***************************************************************************)
PhasesLeft ==
    CASE pc \in {"raw", "ref"} -> 5
      [] pc = "notes" -> 4
      [] pc = "build" -> 3
      [] pc = "open"  -> 2
      [] pc = "write" -> 1
      [] OTHER        -> 0

SourcesLeft == IF Fetching THEN Len(Order) + 1 - doc ELSE 0

\* The files of the source at hand, and its ref not among them.
FilesLeft == IF pc = "raw" THEN Len(FilesOf[This]) + 1 - file ELSE 0

Left == <<PhasesLeft, SourcesLeft, FilesLeft>>

RunStep == Program \/ Crash

NewRun == \E mode \in {"live", "offline"} : Start(mode)

\* What is left is three numbers.
LEMMA LeftType == TypeOK /\ PositionOK => Left \in [1..3 -> Nat]
<1> SUFFICES ASSUME TypeOK, PositionOK PROVE Left \in [1..3 -> Nat]
  OBVIOUS
<1>1. PhasesLeft \in Nat
  BY DEF PhasesLeft
<1>2. SourcesLeft \in Nat
  BY OrderAssumption DEF SourcesLeft, PositionOK
<1>3. FilesLeft \in Nat
  <2>1. CASE pc = "raw"
    <3>1. doc \in 1..Len(Order) /\ file \in 1..Len(FilesOf[This])
      BY <2>1 DEF PositionOK, Fetching
    <3>2. Len(FilesOf[This]) \in Nat
      BY <3>1, FileOfThis
    <3> QED
      BY <2>1, <3>1, <3>2 DEF FilesLeft
  <2> QED
    BY <2>1 DEF FilesLeft
<1> QED
  BY <1>1, <1>2, <1>3 DEF Left

\* Every step of the run leaves less to do.
LEMMA LeftStep ==
    ASSUME TypeOK, PositionOK, RunStep
    PROVE  \/ PhasesLeft' < PhasesLeft
           \/ PhasesLeft' = PhasesLeft /\ SourcesLeft' < SourcesLeft
           \/ PhasesLeft' = PhasesLeft /\ SourcesLeft' = SourcesLeft /\ FilesLeft' < FilesLeft
<1>1. CASE FetchRaw
  <2>1. /\ pc = "raw" /\ doc \in 1..Len(Order) /\ file \in 1..Len(FilesOf[This])
        /\ doc' = doc /\ This' = This
    BY <1>1 DEF FetchRaw, PositionOK, Fetching, This
  <2>2. Len(FilesOf[This]) \in Nat
    BY <2>1, FileOfThis
  <2>3. pc' \in {"raw", "ref"} /\ (pc' = "raw" => file' = file + 1)
    BY <1>1 DEF FetchRaw
  <2>4. PhasesLeft' = PhasesLeft /\ SourcesLeft' = SourcesLeft
    BY <2>1, <2>3 DEF PhasesLeft, SourcesLeft, Fetching
  <2>5. FilesLeft' < FilesLeft
    BY <2>1, <2>2, <2>3 DEF FilesLeft
  <2> QED
    BY <2>4, <2>5
<1>2. CASE FetchRef
  <2>1. pc = "ref" /\ doc \in 1..Len(Order) /\ Len(Order) \in Nat
    BY <1>2, OrderAssumption DEF FetchRef, PositionOK, Fetching
  <2>2. CASE doc < Len(Order)
    <3>1. doc' = doc + 1 /\ pc' = "raw"
      BY <1>2, <2>2 DEF FetchRef
    <3>2. PhasesLeft' = PhasesLeft /\ SourcesLeft' < SourcesLeft
      BY <2>1, <3>1 DEF PhasesLeft, SourcesLeft, Fetching
    <3> QED
      BY <3>2
  <2>3. CASE ~(doc < Len(Order))
    BY <1>2, <2>1, <2>3 DEF FetchRef, PhasesLeft
  <2> QED
    BY <2>2, <2>3
<1>3. CASE RequestFails \/ LoadNotes \/ NotesRaise \/ Build \/ Open \/ Write \/ Crash
  <2>1. PhasesLeft' < PhasesLeft
    BY <1>3 DEF RequestFails, LoadNotes, NotesRaise, Build, Open, Write, Crash, PhasesLeft
  <2> QED
    BY <2>1
<1> QED
  BY <1>1, <1>2, <1>3 DEF RunStep, Program

\* Every run takes finitely many steps, whatever the projects push meanwhile
\* and however the requests come out: each step of the run makes less of what
\* is left, in an order in which nothing shrinks for ever, and a step of the
\* world outside leaves it as it is.  Only a new run makes more of it, when the
\* last has ended.
THEOREM RunCountsDown ==
    /\ IsWellFoundedOn(CountDown(3), [1..3 -> Nat])
    /\ Spec => /\ [](Left \in [1..3 -> Nat])
               /\ [][/\ RunStep => <<Left', Left>> \in CountDown(3)
                     /\ ~RunStep => Left' = Left \/ (NewRun /\ PhasesLeft = 0)]_vars
<1>1. IsWellFoundedOn(CountDown(3), [1..3 -> Nat])
  BY CountDownEnds
<1>2. IInv => Left \in [1..3 -> Nat]
  BY LeftType DEF IInv
<1>3. /\ IInv /\ Left \in [1..3 -> Nat] /\ (Left \in [1..3 -> Nat])' /\ [Next]_vars
      => [/\ RunStep => <<Left', Left>> \in CountDown(3)
          /\ ~RunStep => Left' = Left \/ (NewRun /\ PhasesLeft = 0)]_vars
  <2> SUFFICES ASSUME IInv, Left \in [1..3 -> Nat], (Left \in [1..3 -> Nat])', Next
               PROVE  /\ RunStep => <<Left', Left>> \in CountDown(3)
                      /\ ~RunStep => Left' = Left \/ (NewRun /\ PhasesLeft = 0)
    BY DEF vars
  <2>1. ASSUME RunStep PROVE <<Left', Left>> \in CountDown(3)
    <3>1. /\ Left[1] = PhasesLeft /\ Left[2] = SourcesLeft /\ Left[3] = FilesLeft
          /\ Left'[1] = PhasesLeft' /\ Left'[2] = SourcesLeft' /\ Left'[3] = FilesLeft'
      BY DEF Left
    <3>2. PICK i \in 1..3 : Left'[i] < Left[i] /\ \A j \in 1..(i - 1) : Left'[j] = Left[j]
      <4>1. CASE PhasesLeft' < PhasesLeft
        BY <3>1, <4>1
      <4>2. CASE PhasesLeft' = PhasesLeft /\ SourcesLeft' < SourcesLeft
        BY <3>1, <4>2
      <4>3. CASE PhasesLeft' = PhasesLeft /\ SourcesLeft' = SourcesLeft /\ FilesLeft' < FilesLeft
        BY <3>1, <4>3
      <4> QED
        BY <2>1, <4>1, <4>2, <4>3, LeftStep DEF IInv
    <3> QED
      BY <3>2, CountsDown
  <2>2. NewRun => PhasesLeft = 0
    BY DEF NewRun, Start, PhasesLeft
  <2>3. ASSUME ~RunStep, ~NewRun PROVE Left' = Left
    <3>1. UNCHANGED <<pc, doc, file>>
      BY <2>3 DEF Next, RunStep, NewRun, EditNotes, Push
    <3> QED
      BY <3>1 DEF Left, PhasesLeft, SourcesLeft, FilesLeft, Fetching, This
  <2> QED
    BY <2>1, <2>2, <2>3
<1>4. Spec => []IInv
  BY IInit, IStep, PTL DEF Spec
<1> QED
  BY <1>1, <1>2, <1>3, <1>4, PTL DEF Spec

=============================================================================
