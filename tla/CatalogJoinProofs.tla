-------------------------- MODULE CatalogJoinProofs --------------------------
(***************************************************************************)
(* What holds of build_catalog() for every list of documents.              *)
(***************************************************************************)
EXTENDS CatalogJoin, SequenceTheorems, Positions, TLAPS

\* Dropping words from either end of a name leaves a name.
LEMMA WordsOfName ==
    ASSUME NEW name \in Name, NEW k \in Nat \ {0}, NEW m \in Nat, m <= Len(name)
    PROVE  SubSeq(name, k, m) \in Name
<1>1. \A i \in k..m : name[i] \in STRING
  BY DEF Name
<1> QED
  BY <1>1, SubSeqProperties DEF Name

\* Normalising a name yields a name: match_gpu_device_ids.normalize_name.
LEMMA NormalizeType ==
    ASSUME NEW name \in Name
    PROVE  Normalize(name) \in Name
<1>1. \A nm \in Name : Len(nm) \in Nat
  BY DEF Name
<1>2. \A nm \in Name, k \in Nat : DropFirst(k, nm) \in Name
  BY <1>1, WordsOfName DEF DropFirst
<1>3. StripInstinct(name) \in Name
  BY <1>2 DEF StripInstinct
<1>4. StripAmd(StripInstinct(name)) \in Name
  BY <1>2, <1>3 DEF StripAmd
<1>5. \A nm \in Name : StripGraphics(nm) \in Name
  <2>1. \A nm \in Name : Len(nm) > 1 => SubSeq(nm, 1, Len(nm) - 1) \in Name
    BY <1>1, WordsOfName
  <2> QED
    BY <2>1 DEF StripGraphics
<1> QED
  BY <1>4, <1>5 DEF Normalize

\* The name that a row is looked up by is a name, if the row has one:
\* match_gpu_device_ids.py:75.
LEMMA CandidateType ==
    ASSUME NEW row \in GpuRow, CandidateName(row) # NONE
    PROVE  CandidateName(row) \in Name
  BY DEF CandidateName, GpuRow

-----------------------------------------------------------------------------
\* What each row of amdgpu.ids and each loop position hand to the joins.
LEMMA SourceTypes ==
    ASSUME TypeOK
    PROVE  /\ src.gpus \in Seq(GpuRow)
           /\ src.ids \in Seq(IdRow)
           /\ src.llvm \in Seq(LlvmRow)
           /\ src.npus \in Seq(NpuRow)
           /\ src.notes \in Seq(Note)
  BY DEF TypeOK, SourceRecord

\* A warning about the row at hand is a warning.
LEMMA WarnType ==
    ASSUME TypeOK, NEW kind \in WarningKinds, Warn(kind)
    PROVE  warned' \in SUBSET Warning
<1>1. [kind |-> kind, at |-> n] \in Warning
  BY DEF TypeOK, Warning
<1> QED
  BY <1>1 DEF TypeOK, Warn

\* Assigning to one field of the entry at position n, as the joins do.
LEMMA FieldUpdate ==
    ASSUME NEW e \in GpuEntry
    PROVE  /\ \A d \in DeviceId : [e EXCEPT !.device_id = d] \in GpuEntry
           /\ \A block \in SUBSET Cell : [e EXCEPT !.precision = block] \in GpuEntry
           /\ \A s \in STRING : [e EXCEPT !.stepping = s] \in GpuEntry
  BY DEF GpuEntry

\* Replacing one entry of the list by an entry leaves a list of entries.
LEMMA EntryUpdate ==
    ASSUME NEW entries \in Seq(GpuEntry), NEW i,
           NEW e, i \in 1..Len(entries) => e \in GpuEntry
    PROVE  [entries EXCEPT ![i] = e] \in Seq(GpuEntry)
<1>1. CASE i \in 1..Len(entries)
  BY <1>1, ExceptSeq
<1>2. CASE i \notin 1..Len(entries)
  <2>1. [entries EXCEPT ![i] = e] = entries
    BY <1>2
  <2> QED
    BY <2>1
<1> QED
  BY <1>1, <1>2

\* The three assignments the joins make keep gpu_entries a list of entries.
LEMMA JoinUpdate ==
    ASSUME TypeOK
    PROVE  /\ \A d \in DeviceId : [gpus EXCEPT ![n].device_id = d] \in Seq(GpuEntry)
           /\ \A block \in SUBSET Cell : [gpus EXCEPT ![n].precision = block] \in Seq(GpuEntry)
           /\ \A s \in STRING : [gpus EXCEPT ![n].stepping = s] \in Seq(GpuEntry)
<1>1. gpus \in Seq(GpuEntry) /\ (n \in 1..Len(gpus) => gpus[n] \in GpuEntry)
  BY DEF TypeOK
<1>2. ASSUME NEW d \in DeviceId PROVE [gpus EXCEPT ![n] = [gpus[n] EXCEPT !.device_id = d]] \in Seq(GpuEntry)
  BY <1>1, FieldUpdate, EntryUpdate
<1>3. ASSUME NEW block \in SUBSET Cell PROVE [gpus EXCEPT ![n] = [gpus[n] EXCEPT !.precision = block]] \in Seq(GpuEntry)
  BY <1>1, FieldUpdate, EntryUpdate
<1>4. ASSUME NEW s \in STRING PROVE [gpus EXCEPT ![n] = [gpus[n] EXCEPT !.stepping = s]] \in Seq(GpuEntry)
  BY <1>1, FieldUpdate, EntryUpdate
<1> QED
  BY <1>2, <1>3, <1>4

\* A target that LLVM's table knows has its row there.
LEMMA LlvmRowType ==
    ASSUME TypeOK, NEW target, HasSubarch(src, target)
    PROVE  Stepping(LlvmRowOf(src, target).subarch) \in STRING \cup {NONE}
<1> DEFINE rows == LlvmRowsOf(src, target)
<1>1. src.llvm \in Seq(LlvmRow)
  BY SourceTypes
<1>2. rows # {} /\ rows \subseteq 1..Len(src.llvm)
  BY DEF HasSubarch, LlvmRowsOf
<1>3. \E j \in rows : \A k \in rows : k <= j
  <2>1. Len(src.llvm) \in Nat /\ rows \in SUBSET (0..Len(src.llvm))
    BY <1>1, <1>2
  <2> QED
    BY <1>2, <2>1, LastExists
<1>4. LastOf(rows) \in rows
  BY <1>3 DEF LastOf
<1>5. LlvmRowOf(src, target) \in LlvmRow
  BY <1>1, <1>2, <1>4, ElementOfSeq DEF LlvmRowOf
<1>6. LlvmRowOf(src, target).subarch \in Seq(STRING)
  BY <1>5 DEF LlvmRow, HasSubarch
<1> QED
  BY <1>6 DEF Stepping

\* The variables start with their types.
LEMMA TypeInit == Init => TypeOK
  BY SourcesAssumption DEF Init, TypeOK, Stages

\* An entry that is given an id is an entry still.
LEMMA GiveIdType == TypeOK /\ GiveId => gpus' \in Seq(GpuEntry)
<1> SUFFICES ASSUME TypeOK, GiveId PROVE gpus' \in Seq(GpuEntry)
  OBVIOUS
<1>1. PICK d \in Candidates : gpus' = [gpus EXCEPT ![n].device_id = d]
  BY DEF GiveId
<1>2. d \in DeviceId
  BY DEF Candidates
<1> QED
  BY <1>1, <1>2, JoinUpdate DEF TypeOK

\* Every step keeps the types.
LEMMA TypeStep == TypeOK /\ [Next]_vars => TypeOK'
<1> SUFFICES ASSUME TypeOK, [Next]_vars PROVE TypeOK'
  OBVIOUS
<1> USE DEF TypeOK
<1>1. CASE Ingest
  <2>1. \A i \in 1..Len(src.gpus) : FreshEntry(src.gpus[i]) \in GpuEntry
    BY SourceTypes DEF FreshEntry, GpuEntry
  <2>2. gpus' \in Seq(GpuEntry)
    BY <1>1, <2>1, SourceTypes DEF Ingest
  <2> QED
    BY <1>1, <2>2 DEF Ingest, Stages
<1>2. CASE IngestRaises
  BY <1>2 DEF IngestRaises
<1>3. CASE IndexRow
  <2>1. n \in 1..Len(src.ids) /\ src.ids[n] \in IdRow
    BY <1>3, SourceTypes DEF IndexRow, Iterate, Length
  <2>2. \A alias \in src.ids[n].names : <<Normalize(alias), src.ids[n].device_id>> \in Name \X DeviceId
    BY <2>1, NormalizeType DEF IdRow
  <2> QED
    BY <1>3, <2>2 DEF IndexRow, Iterate
<1>4. CASE MatchNone
  BY <1>4, WarnType DEF MatchNone, Match, Iterate, WarningKinds
<1>5. CASE MatchAmbiguous
  BY <1>5, WarnType DEF MatchAmbiguous, Match, Iterate, WarningKinds
<1>6. CASE MatchOne
  <2>1. gpus' \in Seq(GpuEntry)
    BY <1>6, GiveIdType DEF MatchOne
  <2> QED
    BY <1>6, <2>1 DEF MatchOne, Match, Iterate
<1>7. CASE MatchRaises
  <2>1. gpus' \in Seq(GpuEntry)
    BY <1>7, GiveIdType DEF MatchRaises
  <2> QED
    BY <1>7, <2>1 DEF MatchRaises
<1>8. CASE JoinPrecision
  <2> DEFINE block == PrecisionBlock(src, gpus[n].row.generation)
  <2>1. CASE block # {}
    <3>1. block \in SUBSET Cell
      BY DEF PrecisionBlock
    <3>2. gpus' \in Seq(GpuEntry)
      BY <1>8, <2>1, <3>1, JoinUpdate DEF JoinPrecision
    <3> QED
      BY <1>8, <2>1, <3>2 DEF JoinPrecision, Iterate
  <2>2. CASE block = {}
    BY <1>8, <2>2, WarnType DEF JoinPrecision, Iterate, WarningKinds
  <2> QED
    BY <2>1, <2>2
<1>9. CASE CheckMismatch
  BY <1>9, WarnType DEF CheckMismatch, Iterate, WarningKinds
<1>10. CASE CheckNewTarget
  BY <1>10, WarnType DEF CheckNewTarget, Iterate, WarningKinds
<1>11. CASE SkipStepping
  BY <1>11 DEF SkipStepping, Iterate
<1>12. CASE JoinStepping
  <2> DEFINE stepping == Stepping(LlvmRowOf(src, gpus[n].row.gfx_target).subarch)
  <2>1. CASE stepping # NONE
    <3>1. stepping \in STRING
      BY <1>12, <2>1, LlvmRowType DEF JoinStepping
    <3>2. gpus' \in Seq(GpuEntry)
      BY <1>12, <2>1, <3>1, JoinUpdate DEF JoinStepping
    <3> QED
      BY <1>12, <2>1, <3>2 DEF JoinStepping, Iterate
  <2>2. CASE stepping = NONE
    BY <1>12, <2>2, WarnType DEF JoinStepping, Iterate, WarningKinds
  <2> QED
    BY <2>1, <2>2
<1>13. CASE EndLoop
  BY <1>13 DEF EndLoop, NextStage, Stages
<1>14. CASE Assemble
  BY <1>14, SourceTypes DEF Assemble
<1>15. CASE UNCHANGED vars
  BY <1>15 DEF vars
<1> QED
  BY <1>1, <1>2, <1>3, <1>4, <1>5, <1>6, <1>7, <1>8, <1>9, <1>10, <1>11, <1>12, <1>13, <1>14, <1>15 DEF Next

\* The whole state has its type, whatever the documents: build_catalog().
THEOREM TypeCorrect == Spec => []TypeOK
  BY TypeInit, TypeStep, PTL DEF Spec

-----------------------------------------------------------------------------
(***************************************************************************)
(* NeverGuesses is not inductive: an id is unique among the rows only if   *)
(* the index that it was looked up in has every row.  The strengthening    *)
(* says how much of amdgpu.ids the index covers at each point of the call. *)
(***************************************************************************)
AfterIndex == {"match", "precision", "mismatch", "newTarget", "stepping", "assemble", "done"}

Indexed(j) == pc \in AfterIndex \/ (pc = "index" /\ j < n)

IndexComplete ==
    \A j \in DOMAIN src.ids : Indexed(j) =>
        \A alias \in src.ids[j].names : <<Normalize(alias), src.ids[j].device_id>> \in index

StartsAtOne == pc = "ingest" => n = 1

IInv == TypeOK /\ IndexComplete /\ StartsAtOne /\ NeverGuesses

\* Entry i leads to its device id alone.
SoleId(row, id) ==
    \A j \in DOMAIN src.ids :
        (\E alias \in src.ids[j].names : Normalize(alias) = Normalize(CandidateName(row)))
        => src.ids[j].device_id = id

\* A complete index has every id that the rows give a name: the lookup at
\* match_gpu_device_ids.py:76.
LEMMA CandidatesComplete ==
    ASSUME IInv, pc = "match", NEW d, Candidates = {d}
    PROVE  SoleId(gpus[n].row, d)
<1> DEFINE key == Normalize(CandidateName(gpus[n].row))
<1> SUFFICES ASSUME NEW j \in DOMAIN src.ids,
                    NEW alias \in src.ids[j].names, Normalize(alias) = key
             PROVE  src.ids[j].device_id = d
  BY DEF SoleId
<1>1. <<key, src.ids[j].device_id>> \in index
  BY DEF IInv, IndexComplete, Indexed, AfterIndex
<1>2. src.ids[j].device_id \in DeviceId
  BY <1>1 DEF IInv, TypeOK
<1>3. src.ids[j].device_id \in Candidates
  BY <1>1, <1>2 DEF Candidates
<1> QED
  BY <1>3

\* What the joins' assignments leave of each entry.
LEMMA FieldRead ==
    ASSUME NEW e \in GpuEntry, NEW v
    PROVE  /\ [e EXCEPT !.device_id = v].row = e.row
           /\ [e EXCEPT !.device_id = v].device_id = v
           /\ [e EXCEPT !.precision = v].row = e.row
           /\ [e EXCEPT !.precision = v].device_id = e.device_id
           /\ [e EXCEPT !.stepping = v].row = e.row
           /\ [e EXCEPT !.stepping = v].device_id = e.device_id
  BY DEF GpuEntry

\* No join changes the rows that the entries were made from.
LEMMA EntriesKept ==
    ASSUME TypeOK, NEW i \in DOMAIN gpus, NEW v
    PROVE  /\ [gpus EXCEPT ![n].device_id = v][i].row = gpus[i].row
           /\ [gpus EXCEPT ![n].device_id = v][i].device_id = IF i = n THEN v ELSE gpus[i].device_id
           /\ [gpus EXCEPT ![n].precision = v][i].row = gpus[i].row
           /\ [gpus EXCEPT ![n].precision = v][i].device_id = gpus[i].device_id
           /\ [gpus EXCEPT ![n].stepping = v][i].row = gpus[i].row
           /\ [gpus EXCEPT ![n].stepping = v][i].device_id = gpus[i].device_id
<1>1. gpus[i] \in GpuEntry
  BY DEF TypeOK
<1> QED
  BY <1>1, FieldRead

\* A step that changes neither the documents nor any device id.
LEMMA NeverGuessesKept ==
    ASSUME NeverGuesses, src' = src, DOMAIN gpus' = DOMAIN gpus,
           \A i \in DOMAIN gpus : gpus'[i].row = gpus[i].row /\ gpus'[i].device_id = gpus[i].device_id
    PROVE  NeverGuesses'
  BY DEF NeverGuesses

\* Before the ingest there is no entry and no index.
LEMMA IInit == Init => IInv
<1> SUFFICES ASSUME Init PROVE IInv
  OBVIOUS
<1>1. gpus = <<>> /\ pc = "ingest" /\ DOMAIN gpus = {}
  BY DEF Init
<1>2. IndexComplete
  BY SourceTypes, TypeInit DEF Init, IndexComplete, Indexed, AfterIndex
<1>3. StartsAtOne /\ NeverGuesses
  BY <1>1 DEF Init, StartsAtOne, NeverGuesses
<1> QED
  BY <1>2, <1>3, TypeInit DEF IInv

\* Every step keeps the index complete up to the loop's position, and complete
\* once its loop has ended.
LEMMA IndexStep == IInv /\ [Next]_vars => IndexComplete'
<1> SUFFICES ASSUME IInv, [Next]_vars PROVE IndexComplete'
  OBVIOUS
<1> USE DEF IndexComplete, Indexed, AfterIndex
<1>0. TypeOK /\ IndexComplete /\ n \in Nat \ {0} /\ src.ids \in Seq(IdRow)
  BY SourceTypes DEF IInv, TypeOK
<1>1. CASE IndexRow
  <2> SUFFICES ASSUME NEW j \in DOMAIN src.ids, j < n + 1, NEW alias \in src.ids[j].names
               PROVE  <<Normalize(alias), src.ids[j].device_id>> \in index'
    BY <1>1 DEF IndexRow, Iterate
  <2>1. CASE j = n
    BY <1>1, <2>1 DEF IndexRow
  <2>2. CASE j < n
    BY <1>0, <1>1, <2>2 DEF IndexRow, Iterate
  <2> QED
    BY <1>0, <2>1, <2>2
<1>2. CASE EndLoop
  <2>1. CASE pc = "index"
    <3>1. \A j \in DOMAIN src.ids : j < n
      BY <1>0, <1>2, <2>1 DEF EndLoop, Length
    <3> QED
      BY <1>0, <1>2, <2>1, <3>1 DEF EndLoop
  <2>2. CASE pc # "index"
    BY <1>0, <1>2, <2>2 DEF EndLoop, NextStage
  <2> QED
    BY <2>1, <2>2
<1>3. CASE IngestRaises \/ MatchRaises \/ Assemble
  BY <1>0, <1>3 DEF IngestRaises, MatchRaises, Assemble
<1>7. CASE Ingest
  <2>1. n' = 1 /\ pc' = "index" /\ src' = src
    BY <1>7 DEF IInv, StartsAtOne, Ingest
  <2>2. \A j \in DOMAIN src.ids : ~(j < 1)
    BY <1>0
  <2> QED
    BY <2>1, <2>2
<1>4. CASE MatchNone \/ MatchAmbiguous \/ MatchOne
  BY <1>0, <1>4 DEF MatchNone, MatchAmbiguous, MatchOne, Match, Iterate
<1>5. CASE JoinPrecision \/ CheckMismatch \/ CheckNewTarget \/ SkipStepping \/ JoinStepping
  BY <1>0, <1>5 DEF JoinPrecision, CheckMismatch, CheckNewTarget, SkipStepping, JoinStepping, Iterate
<1>6. CASE UNCHANGED vars
  BY <1>0, <1>6 DEF vars
<1> QED
  BY <1>1, <1>2, <1>3, <1>4, <1>5, <1>6, <1>7 DEF Next

\* The call is at position 1 until it has ingested.
LEMMA StartStep == IInv /\ [Next]_vars => StartsAtOne'
  BY DEF IInv, StartsAtOne, Next, vars, Ingest, IngestRaises, IndexRow, MatchNone, MatchAmbiguous, MatchOne,
         Match, MatchRaises, JoinPrecision, CheckMismatch, CheckNewTarget, SkipStepping, JoinStepping,
         EndLoop, NextStage, Assemble, Iterate

\* No step gives an entry an id that some row of its name disagrees with.
LEMMA NeverGuessesStep == IInv /\ [Next]_vars => NeverGuesses'
<1> SUFFICES ASSUME IInv, [Next]_vars PROVE NeverGuesses'
  OBVIOUS
<1>0. NeverGuesses /\ TypeOK
  BY DEF IInv
<1>1. CASE Ingest
  <2>1. \A i \in DOMAIN gpus' : gpus'[i].device_id = NONE
    BY <1>1 DEF Ingest, FreshEntry
  <2> QED
    BY <2>1 DEF NeverGuesses
<1>2. CASE (MatchOne \/ MatchRaises) /\ GiveId
  <2>1. PICK d \in Candidates : Candidates = {d} /\ gpus' = [gpus EXCEPT ![n].device_id = d]
    BY <1>2 DEF GiveId
  <2>2. SoleId(gpus[n].row, d)
    BY <1>2, <2>1, CandidatesComplete DEF MatchOne, Match, MatchRaises, Iterate
  <2>3. DOMAIN gpus' = DOMAIN gpus /\ src' = src
    BY <1>2, <2>1 DEF MatchOne, Match, MatchRaises, Iterate
  <2>4. \A i \in DOMAIN gpus :
           /\ gpus'[i].row = gpus[i].row
           /\ gpus'[i].device_id = IF i = n THEN d ELSE gpus[i].device_id
    BY <1>0, <2>1, EntriesKept
  <2> QED
    BY <1>0, <2>2, <2>3, <2>4 DEF NeverGuesses, SoleId
<1>3. CASE JoinPrecision
  <2>0. (\E v : gpus' = [gpus EXCEPT ![n].precision = v]) \/ gpus' = gpus
    BY <1>3 DEF JoinPrecision
  <2>1. \A i \in DOMAIN gpus : gpus'[i].row = gpus[i].row /\ gpus'[i].device_id = gpus[i].device_id
    <3>1. ASSUME NEW v, gpus' = [gpus EXCEPT ![n].precision = v], NEW i \in DOMAIN gpus
          PROVE  gpus'[i].row = gpus[i].row /\ gpus'[i].device_id = gpus[i].device_id
      BY <1>0, <3>1, EntriesKept
    <3> QED
      BY <2>0, <3>1
  <2>2. src' = src /\ DOMAIN gpus' = DOMAIN gpus
    BY <2>0, <1>3 DEF JoinPrecision, Iterate
  <2> QED
    BY <1>0, <2>1, <2>2, NeverGuessesKept
<1>4. CASE JoinStepping
  <2>0. (\E v : gpus' = [gpus EXCEPT ![n].stepping = v]) \/ gpus' = gpus
    BY <1>4 DEF JoinStepping
  <2>1. \A i \in DOMAIN gpus : gpus'[i].row = gpus[i].row /\ gpus'[i].device_id = gpus[i].device_id
    <3>1. ASSUME NEW v, gpus' = [gpus EXCEPT ![n].stepping = v], NEW i \in DOMAIN gpus
          PROVE  gpus'[i].row = gpus[i].row /\ gpus'[i].device_id = gpus[i].device_id
      BY <1>0, <3>1, EntriesKept
    <3> QED
      BY <2>0, <3>1
  <2>2. src' = src /\ DOMAIN gpus' = DOMAIN gpus
    BY <2>0, <1>4 DEF JoinStepping, Iterate
  <2> QED
    BY <1>0, <2>1, <2>2, NeverGuessesKept
<1>5. CASE UNCHANGED <<src, gpus>>
  BY <1>0, <1>5 DEF NeverGuesses
<1> QED
  BY <1>1, <1>2, <1>3, <1>4, <1>5
  DEF Next, vars, IngestRaises, IndexRow, MatchNone, MatchAmbiguous, MatchOne, Match, MatchRaises, CheckMismatch,
      CheckNewTarget, SkipStepping, EndLoop, Assemble, Iterate

\* The inductive invariant is kept by every step.
LEMMA IStep == IInv /\ [Next]_vars => IInv'
  BY TypeStep, IndexStep, StartStep, NeverGuessesStep DEF IInv

\* "Never guessed", of every list of documents: an entry has a device id only
\* while every row that names it carries that id (match_gpu_device_ids.py:10).
THEOREM NeverGuessesHolds == Spec => []NeverGuesses
<1>1. IInv => NeverGuesses
  BY DEF IInv
<1> QED
  BY <1>1, IInit, IStep, PTL DEF Spec

-----------------------------------------------------------------------------
(***************************************************************************)
(* The state is a function of the documents and of how far the loops are:  *)
(* each entry has what the loops behind it have joined, and each finding   *)
(* that the rows behind deserve has been reported, and no other.  At the   *)
(* end this is the catalog and the report of CatalogReference.             *)
(***************************************************************************)
Turn == [ingest |-> 0, index |-> 1, match |-> 2, precision |-> 3, mismatch |-> 4, newTarget |-> 5,
         stepping |-> 6, assemble |-> 7, done |-> 8]

Loops == DOMAIN NextStage

\* How many rows of the loop are behind the program.
Behind(stage) ==
    IF Turn[pc] = Turn[stage] THEN n - 1
    ELSE IF Turn[pc] > Turn[stage] THEN Length(stage)
    ELSE 0

\* No loop runs beyond its last row.
AtOK == pc \in Loops => n <= Length(pc) + 1

\* Nothing is joined that does not parse.
ParsesOK == pc \notin {"ingest", "raised"} => src.parses

\* No entry is there before the rows are.
NothingYet == pc = "ingest" => gpus = <<>>

\* The index has nothing that the rows do not say.
IndexSound ==
    \A pair \in index : \E j \in 1..Len(src.ids) : \E alias \in src.ids[j].names :
        pair = <<Normalize(alias), src.ids[j].device_id>>

EntriesOK ==
    pc # "ingest" =>
        /\ Len(gpus) = Len(src.gpus)
        /\ \A i \in 1..Len(src.gpus) :
              /\ gpus[i].row = src.gpus[i]
              /\ gpus[i].device_id = IF i <= Behind("match") THEN Reference!DeviceIdOf(src, i) ELSE NONE
              /\ gpus[i].precision =
                    IF i <= Behind("precision") THEN PrecisionBlock(src, src.gpus[i].generation) ELSE {}
              /\ gpus[i].stepping = IF i <= Behind("stepping") THEN Reference!SteppingOf(src, i) ELSE NONE

NamedOK == \A i \in 1..Behind("match") : src.gpus[i].product_name # NONE

\* The loop that reports a finding, and the positions that deserve it.
LoopOf == [unmatched |-> "match", ambiguous |-> "match", precision |-> "precision", mismatch |-> "mismatch",
           newTarget |-> "newTarget", stepping |-> "stepping"]

Deserves(s, kind, i) ==
    \/ kind = "unmatched" /\ Reference!Unmatched(s, i)
    \/ kind = "ambiguous" /\ Reference!Ambiguous(s, i)
    \/ kind = "precision" /\ PrecisionBlock(s, s.gpus[i].generation) = {}
    \/ kind = "mismatch" /\ Mismatch(s, s.gpus[i].gfx_target, s.gpus[i].generation)
    \/ kind = "newTarget" /\ Reference!IsNewTarget(s, i)
    \/ kind = "stepping" /\ HasSubarch(s, s.gpus[i].gfx_target) /\ Reference!SteppingOf(s, i) = NONE

WarnedOK ==
    \A kind \in WarningKinds : \A i \in Nat \ {0} :
        WarnedAbout(kind, i) <=> i <= Behind(LoopOf[kind]) /\ Deserves(src, kind, i)

CatalogOK == catalog = IF pc = "done" THEN Reference!CatalogOf(src) ELSE NONE

SoFarOK == pc # "raised" => EntriesOK /\ NamedOK /\ WarnedOK

FullInv ==
    IInv /\ AtOK /\ ParsesOK /\ NothingYet /\ IndexSound /\ SoFarOK /\ CatalogOK /\ VariantsStayApart

\* The reference reads the documents as the joins do.
LEMMA SameReading ==
    /\ \A name : Reference!Normalize(name) = Normalize(name)
    /\ \A row : Reference!CandidateName(row) = CandidateName(row)
    /\ \A s, generation : Reference!PrecisionBlock(s, generation) = PrecisionBlock(s, generation)
    /\ \A s, target : Reference!LlvmRowOf(s, target) = LlvmRowOf(s, target)
    /\ \A s, target : Reference!HasSubarch(s, target) = HasSubarch(s, target)
    /\ \A s, target, generation : Reference!Mismatch(s, target, generation) = Mismatch(s, target, generation)
    /\ \A subarch : Reference!Stepping(subarch) = Stepping(subarch)
    /\ Reference!SourceRecord = SourceRecord
<1>1. \A name : Reference!Normalize(name) = Normalize(name)
  BY DEF Reference!Normalize, Normalize, Reference!StripInstinct, StripInstinct, Reference!StripAmd, StripAmd,
         Reference!StripGraphics, StripGraphics, Reference!DropFirst, DropFirst
<1>2. /\ \A s, target : Reference!LlvmRowsOf(s, target) = LlvmRowsOf(s, target)
      /\ \A s, target : Reference!LlvmRowOf(s, target) = LlvmRowOf(s, target)
  BY DEF Reference!LlvmRowsOf, LlvmRowsOf, Reference!LastOf, LastOf, Reference!LlvmRowOf, LlvmRowOf
<1>3. /\ \A row : Reference!CandidateName(row) = CandidateName(row)
      /\ \A s, generation : Reference!PrecisionBlock(s, generation) = PrecisionBlock(s, generation)
      /\ \A subarch : Reference!Stepping(subarch) = Stepping(subarch)
      /\ \A generation : Reference!Alias(generation) = Alias(generation)
  BY DEF Reference!CandidateName, CandidateName, Reference!PrecisionBlock, PrecisionBlock, Reference!Alias, Alias,
         Reference!Stepping, Stepping
<1>4. \A s, target : Reference!HasSubarch(s, target) = HasSubarch(s, target)
  BY <1>2 DEF Reference!HasSubarch, HasSubarch
<1>5. \A s, target, generation : Reference!Mismatch(s, target, generation) = Mismatch(s, target, generation)
  BY <1>2, <1>3 DEF Reference!Mismatch, Mismatch
<1>6. Reference!SourceRecord = SourceRecord
  BY DEF Reference!SourceRecord, SourceRecord, Reference!GpuRow, GpuRow, Reference!IdRow, IdRow,
         Reference!LlvmRow, LlvmRow, Reference!Name, Name
<1> QED
  BY <1>1, <1>2, <1>3, <1>4, <1>5, <1>6

\* The turns are those of the loops.
LEMMA TurnIs ==
    /\ Loops = {"index", "match", "precision", "mismatch", "newTarget", "stepping"}
    /\ Turn["ingest"] = 0 /\ Turn["index"] = 1 /\ Turn["match"] = 2 /\ Turn["precision"] = 3
    /\ Turn["mismatch"] = 4 /\ Turn["newTarget"] = 5 /\ Turn["stepping"] = 6 /\ Turn["assemble"] = 7
    /\ Turn["done"] = 8
    /\ \A stage \in Loops : Turn[stage] \in 1..6 /\ Turn[NextStage[stage]] = Turn[stage] + 1
    /\ \A stage, other \in Loops : Turn[stage] = Turn[other] => stage = other
    /\ \A kind \in WarningKinds : LoopOf[kind] \in Loops
<1>1. Loops = {"index", "match", "precision", "mismatch", "newTarget", "stepping"}
  BY DEF Loops, NextStage
<1>2. /\ Turn["ingest"] = 0 /\ Turn["index"] = 1 /\ Turn["match"] = 2 /\ Turn["precision"] = 3
      /\ Turn["mismatch"] = 4 /\ Turn["newTarget"] = 5 /\ Turn["stepping"] = 6 /\ Turn["assemble"] = 7
      /\ Turn["done"] = 8
  BY DEF Turn
<1>3. \A stage \in Loops : Turn[stage] \in 1..6 /\ Turn[NextStage[stage]] = Turn[stage] + 1
  BY <1>1, <1>2 DEF NextStage
<1>4. \A stage, other \in Loops : Turn[stage] = Turn[other] => stage = other
  BY <1>1, <1>2
<1>5. \A kind \in WarningKinds : LoopOf[kind] \in Loops
  BY <1>1 DEF WarningKinds, LoopOf
<1> QED
  BY <1>1, <1>2, <1>3, <1>4, <1>5

\* Every loop has a number of rows, and is at one of them or behind the last.
LEMMA LengthType ==
    ASSUME TypeOK, NEW stage
    PROVE  Length(stage) \in Nat
  BY SourceTypes DEF Length

\* The rows behind are some number of them.
LEMMA BehindType ==
    ASSUME TypeOK, AtOK, pc # "raised", NEW stage \in Loops
    PROVE  Behind(stage) \in Nat /\ Behind(stage) <= Length(stage)
<1>1. Length(stage) \in Nat /\ n \in Nat \ {0} /\ Turn[stage] \in 1..6 /\ Turn[pc] \in 0..8
  BY LengthType, TurnIs DEF TypeOK, Stages
<1>2. Turn[pc] = Turn[stage] => pc = stage
  BY TurnIs DEF TypeOK, Stages
<1> QED
  BY <1>1, <1>2 DEF Behind, AtOK

\* An iteration leaves its row behind, and nothing of another loop.
LEMMA BehindMoves ==
    ASSUME TypeOK, NEW stage \in Loops, Iterate(stage), NEW other \in Loops
    PROVE  /\ src' = src /\ pc' = pc /\ n' = n + 1 /\ n \in 1..Length(stage) /\ Behind(stage) = n - 1
           /\ Behind(other)' = IF other = stage THEN n ELSE Behind(other)
<1>1. src' = src /\ pc = stage /\ pc' = pc /\ n' = n + 1 /\ n <= Length(stage) /\ n \in Nat \ {0}
  BY DEF Iterate, TypeOK
<1>2. Length(other)' = Length(other)
  BY <1>1 DEF Length
<1>3. other # stage => Turn[pc] # Turn[other]
  BY <1>1, TurnIs
<1>4. Length(stage) \in Nat
  BY LengthType
<1> QED
  BY <1>1, <1>2, <1>3, <1>4 DEF Behind

\* A step between two loops leaves no row behind.
LEMMA BehindKept ==
    ASSUME TypeOK, AtOK, StartsAtOne, pc # "raised", NEW stage \in Loops,
           Ingest \/ EndLoop \/ Assemble \/ UNCHANGED vars
    PROVE  src' = src /\ Behind(stage)' = Behind(stage)
<1>0. Turn[stage] \in 1..6 /\ Length(stage) \in Nat /\ n \in Nat \ {0}
  BY TurnIs, LengthType DEF TypeOK
<1>1. CASE Ingest
  <2>1. pc = "ingest" /\ n = 1 /\ pc' = "index" /\ n' = n /\ src' = src
    BY <1>1 DEF Ingest, StartsAtOne
  <2> QED
    BY <1>0, <2>1, TurnIs DEF Behind
<1>2. CASE EndLoop
  <2>1. pc \in Loops /\ pc' = NextStage[pc] /\ n' = 1 /\ src' = src /\ n > Length(pc)
    BY <1>2 DEF EndLoop, Loops
  <2>2. Length(pc) = n - 1
    BY <1>0, <2>1, LengthType DEF AtOK
  <2>3. Turn[pc] \in 1..6 /\ Turn[pc'] = Turn[pc] + 1 /\ (Turn[pc] = Turn[stage] => pc = stage)
    BY <2>1, TurnIs
  <2>4. Behind(stage)' = IF Turn[pc'] = Turn[stage] THEN 0 ELSE IF Turn[pc'] > Turn[stage] THEN Length(stage) ELSE 0
    BY <2>1 DEF Behind, Length
  <2> QED
    BY <1>0, <2>1, <2>2, <2>3, <2>4 DEF Behind
<1>3. CASE Assemble
  <2>1. pc = "assemble" /\ pc' = "done" /\ src' = src
    BY <1>3 DEF Assemble
  <2>2. Behind(stage)' = Length(stage)' /\ Behind(stage) = Length(stage)
    BY <1>0, <2>1, TurnIs DEF Behind
  <2> QED
    BY <2>1, <2>2 DEF Length
<1>4. CASE UNCHANGED vars
  BY <1>4 DEF vars, Behind, Length
<1> QED
  BY <1>1, <1>2, <1>3, <1>4

\* Every step keeps the program within its loop.
LEMMA AtStep == TypeOK /\ AtOK /\ StartsAtOne /\ [Next]_vars => AtOK'
<1> SUFFICES ASSUME TypeOK, AtOK, StartsAtOne, [Next]_vars PROVE AtOK'
  OBVIOUS
<1>1. ASSUME NEW stage \in Loops, Iterate(stage) PROVE AtOK'
  <2>1. pc = stage /\ pc' = pc /\ src' = src /\ n' = n + 1 /\ n <= Length(stage)
    BY <1>1 DEF Iterate
  <2>2. Length(stage)' = Length(stage) /\ Length(stage) \in Nat /\ n \in Nat
    BY <2>1, LengthType DEF Length, TypeOK
  <2> QED
    BY <2>1, <2>2 DEF AtOK
<1>2. CASE Ingest \/ EndLoop
  <2>1. n' = 1 /\ src' = src
    BY <1>2 DEF Ingest, EndLoop, StartsAtOne
  <2>2. Length(pc)' \in Nat
    BY <2>1, SourceTypes DEF Length
  <2> QED
    BY <2>1, <2>2 DEF AtOK
<1>3. CASE IngestRaises \/ MatchRaises \/ Assemble
  BY <1>3, TurnIs DEF IngestRaises, MatchRaises, Assemble, AtOK
<1>4. CASE UNCHANGED vars
  BY <1>4 DEF vars, AtOK, Length
<1> QED
  BY <1>1, <1>2, <1>3, <1>4, TurnIs
  DEF Next, IndexRow, MatchNone, MatchAmbiguous, MatchOne, Match, JoinPrecision, CheckMismatch, CheckNewTarget,
      SkipStepping, JoinStepping

\* The index is built of nothing but the rows.
LEMMA IndexSoundStep == TypeOK /\ IndexSound /\ [Next]_vars => IndexSound'
<1> SUFFICES ASSUME TypeOK, IndexSound, [Next]_vars PROVE IndexSound'
  OBVIOUS
<1>1. CASE IndexRow
  <2>1. /\ src' = src /\ n \in 1..Len(src.ids)
        /\ index' = index \cup {<<Normalize(alias), src.ids[n].device_id>> : alias \in src.ids[n].names}
    BY <1>1 DEF IndexRow, Iterate, Length, TypeOK
  <2> QED
    BY <2>1 DEF IndexSound
<1>2. CASE ~IndexRow
  <2>1. src' = src /\ index' = index
    BY <1>2 DEF Next, vars, Ingest, IngestRaises, MatchNone, MatchAmbiguous, MatchOne, Match, MatchRaises,
                JoinPrecision, CheckMismatch, CheckNewTarget, SkipStepping, JoinStepping, EndLoop, Assemble, Iterate
  <2> QED
    BY <2>1 DEF IndexSound
<1> QED
  BY <1>1, <1>2

\* A lookup in the whole index finds the ids that the rows give the name.
LEMMA CandidatesAre ==
    ASSUME IInv, IndexSound, pc = "match"
    PROVE  Candidates = Reference!IdsNamed(src, CandidateName(gpus[n].row))
<1> DEFINE name == CandidateName(gpus[n].row)
           named == {d \in DeviceId : \E j \in 1..Len(src.ids) :
                        /\ src.ids[j].device_id = d
                        /\ \E alias \in src.ids[j].names : Normalize(alias) = Normalize(name)}
<1>1. Reference!IdsNamed(src, name) = named
  BY SameReading DEF Reference!IdsNamed
<1> HIDE DEF name
<1>2. ASSUME NEW d \in DeviceId, <<Normalize(name), d>> \in index PROVE d \in named
  <2>1. PICK j \in 1..Len(src.ids) : \E alias \in src.ids[j].names :
           <<Normalize(name), d>> = <<Normalize(alias), src.ids[j].device_id>>
    BY <1>2 DEF IndexSound
  <2> QED
    BY <2>1
<1>3. ASSUME NEW d \in named PROVE <<Normalize(name), d>> \in index
  <2>1. PICK j \in 1..Len(src.ids) :
           /\ src.ids[j].device_id = d
           /\ \E alias \in src.ids[j].names : Normalize(alias) = Normalize(name)
    OBVIOUS
  <2>2. j \in DOMAIN src.ids
    BY SourceTypes DEF IInv
  <2> QED
    BY <2>1, <2>2 DEF IInv, IndexComplete, Indexed, AfterIndex
<1> QED
  BY <1>1, <1>2, <1>3 DEF Candidates, name

\* A device id is given where the name leads to one, and only there.
LEMMA DeviceIdIs ==
    ASSUME NEW s, NEW i
    PROVE  LET ids == Reference!IdsNamed(s, CandidateName(s.gpus[i]))
           IN  /\ \A d \in DeviceId : ids = {d} =>
                     /\ Reference!DeviceIdOf(s, i) = d
                     /\ ~Deserves(s, "unmatched", i) /\ ~Deserves(s, "ambiguous", i)
               /\ ids = {} =>
                     /\ Reference!DeviceIdOf(s, i) = NONE
                     /\ Deserves(s, "unmatched", i) /\ ~Deserves(s, "ambiguous", i)
               /\ (\E d, e \in ids : d # e) =>
                     /\ Reference!DeviceIdOf(s, i) = NONE
                     /\ ~Deserves(s, "unmatched", i) /\ Deserves(s, "ambiguous", i)
<1> DEFINE ids == Reference!IdsNamed(s, CandidateName(s.gpus[i]))
<1>1. /\ Reference!DeviceIdOf(s, i) = IF \E d \in DeviceId : ids = {d} THEN CHOOSE d \in DeviceId : ids = {d} ELSE NONE
      /\ Deserves(s, "unmatched", i) <=> ids = {}
      /\ Deserves(s, "ambiguous", i) <=> ids # {} /\ Reference!DeviceIdOf(s, i) = NONE
  BY SameReading DEF Deserves, Reference!DeviceIdOf, Reference!Unmatched, Reference!Ambiguous
<1> HIDE DEF ids
<1>2. ASSUME NEW d \in DeviceId, ids = {d}
      PROVE  Reference!DeviceIdOf(s, i) = d /\ d # NONE /\ ids # {}
  BY <1>1, <1>2, NoneAssumption
<1>3. ASSUME ids = {} PROVE Reference!DeviceIdOf(s, i) = NONE
  BY <1>1, <1>3
<1>4. ASSUME NEW d \in ids, NEW e \in ids, d # e PROVE Reference!DeviceIdOf(s, i) = NONE /\ ids # {}
  BY <1>1, <1>4
<1> QED
  BY <1>1, <1>2, <1>3, <1>4 DEF ids

\* What a join's assignment to one entry leaves of all of them.
LEMMA FieldsKept ==
    ASSUME TypeOK, NEW v, NEW i \in 1..Len(gpus)
    PROVE  /\ LET new == [gpus EXCEPT ![n].device_id = v][i]
              IN  /\ new.row = gpus[i].row /\ new.device_id = IF i = n THEN v ELSE gpus[i].device_id
                  /\ new.precision = gpus[i].precision /\ new.stepping = gpus[i].stepping
           /\ LET new == [gpus EXCEPT ![n].precision = v][i]
              IN  /\ new.row = gpus[i].row /\ new.device_id = gpus[i].device_id
                  /\ new.precision = IF i = n THEN v ELSE gpus[i].precision
                  /\ new.stepping = gpus[i].stepping
           /\ LET new == [gpus EXCEPT ![n].stepping = v][i]
              IN  /\ new.row = gpus[i].row /\ new.device_id = gpus[i].device_id
                  /\ new.precision = gpus[i].precision
                  /\ new.stepping = IF i = n THEN v ELSE gpus[i].stepping
<1>1. gpus[i] \in GpuEntry /\ i \in DOMAIN gpus
  BY DEF TypeOK
<1> QED
  BY <1>1 DEF GpuEntry

\* One iteration joins its row and reports on it what the row deserves, and
\* does nothing else.
Advances(stage) ==
    /\ Iterate(stage)
    /\ Len(gpus') = Len(gpus)
    /\ \A i \in 1..Len(gpus) :
          /\ gpus'[i].row = gpus[i].row
          /\ gpus'[i].device_id =
                IF stage = "match" /\ i = n THEN Reference!DeviceIdOf(src, i) ELSE gpus[i].device_id
          /\ gpus'[i].precision =
                IF stage = "precision" /\ i = n THEN PrecisionBlock(src, src.gpus[i].generation) ELSE gpus[i].precision
          /\ gpus'[i].stepping =
                IF stage = "stepping" /\ i = n THEN Reference!SteppingOf(src, i) ELSE gpus[i].stepping
    /\ \A kind \in WarningKinds : \A i \in Nat \ {0} :
          WarnedAbout(kind, i)' <=>
              WarnedAbout(kind, i) \/ (LoopOf[kind] = stage /\ i = n /\ Deserves(src, kind, i))
    /\ stage = "match" => src.gpus[n].product_name # NONE

\* After such an iteration the state is what it should be, one row further.
LEMMA AdvanceStep ==
    ASSUME TypeOK, AtOK, SoFarOK, NEW stage \in Loops, Advances(stage)
    PROVE  SoFarOK'
<1>1. /\ src' = src /\ pc' = pc /\ n' = n + 1 /\ n \in 1..Length(stage) /\ n \in Nat \ {0}
      /\ pc \notin {"raised", "ingest"}
      /\ Behind(stage) = n - 1
      /\ \A other \in Loops : Behind(other)' = IF other = stage THEN n ELSE Behind(other)
  BY BehindMoves, TurnIs DEF Advances, Iterate, TypeOK
<1>2. EntriesOK /\ NamedOK /\ WarnedOK
  BY <1>1 DEF SoFarOK
<1>3. \A other \in Loops : Behind(other) \in Nat
  BY <1>1, BehindType
<1>4. Len(gpus) \in Nat /\ Len(src.gpus) \in Nat /\ Len(gpus) = Len(src.gpus)
  BY <1>1, <1>2, SourceTypes DEF TypeOK, EntriesOK
<1>5. "match" \in Loops /\ "precision" \in Loops /\ "stepping" \in Loops
  BY TurnIs
<1>6. EntriesOK'
  <2>1. \A i \in Nat : \A other \in Loops :
           i <= Behind(other)' <=> i <= Behind(other) \/ (other = stage /\ i = n)
    BY <1>1, <1>3
  <2>2. ASSUME NEW i \in 1..Len(src.gpus)
        PROVE  /\ gpus'[i].row = src.gpus[i]
               /\ gpus'[i].device_id = IF i <= Behind("match")' THEN Reference!DeviceIdOf(src, i) ELSE NONE
               /\ gpus'[i].precision =
                     IF i <= Behind("precision")' THEN PrecisionBlock(src, src.gpus[i].generation) ELSE {}
               /\ gpus'[i].stepping = IF i <= Behind("stepping")' THEN Reference!SteppingOf(src, i) ELSE NONE
    <3>1. i \in 1..Len(gpus) /\ i \in Nat
      BY <1>4
    <3>2. /\ gpus[i].row = src.gpus[i]
          /\ gpus[i].device_id = IF i <= Behind("match") THEN Reference!DeviceIdOf(src, i) ELSE NONE
          /\ gpus[i].precision = IF i <= Behind("precision") THEN PrecisionBlock(src, src.gpus[i].generation) ELSE {}
          /\ gpus[i].stepping = IF i <= Behind("stepping") THEN Reference!SteppingOf(src, i) ELSE NONE
      BY <1>1, <1>2 DEF EntriesOK
    <3> QED
      BY <1>5, <2>1, <3>1, <3>2 DEF Advances
  <2>3. Len(gpus') = Len(src.gpus)
    BY <1>4 DEF Advances
  <2> QED
    BY <1>1, <2>2, <2>3 DEF EntriesOK
<1>7. NamedOK'
  <2>1. CASE stage = "match"
    <3>1. Behind("match")' = n /\ Behind("match") = n - 1
      BY <1>1, <1>5, <2>1
    <3>2. \A i \in 1..n : i \in 1..(n - 1) \/ i = n
      BY <1>1
    <3> QED
      BY <1>1, <1>2, <2>1, <3>1, <3>2 DEF NamedOK, Advances
  <2>2. CASE stage # "match"
    BY <1>1, <1>2, <1>5, <2>2 DEF NamedOK
  <2> QED
    BY <2>1, <2>2
<1>8. WarnedOK'
  <2> SUFFICES ASSUME NEW kind \in WarningKinds, NEW i \in Nat \ {0}
               PROVE  WarnedAbout(kind, i)' <=> i <= Behind(LoopOf[kind])' /\ Deserves(src, kind, i)
    BY <1>1 DEF WarnedOK
  <2>1. WarnedAbout(kind, i) <=> i <= Behind(LoopOf[kind]) /\ Deserves(src, kind, i)
    BY <1>2 DEF WarnedOK
  <2>2. WarnedAbout(kind, i)' <=> WarnedAbout(kind, i) \/ (LoopOf[kind] = stage /\ i = n /\ Deserves(src, kind, i))
    BY DEF Advances
  <2>3. LoopOf[kind] \in Loops
    BY TurnIs
  <2>4. i <= Behind(LoopOf[kind])' <=> i <= Behind(LoopOf[kind]) \/ (LoopOf[kind] = stage /\ i = n)
    BY <1>1, <1>3, <2>3
  <2> QED
    BY <2>1, <2>2, <2>4
<1> QED
  BY <1>6, <1>7, <1>8 DEF SoFarOK

-----------------------------------------------------------------------------
\* A finding reported about the row at hand is one more finding.
LEMMA WarnAdds ==
    ASSUME NEW kind \in WarningKinds, Warn(kind)
    PROVE  \A other \in WarningKinds : \A i \in Nat \ {0} :
              WarnedAbout(other, i)' <=> WarnedAbout(other, i) \/ (other = kind /\ i = n)
<1>1. warned' = warned \cup {[kind |-> kind, at |-> n]}
  BY DEF Warn
<1>2. \A other, i : [kind |-> other, at |-> i] = [kind |-> kind, at |-> n] <=> other = kind /\ i = n
  OBVIOUS
<1> QED
  BY <1>1, <1>2 DEF WarnedAbout

\* Which loop reports what.
LEMMA LoopOfIs ==
    \A kind \in WarningKinds :
        /\ LoopOf[kind] = "match" <=> kind \in {"unmatched", "ambiguous"}
        /\ LoopOf[kind] = "precision" <=> kind = "precision"
        /\ LoopOf[kind] = "mismatch" <=> kind = "mismatch"
        /\ LoopOf[kind] = "newTarget" <=> kind = "newTarget"
        /\ LoopOf[kind] = "stepping" <=> kind = "stepping"
        /\ LoopOf[kind] # "index"
  BY DEF WarningKinds, LoopOf

\* Building the index joins nothing and reports nothing.
LEMMA IndexAdvances == IndexRow => Advances("index")
<1> SUFFICES ASSUME IndexRow PROVE Advances("index")
  OBVIOUS
<1>1. Iterate("index") /\ gpus' = gpus /\ warned' = warned
  BY DEF IndexRow
<1> QED
  BY <1>1, LoopOfIs DEF Advances, WarnedAbout

\* A product is matched, or reported under the one reason it is not matched for.
LEMMA MatchAdvances ==
    ASSUME IInv, IndexSound, AtOK, SoFarOK, MatchNone \/ MatchAmbiguous \/ MatchOne
    PROVE  Advances("match")
<1> DEFINE ids == Reference!IdsNamed(src, CandidateName(src.gpus[n]))
<1>1. Iterate("match") /\ gpus[n].row.product_name # NONE /\ pc = "match" /\ "match" \in WarningKinds \cup Loops
  BY TurnIs DEF MatchNone, MatchAmbiguous, MatchOne, Match, Iterate
<1>2. TypeOK /\ EntriesOK /\ "match" \in Loops
  BY <1>1, TurnIs DEF IInv, SoFarOK
<1>3. /\ n \in 1..Len(src.gpus) /\ Len(gpus) = Len(src.gpus) /\ gpus[n].row = src.gpus[n]
      /\ n \in Nat \ {0} /\ Behind("match") = n - 1
  <2>1. n \in 1..Length("match") /\ Behind("match") = n - 1 /\ n \in Nat \ {0}
    BY <1>1, <1>2, BehindMoves DEF TypeOK
  <2>2. Length("match") = Len(src.gpus)
    BY DEF Length
  <2> QED
    BY <1>1, <1>2, <2>1, <2>2 DEF EntriesOK
<1>4. Candidates = ids
  BY <1>1, <1>3, CandidatesAre
<1>5. gpus[n].device_id = NONE
  BY <1>1, <1>2, <1>3 DEF EntriesOK
<1>6. src.gpus[n].product_name # NONE
  BY <1>1, <1>3
<1>7. \A kind \in WarningKinds : LoopOf[kind] = "match" <=> kind \in {"unmatched", "ambiguous"}
  BY LoopOfIs
<1>8. "unmatched" \in WarningKinds /\ "ambiguous" \in WarningKinds
  BY DEF WarningKinds
<1>9. /\ \A d \in DeviceId : ids = {d} =>
             /\ Reference!DeviceIdOf(src, n) = d
             /\ ~Deserves(src, "unmatched", n) /\ ~Deserves(src, "ambiguous", n)
      /\ ids = {} => /\ Reference!DeviceIdOf(src, n) = NONE
                     /\ Deserves(src, "unmatched", n) /\ ~Deserves(src, "ambiguous", n)
      /\ (\E d, e \in ids : d # e) => /\ Reference!DeviceIdOf(src, n) = NONE
                                      /\ ~Deserves(src, "unmatched", n) /\ Deserves(src, "ambiguous", n)
  BY DeviceIdIs
<1> HIDE DEF ids
<1>10. CASE MatchNone
  <2>1. gpus' = gpus /\ ids = {} /\ Warn("unmatched")
    BY <1>4, <1>10 DEF MatchNone
  <2>2. \A kind \in WarningKinds : \A i \in Nat \ {0} :
           WarnedAbout(kind, i)' <=> WarnedAbout(kind, i) \/ (kind = "unmatched" /\ i = n)
    BY <1>8, <2>1, WarnAdds
  <2> QED
    BY <1>1, <1>5, <1>6, <1>7, <1>9, <2>1, <2>2 DEF Advances
<1>11. CASE MatchAmbiguous
  <2>1. gpus' = gpus /\ (\E d, e \in ids : d # e) /\ Warn("ambiguous")
    BY <1>4, <1>11 DEF MatchAmbiguous
  <2>2. \A kind \in WarningKinds : \A i \in Nat \ {0} :
           WarnedAbout(kind, i)' <=> WarnedAbout(kind, i) \/ (kind = "ambiguous" /\ i = n)
    BY <1>8, <2>1, WarnAdds
  <2> QED
    BY <1>1, <1>5, <1>6, <1>7, <1>9, <2>1, <2>2 DEF Advances
<1>12. CASE MatchOne
  <2>1. PICK d \in Candidates : Candidates = {d} /\ gpus' = [gpus EXCEPT ![n].device_id = d]
    BY <1>12 DEF MatchOne, GiveId
  <2>2. d \in DeviceId /\ ids = {d} /\ warned' = warned
    BY <1>4, <1>12, <2>1 DEF MatchOne, Candidates
  <2>3. \A kind \in WarningKinds : LoopOf[kind] = "match" => ~Deserves(src, kind, n)
    BY <1>7, <1>9, <2>2
  <2>4. Len(gpus') = Len(gpus)
    BY <1>2, <2>1 DEF TypeOK
  <2>5. Reference!DeviceIdOf(src, n) = d
    BY <1>9, <2>2
  <2> QED
    BY <1>1, <1>2, <1>6, <2>1, <2>2, <2>3, <2>4, <2>5, FieldsKept DEF Advances, WarnedAbout
<1> QED
  BY <1>10, <1>11, <1>12

\* A product gets its generation's block, or is reported.
LEMMA PrecisionAdvances ==
    ASSUME TypeOK, AtOK, SoFarOK, JoinPrecision
    PROVE  Advances("precision")
<1> DEFINE block == PrecisionBlock(src, src.gpus[n].generation)
<1>1. Iterate("precision") /\ pc = "precision" /\ "precision" \in Loops /\ "precision" \in WarningKinds
  BY TurnIs DEF JoinPrecision, Iterate, WarningKinds
<1>2. EntriesOK
  BY <1>1 DEF SoFarOK
<1>3. /\ n \in 1..Len(src.gpus) /\ Len(gpus) = Len(src.gpus) /\ gpus[n].row = src.gpus[n]
      /\ n \in Nat \ {0} /\ gpus[n].precision = {}
  <2>1. n \in 1..Length("precision") /\ Behind("precision") = n - 1 /\ n \in Nat \ {0}
    BY <1>1, BehindMoves DEF TypeOK
  <2>2. Length("precision") = Len(src.gpus)
    BY DEF Length
  <2> QED
    BY <1>1, <1>2, <2>1, <2>2 DEF EntriesOK
<1>4. IF block # {}
        THEN gpus' = [gpus EXCEPT ![n].precision = block] /\ warned' = warned
        ELSE Warn("precision") /\ gpus' = gpus
  BY <1>3 DEF JoinPrecision
<1>5. Deserves(src, "precision", n) <=> block = {}
  BY DEF Deserves
<1> HIDE DEF block
<1>6. \A kind \in WarningKinds : LoopOf[kind] = "precision" <=> kind = "precision"
  BY LoopOfIs
<1>7. CASE block # {}
  <2>1. gpus' = [gpus EXCEPT ![n].precision = block] /\ warned' = warned
    BY <1>4, <1>7
  <2>2. Len(gpus') = Len(gpus)
    BY <2>1 DEF TypeOK
  <2>3. block = PrecisionBlock(src, src.gpus[n].generation)
    BY DEF block
  <2>4. \A i \in 1..Len(gpus) :
           /\ gpus'[i].row = gpus[i].row /\ gpus'[i].device_id = gpus[i].device_id
           /\ gpus'[i].precision = IF i = n THEN block ELSE gpus[i].precision
           /\ gpus'[i].stepping = gpus[i].stepping
    BY <2>1, FieldsKept
  <2> QED
    BY <1>1, <1>5, <1>6, <1>7, <2>1, <2>2, <2>3, <2>4 DEF Advances, WarnedAbout
<1>8. CASE block = {}
  <2>1. gpus' = gpus /\ Warn("precision")
    BY <1>4, <1>8
  <2>2. \A kind \in WarningKinds : \A i \in Nat \ {0} :
           WarnedAbout(kind, i)' <=> WarnedAbout(kind, i) \/ (kind = "precision" /\ i = n)
    BY <1>1, <2>1, WarnAdds
  <2> QED
    BY <1>1, <1>3, <1>5, <1>6, <1>8, <2>1, <2>2 DEF Advances, block
<1> QED
  BY <1>7, <1>8

\* The cross-check reports its disagreements and changes no entry.
LEMMA CheckAdvances ==
    ASSUME TypeOK, AtOK, SoFarOK
    PROVE  /\ CheckMismatch => Advances("mismatch")
           /\ CheckNewTarget => Advances("newTarget")
<1>1. ASSUME CheckMismatch PROVE Advances("mismatch")
  <2>1. /\ Iterate("mismatch") /\ pc = "mismatch" /\ "mismatch" \in Loops /\ "mismatch" \in WarningKinds
        /\ gpus' = gpus
    BY <1>1, TurnIs DEF CheckMismatch, Iterate, WarningKinds
  <2>2. n \in 1..Len(src.gpus) /\ gpus[n].row = src.gpus[n]
    <3>1. n \in 1..Length("mismatch")
      BY <2>1, BehindMoves
    <3> QED
      BY <2>1, <3>1 DEF EntriesOK, SoFarOK, Length
  <2>3. IF Deserves(src, "mismatch", n) THEN Warn("mismatch") ELSE warned' = warned
    BY <1>1, <2>2 DEF CheckMismatch, Deserves
  <2>4. \A kind \in WarningKinds : LoopOf[kind] = "mismatch" <=> kind = "mismatch"
    BY LoopOfIs
  <2>5. CASE Deserves(src, "mismatch", n)
    <3>1. \A kind \in WarningKinds : \A i \in Nat \ {0} :
             WarnedAbout(kind, i)' <=> WarnedAbout(kind, i) \/ (kind = "mismatch" /\ i = n)
      BY <2>1, <2>3, <2>5, WarnAdds
    <3> QED
      BY <2>1, <2>4, <2>5, <3>1 DEF Advances
  <2>6. CASE ~Deserves(src, "mismatch", n)
    BY <2>1, <2>3, <2>4, <2>6 DEF Advances, WarnedAbout
  <2> QED
    BY <2>5, <2>6
<1>2. ASSUME CheckNewTarget PROVE Advances("newTarget")
  <2>1. /\ Iterate("newTarget") /\ pc = "newTarget" /\ "newTarget" \in Loops /\ "newTarget" \in WarningKinds
        /\ gpus' = gpus
    BY <1>2, TurnIs DEF CheckNewTarget, Iterate, WarningKinds
  <2>2. KnownTargets = {src.gpus[i].gfx_target : i \in 1..Len(src.gpus)}
    <3>1. DOMAIN gpus = 1..Len(src.gpus) /\ \A i \in 1..Len(src.gpus) : gpus[i].row = src.gpus[i]
      BY <2>1 DEF EntriesOK, SoFarOK, TypeOK
    <3> QED
      BY <3>1 DEF KnownTargets
  <2>3. IF Deserves(src, "newTarget", n) THEN Warn("newTarget") ELSE warned' = warned
    <3>1. Deserves(src, "newTarget", n) <=> src.llvm[n].generation # NONE /\ src.llvm[n].gfx_target \notin KnownTargets
      BY <2>2 DEF Deserves, Reference!IsNewTarget
    <3> QED
      BY <1>2, <3>1 DEF CheckNewTarget
  <2>4. \A kind \in WarningKinds : LoopOf[kind] = "newTarget" <=> kind = "newTarget"
    BY LoopOfIs
  <2>5. CASE Deserves(src, "newTarget", n)
    <3>1. \A kind \in WarningKinds : \A i \in Nat \ {0} :
             WarnedAbout(kind, i)' <=> WarnedAbout(kind, i) \/ (kind = "newTarget" /\ i = n)
      BY <2>1, <2>3, <2>5, WarnAdds
    <3> QED
      BY <2>1, <2>4, <2>5, <3>1 DEF Advances
  <2>6. CASE ~Deserves(src, "newTarget", n)
    BY <2>1, <2>3, <2>4, <2>6 DEF Advances, WarnedAbout
  <2> QED
    BY <2>5, <2>6
<1> QED
  BY <1>1, <1>2

\* A product gets the stepping of its target, when LLVM has one.
LEMMA SteppingAdvances ==
    ASSUME TypeOK, AtOK, SoFarOK, SkipStepping \/ JoinStepping
    PROVE  Advances("stepping")
<1> DEFINE target == src.gpus[n].gfx_target
           stepping_ == Stepping(LlvmRowOf(src, target).subarch)
<1>1. Iterate("stepping") /\ pc = "stepping" /\ "stepping" \in Loops /\ "stepping" \in WarningKinds
  BY TurnIs DEF SkipStepping, JoinStepping, Iterate, WarningKinds
<1>2. EntriesOK
  BY <1>1 DEF SoFarOK
<1>3. /\ n \in 1..Len(src.gpus) /\ Len(gpus) = Len(src.gpus) /\ gpus[n].row = src.gpus[n]
      /\ n \in Nat \ {0} /\ gpus[n].stepping = NONE
  <2>1. n \in 1..Length("stepping") /\ Behind("stepping") = n - 1 /\ n \in Nat \ {0}
    BY <1>1, BehindMoves DEF TypeOK
  <2>2. Length("stepping") = Len(src.gpus)
    BY DEF Length
  <2> QED
    BY <1>1, <1>2, <2>1, <2>2 DEF EntriesOK
<1>4. /\ Reference!SteppingOf(src, n) = IF HasSubarch(src, target) THEN stepping_ ELSE NONE
      /\ Deserves(src, "stepping", n) <=> HasSubarch(src, target) /\ Reference!SteppingOf(src, n) = NONE
  BY SameReading DEF Deserves, Reference!SteppingOf
<1>5. \/ ~HasSubarch(src, target) /\ gpus' = gpus /\ warned' = warned
      \/ HasSubarch(src, target) /\ stepping_ # NONE /\ gpus' = [gpus EXCEPT ![n].stepping = stepping_] /\ warned' = warned
      \/ HasSubarch(src, target) /\ stepping_ = NONE /\ gpus' = gpus /\ Warn("stepping")
  BY <1>3 DEF SkipStepping, JoinStepping
<1> HIDE DEF target, stepping_
<1>6. \A kind \in WarningKinds : LoopOf[kind] = "stepping" <=> kind = "stepping"
  BY LoopOfIs
<1>7. CASE ~HasSubarch(src, target)
  BY <1>1, <1>3, <1>4, <1>5, <1>6, <1>7 DEF Advances, WarnedAbout
<1>8. CASE HasSubarch(src, target) /\ stepping_ # NONE
  <2>1. gpus' = [gpus EXCEPT ![n].stepping = stepping_] /\ warned' = warned
    BY <1>5, <1>8
  <2>2. Len(gpus') = Len(gpus)
    BY <2>1 DEF TypeOK
  <2> QED
    BY <1>1, <1>4, <1>6, <1>8, <2>1, <2>2, FieldsKept DEF Advances, WarnedAbout
<1>9. CASE HasSubarch(src, target) /\ stepping_ = NONE
  <2>1. gpus' = gpus /\ Warn("stepping")
    BY <1>5, <1>9
  <2>2. \A kind \in WarningKinds : \A i \in Nat \ {0} :
           WarnedAbout(kind, i)' <=> WarnedAbout(kind, i) \/ (kind = "stepping" /\ i = n)
    BY <1>1, <2>1, WarnAdds
  <2> QED
    BY <1>1, <1>3, <1>4, <1>6, <1>9, <2>1, <2>2 DEF Advances
<1> QED
  BY <1>5, <1>7, <1>8, <1>9

-----------------------------------------------------------------------------
\* The ingest makes the entries of the rows, with nothing joined to them yet.
LEMMA IngestSoFar ==
    ASSUME IInv, AtOK, SoFarOK, Ingest
    PROVE  SoFarOK'
<1>1. /\ pc = "ingest" /\ pc' = "index" /\ src' = src /\ warned' = warned
      /\ gpus' = [i \in 1..Len(src.gpus) |-> FreshEntry(src.gpus[i])]
      /\ TypeOK /\ StartsAtOne
  BY DEF Ingest, IInv
<1>2. \A stage \in Loops : Behind(stage) = 0 /\ Behind(stage)' = 0
  <2>1. \A stage \in Loops : Behind(stage)' = Behind(stage)
    BY <1>1, BehindKept
  <2>2. \A stage \in Loops : Behind(stage) = 0
    BY <1>1, TurnIs DEF Behind
  <2> QED
    BY <2>1, <2>2
<1>3. "match" \in Loops /\ "precision" \in Loops /\ "stepping" \in Loops
  BY TurnIs
<1>4. EntriesOK'
  <2>1. Len(src.gpus) \in Nat
    BY <1>1, SourceTypes
  <2>2. Len(gpus') = Len(src.gpus) /\ \A i \in 1..Len(src.gpus) : gpus'[i] = FreshEntry(src.gpus[i])
    BY <1>1, <2>1
  <2>3. \A i \in 1..Len(src.gpus) : ~(i <= 0)
    BY <2>1
  <2> QED
    BY <1>1, <1>2, <1>3, <2>2, <2>3 DEF EntriesOK, FreshEntry
<1>5. NamedOK'
  BY <1>2, <1>3 DEF NamedOK
<1>6. WarnedOK'
  <2> SUFFICES ASSUME NEW kind \in WarningKinds, NEW i \in Nat \ {0}
               PROVE  WarnedAbout(kind, i)' <=> i <= Behind(LoopOf[kind])' /\ Deserves(src, kind, i)
    BY <1>1 DEF WarnedOK
  <2>1. Behind(LoopOf[kind]) = 0 /\ Behind(LoopOf[kind])' = 0
    BY <1>2, TurnIs
  <2>2. ~WarnedAbout(kind, i)
    BY <1>1, <2>1 DEF SoFarOK, WarnedOK
  <2> QED
    BY <1>1, <2>1, <2>2 DEF WarnedAbout
<1> QED
  BY <1>4, <1>5, <1>6 DEF SoFarOK

\* Every step leaves the state what the rows behind make of it.
LEMMA SoFarStep == IInv /\ AtOK /\ IndexSound /\ SoFarOK /\ [Next]_vars => SoFarOK'
<1> SUFFICES ASSUME IInv, AtOK, IndexSound, SoFarOK, [Next]_vars PROVE SoFarOK'
  OBVIOUS
<1>0. TypeOK /\ StartsAtOne
  BY DEF IInv
<1>1. CASE IndexRow
  BY <1>0, <1>1, IndexAdvances, AdvanceStep, TurnIs
<1>2. CASE MatchNone \/ MatchAmbiguous \/ MatchOne
  <2>1. Advances("match")
    BY <1>2, MatchAdvances
  <2> QED
    BY <1>0, <2>1, AdvanceStep, TurnIs
<1>3. CASE JoinPrecision
  <2>1. Advances("precision")
    BY <1>0, <1>3, PrecisionAdvances
  <2> QED
    BY <1>0, <2>1, AdvanceStep, TurnIs
<1>4. CASE CheckMismatch \/ CheckNewTarget
  <2>1. Advances("mismatch") \/ Advances("newTarget")
    BY <1>0, <1>4, CheckAdvances
  <2> QED
    BY <1>0, <2>1, AdvanceStep, TurnIs
<1>5. CASE SkipStepping \/ JoinStepping
  <2>1. Advances("stepping")
    BY <1>0, <1>5, SteppingAdvances
  <2> QED
    BY <1>0, <2>1, AdvanceStep, TurnIs
<1>6. CASE Ingest
  BY <1>6, IngestSoFar
<1>7. CASE IngestRaises \/ MatchRaises
  BY <1>7 DEF IngestRaises, MatchRaises, SoFarOK
<1>8. CASE EndLoop \/ Assemble \/ UNCHANGED vars
  <2>1. CASE pc = "raised"
    BY <1>8, <2>1 DEF EndLoop, NextStage, Assemble, vars, SoFarOK
  <2>2. CASE pc # "raised"
    <3>1. src' = src /\ gpus' = gpus /\ warned' = warned /\ (pc' = "ingest" => pc = "ingest")
      BY <1>8 DEF EndLoop, NextStage, Assemble, vars
    <3>2. \A stage \in Loops : Behind(stage)' = Behind(stage)
      BY <1>0, <1>8, <2>2, BehindKept
    <3>3. "match" \in Loops /\ "precision" \in Loops /\ "stepping" \in Loops
      BY TurnIs
    <3>4. EntriesOK /\ NamedOK /\ WarnedOK
      BY <2>2 DEF SoFarOK
    <3>5. EntriesOK'
      <4>1. /\ Behind("match")' = Behind("match") /\ Behind("precision")' = Behind("precision")
            /\ Behind("stepping")' = Behind("stepping")
        BY <3>2, <3>3
      <4>2. CASE pc = "ingest"
        BY <1>8, <3>1, <3>4, <4>1, <4>2 DEF EndLoop, NextStage, Assemble, vars, EntriesOK
      <4>3. CASE pc # "ingest"
        BY <3>1, <3>4, <4>1, <4>3 DEF EntriesOK
      <4> QED
        BY <4>2, <4>3
    <3>6. NamedOK'
      BY <3>1, <3>2, <3>3, <3>4 DEF NamedOK
    <3>7. WarnedOK'
      <4>1. \A kind \in WarningKinds : Behind(LoopOf[kind])' = Behind(LoopOf[kind])
        BY <3>2, TurnIs
      <4> QED
        BY <3>1, <3>4, <4>1 DEF WarnedOK, WarnedAbout
    <3> QED
      BY <3>5, <3>6, <3>7 DEF SoFarOK
  <2> QED
    BY <2>1, <2>2
<1> QED
  BY <1>1, <1>2, <1>3, <1>4, <1>5, <1>6, <1>7, <1>8 DEF Next

\* Nothing is joined that has not been parsed.
LEMMA ParsesStep == ParsesOK /\ [Next]_vars => ParsesOK'
<1> SUFFICES ASSUME ParsesOK, [Next]_vars PROVE ParsesOK'
  OBVIOUS
<1>1. CASE Ingest
  BY <1>1 DEF Ingest, ParsesOK
<1>2. CASE ~Ingest
  BY <1>2 DEF ParsesOK, Next, vars, IngestRaises, IndexRow, MatchNone, MatchAmbiguous, MatchOne, Match, MatchRaises,
              JoinPrecision, CheckMismatch, CheckNewTarget, SkipStepping, JoinStepping, EndLoop, NextStage, Assemble,
              Iterate
<1> QED
  BY <1>1, <1>2

\* After the last loop every row of every loop is behind.
LEMMA AllBehind ==
    ASSUME pc \in {"assemble", "done"}, NEW stage \in Loops
    PROVE  Behind(stage) = Length(stage)
<1>1. Turn[stage] \in 1..6 /\ Turn[pc] \in 7..8
  BY TurnIs
<1> QED
  BY <1>1 DEF Behind

\* The entries at the end are those of CatalogReference.
LEMMA EntriesAtTheEnd ==
    ASSUME TypeOK, SoFarOK, pc \in {"assemble", "done"}
    PROVE  gpus = [i \in 1..Len(src.gpus) |-> Reference!EntryOf(src, i)]
<1>1. EntriesOK /\ gpus \in Seq(GpuEntry) /\ Len(src.gpus) \in Nat
  BY SourceTypes DEF SoFarOK, TypeOK
<1>2. Len(gpus) = Len(src.gpus) /\ DOMAIN gpus = 1..Len(src.gpus)
  BY <1>1 DEF EntriesOK
<1>3. Behind("match") = Len(src.gpus) /\ Behind("precision") = Len(src.gpus) /\ Behind("stepping") = Len(src.gpus)
  BY AllBehind, TurnIs DEF Length
<1>4. ASSUME NEW i \in 1..Len(src.gpus) PROVE gpus[i] = Reference!EntryOf(src, i)
  <2>1. gpus[i] \in GpuEntry
    BY <1>1, <1>2, ElementOfSeq
  <2>2. /\ gpus[i].row = src.gpus[i]
        /\ gpus[i].device_id = Reference!DeviceIdOf(src, i)
        /\ gpus[i].precision = PrecisionBlock(src, src.gpus[i].generation)
        /\ gpus[i].stepping = Reference!SteppingOf(src, i)
    BY <1>1, <1>3 DEF EntriesOK
  <2>3. gpus[i].revision_id = NONE
    BY <2>1 DEF GpuEntry
  <2>4. gpus[i] = [row |-> gpus[i].row, device_id |-> gpus[i].device_id, revision_id |-> gpus[i].revision_id,
                   precision |-> gpus[i].precision, stepping |-> gpus[i].stepping]
    BY <2>1 DEF GpuEntry
  <2> QED
    BY <2>2, <2>3, <2>4, SameReading DEF Reference!EntryOf
<1> QED
  BY <1>1, <1>2, <1>4

\* The catalog returned is that of CatalogReference.
LEMMA CatalogStep == IInv /\ SoFarOK /\ CatalogOK /\ [Next]_vars => CatalogOK'
<1> SUFFICES ASSUME IInv, SoFarOK, CatalogOK, [Next]_vars PROVE CatalogOK'
  OBVIOUS
<1>1. CASE Assemble
  <2>1. /\ pc = "assemble" /\ pc' = "done" /\ src' = src
        /\ catalog' = [gpus |-> gpus, npus |-> src.npus, notes |-> src.notes]
    BY <1>1 DEF Assemble
  <2>2. gpus = [i \in 1..Len(src.gpus) |-> Reference!EntryOf(src, i)]
    BY <2>1, EntriesAtTheEnd DEF IInv
  <2> QED
    BY <2>1, <2>2 DEF CatalogOK, Reference!CatalogOf
<1>2. CASE ~Assemble
  <2>1. catalog' = catalog /\ src' = src /\ (pc' = "done" <=> pc = "done")
    BY <1>2 DEF Next, vars, Ingest, IngestRaises, IndexRow, MatchNone, MatchAmbiguous, MatchOne, Match, MatchRaises,
                JoinPrecision, CheckMismatch, CheckNewTarget, SkipStepping, JoinStepping, EndLoop, NextStage, Iterate
  <2> QED
    BY <2>1 DEF CatalogOK
<1> QED
  BY <1>1, <1>2

-----------------------------------------------------------------------------
\* Decorations taken off a name that decorations were taken off.
LEMMA UndecoratedTwice ==
    ASSUME NEW name \in Name, NEW mid \in Undecorated(name), mid # <<>>,
           NEW new \in Undecorated(mid), new # <<>>
    PROVE  new \in Undecorated(name)
<1>1. PICK outer \in (1..(Len(name) + 1)) \X (0..Len(name)) :
         /\ mid = SubSeq(name, outer[1], outer[2])
         /\ \A k \in 1..Len(name) : k \in outer[1]..outer[2] \/ name[k] \in Decorations
  BY DEF Undecorated
<1> DEFINE a == outer[1]
           b == outer[2]
<1>2. PICK inner \in (1..(Len(mid) + 1)) \X (0..Len(mid)) :
         /\ new = SubSeq(mid, inner[1], inner[2])
         /\ \A k \in 1..Len(mid) : k \in inner[1]..inner[2] \/ mid[k] \in Decorations
  BY DEF Undecorated
<1> DEFINE c == inner[1]
           d == inner[2]
<1>3. name \in Seq(STRING) /\ Len(name) \in Nat /\ a \in 1..(Len(name) + 1) /\ b \in 0..Len(name)
  BY <1>1 DEF Name
<1>4. a <= b
  BY <1>1, <1>3, SubSeqEmpty
<1>5. mid \in Seq(STRING) /\ Len(mid) = b - a + 1 /\ \A k \in 1..(b - a + 1) : mid[k] = name[a + k - 1]
  <2>1. mid = SubSeq(name, a, b) /\ a \in Int /\ b \in Int /\ \A k \in a..b : name[k] \in STRING
    BY <1>1, <1>3
  <2> HIDE DEF a, b
  <2>2. /\ SubSeq(name, a, b) \in Seq(STRING)
        /\ Len(SubSeq(name, a, b)) = IF a <= b THEN b - a + 1 ELSE 0
        /\ \A k \in 1..(b - a + 1) : SubSeq(name, a, b)[k] = name[a + k - 1]
    BY <2>1, SubSeqProperties
  <2> QED
    BY <1>4, <2>1, <2>2
<1>6. c \in 1..(Len(mid) + 1) /\ d \in 0..Len(mid)
  BY <1>2
<1> HIDE DEF a, b, c, d
<1>7. c <= d
  BY <1>2, <1>3, <1>5, <1>6, SubSeqEmpty DEF c, d
<1>8. new = SubSeq(name, a + c - 1, a + d - 1)
  <2>1. a \in 1..Len(name) /\ b \in 1..Len(name) /\ c \in 1..(b - a + 1) /\ d \in 1..(b - a + 1)
    BY <1>3, <1>4, <1>5, <1>6, <1>7
  <2>2. SubSeq(SubSeq(name, a, b), c, d) = SubSeq(name, a + c - 1, a + d - 1)
    <3>1. \A S : \A s, t \in Seq(S) : \A i, j \in 1..Len(s) : \A m, k \in 1..(j - i + 1) :
             SubSeq(SubSeq(s, i, j), m, k) = SubSeq(s, i + m - 1, i + k - 1)
      BY SubSeqOfSubSeq
    <3> QED
      BY <1>3, <2>1, <3>1
  <2>3. mid = SubSeq(name, a, b) /\ new = SubSeq(mid, c, d)
    BY <1>1, <1>2 DEF a, b, c, d
  <2> QED
    BY <2>2, <2>3
<1>9. ASSUME NEW k \in 1..Len(name) PROVE k \in (a + c - 1)..(a + d - 1) \/ name[k] \in Decorations
  <2>1. CASE k \in a..b
    <3>1. k - a + 1 \in 1..(b - a + 1) /\ a + (k - a + 1) - 1 = k
      BY <1>3, <1>4, <2>1
    <3>2. mid[k - a + 1] = name[k]
      BY <1>5, <3>1
    <3>3. k - a + 1 \in c..d \/ mid[k - a + 1] \in Decorations
      BY <1>2, <1>5, <3>1 DEF c, d
    <3>4. k - a + 1 \in c..d => k \in (a + c - 1)..(a + d - 1)
      BY <1>3, <1>5, <1>6
    <3> QED
      BY <3>2, <3>3, <3>4
  <2>2. CASE k \notin a..b
    BY <1>1, <2>2 DEF a, b
  <2> QED
    BY <2>1, <2>2
<1>10. a + c - 1 \in 1..(Len(name) + 1) /\ a + d - 1 \in 0..Len(name)
  BY <1>3, <1>4, <1>5, <1>6, <1>7
<1> DEFINE ends == <<a + c - 1, a + d - 1>>
<1>11. ends \in {e \in (1..(Len(name) + 1)) \X (0..Len(name)) :
                    \A k \in 1..Len(name) : k \in e[1]..e[2] \/ name[k] \in Decorations}
  BY <1>9, <1>10
<1>12. new = SubSeq(name, ends[1], ends[2])
  BY <1>8
<1> QED
  BY <1>11, <1>12 DEF Undecorated

\* A run of a name with nothing but decorations around it.
LEMMA UndecoratedIs ==
    ASSUME NEW name \in Name, NEW a \in 1..(Len(name) + 1), NEW b \in 0..Len(name),
           \A k \in 1..Len(name) : k \in a..b \/ name[k] \in Decorations
    PROVE  SubSeq(name, a, b) \in Undecorated(name)
<1> DEFINE ends == <<a, b>>
<1>1. ends \in {e \in (1..(Len(name) + 1)) \X (0..Len(name)) :
                   \A k \in 1..Len(name) : k \in e[1]..e[2] \/ name[k] \in Decorations}
  OBVIOUS
<1>2. SubSeq(name, a, b) = SubSeq(name, ends[1], ends[2])
  OBVIOUS
<1> QED
  BY <1>1, <1>2 DEF Undecorated

\* normalize_name takes off nothing but decorations.
LEMMA NormalizeUndecorates ==
    ASSUME NEW name \in Name
    PROVE  Normalize(name) \in Undecorated(name)
<1>1. ASSUME NEW nm \in Name PROVE nm \in Undecorated(nm)
  <2>1. SubSeq(nm, 1, Len(nm)) = nm /\ Len(nm) \in Nat
    BY SubSeqFull DEF Name
  <2>2. /\ 1 \in 1..(Len(nm) + 1) /\ Len(nm) \in 0..Len(nm)
        /\ \A k \in 1..Len(nm) : k \in 1..Len(nm) \/ nm[k] \in Decorations
    BY <2>1
  <2>3. SubSeq(nm, 1, Len(nm)) \in Undecorated(nm)
    BY <2>2, UndecoratedIs
  <2> QED
    BY <2>1, <2>3
<1>2. ASSUME NEW nm \in Name, NEW k \in Nat, k < Len(nm), \A i \in 1..k : nm[i] \in Decorations
      PROVE  /\ DropFirst(k, nm) \in Undecorated(nm)
             /\ DropFirst(k, nm) \in Name
             /\ DropFirst(k, nm) # <<>>
  <2>1. Len(nm) \in Nat
    BY DEF Name
  <2>2. k + 1 \in 1..(Len(nm) + 1) /\ \A i \in 1..Len(nm) : i \in (k + 1)..Len(nm) \/ i \in 1..k
    BY <1>2, <2>1
  <2>3. DropFirst(k, nm) \in Undecorated(nm)
    BY <1>2, <2>1, <2>2, UndecoratedIs DEF DropFirst
  <2>4. Len(SubSeq(nm, k + 1, Len(nm))) = Len(nm) - k
    BY <1>2, <2>1, SubSeqProperties DEF Name
  <2>5. DropFirst(k, nm) \in Name
    BY <2>1, <2>2, WordsOfName DEF DropFirst
  <2>6. Len(DropFirst(k, nm)) > 0
    BY <1>2, <2>1, <2>4 DEF DropFirst
  <2>7. DropFirst(k, nm) # <<>>
    BY <2>6
  <2> QED
    BY <2>3, <2>5, <2>7
<1>3. ASSUME NEW nm \in Name
      PROVE  /\ StripInstinct(nm) \in Undecorated(nm) /\ StripInstinct(nm) \in Name
             /\ StripAmd(nm) \in Undecorated(nm) /\ StripAmd(nm) \in Name
             /\ nm # <<>> => StripInstinct(nm) # <<>> /\ StripAmd(nm) # <<>>
  <2>1. Len(nm) \in Nat
    BY DEF Name
  <2>2. CASE Len(nm) > 2 /\ nm[1] = "amd" /\ nm[2] = "instinct"
    BY <1>2, <2>1, <2>2 DEF Decorations, StripInstinct, StripAmd
  <2>3. CASE /\ ~(Len(nm) > 2 /\ nm[1] = "amd" /\ nm[2] = "instinct")
             /\ Len(nm) > 3 /\ nm[1] = "amd" /\ nm[2] = "radeon" /\ nm[3] = "instinct"
    BY <1>2, <2>1, <2>3 DEF Decorations, StripInstinct, StripAmd
  <2>4. CASE StripInstinct(nm) = nm
    <3>1. CASE Len(nm) > 1 /\ nm[1] = "amd"
      BY <1>1, <1>2, <2>1, <2>4, <3>1 DEF Decorations, StripAmd
    <3>2. CASE ~(Len(nm) > 1 /\ nm[1] = "amd")
      BY <1>1, <2>4, <3>2 DEF StripAmd
    <3> QED
      BY <3>1, <3>2
  <2> QED
    BY <2>2, <2>3, <2>4 DEF StripInstinct
<1>4. ASSUME NEW nm \in Name
      PROVE  StripGraphics(nm) \in Undecorated(nm) /\ (nm # <<>> => StripGraphics(nm) # <<>>)
  <2>1. Len(nm) \in Nat /\ nm \in Seq(STRING)
    BY DEF Name
  <2>2. CASE Len(nm) > 1 /\ nm[Len(nm)] = "graphics"
    <3>1. \A i \in 1..Len(nm) : i \in 1..(Len(nm) - 1) \/ i = Len(nm)
      BY <2>1
    <3>2. SubSeq(nm, 1, Len(nm) - 1) \in Undecorated(nm)
      BY <2>1, <2>2, <3>1, UndecoratedIs DEF Decorations
    <3>3. Len(SubSeq(nm, 1, Len(nm) - 1)) = Len(nm) - 1
      BY <2>1, <2>2, SubSeqProperties
    <3>4. SubSeq(nm, 1, Len(nm) - 1) # <<>>
      BY <2>1, <2>2, <3>3
    <3>5. StripGraphics(nm) = SubSeq(nm, 1, Len(nm) - 1)
      BY <2>2 DEF StripGraphics
    <3> QED
      BY <3>2, <3>4, <3>5
  <2>3. CASE ~(Len(nm) > 1 /\ nm[Len(nm)] = "graphics")
    BY <1>1, <2>3 DEF StripGraphics
  <2> QED
    BY <2>2, <2>3
<1>5. CASE name = <<>>
  BY <1>1, <1>5 DEF Normalize, StripInstinct, StripAmd, StripGraphics
<1>6. CASE name # <<>>
  <2>1. /\ StripInstinct(name) \in Undecorated(name) /\ StripInstinct(name) \in Name
        /\ StripInstinct(name) # <<>>
    BY <1>3, <1>6
  <2>2. /\ StripAmd(StripInstinct(name)) \in Undecorated(StripInstinct(name))
        /\ StripAmd(StripInstinct(name)) \in Name
        /\ StripAmd(StripInstinct(name)) # <<>>
    BY <1>3, <2>1
  <2>3. StripAmd(StripInstinct(name)) \in Undecorated(name)
    BY <2>1, <2>2, UndecoratedTwice
  <2>4. Normalize(name) \in Undecorated(StripAmd(StripInstinct(name))) /\ Normalize(name) # <<>>
    BY <1>4, <2>2 DEF Normalize
  <2> QED
    BY <2>2, <2>3, <2>4, UndecoratedTwice
<1> QED
  BY <1>5, <1>6

-----------------------------------------------------------------------------
\* Entries that keep their row and device id stay apart from the variants.
LEMMA VariantsKept ==
    ASSUME VariantsStayApart, src' = src, DOMAIN gpus' = DOMAIN gpus,
           \A i \in DOMAIN gpus : gpus'[i].row = gpus[i].row /\ gpus'[i].device_id = gpus[i].device_id
    PROVE  VariantsStayApart'
  BY DEF VariantsStayApart

\* No step gives an entry an id from a row of another name.
LEMMA VariantsStep ==
    IInv /\ AtOK /\ IndexSound /\ SoFarOK /\ VariantsStayApart /\ [Next]_vars => VariantsStayApart'
<1> SUFFICES ASSUME IInv, AtOK, IndexSound, SoFarOK, VariantsStayApart, [Next]_vars PROVE VariantsStayApart'
  OBVIOUS
<1>0. TypeOK
  BY DEF IInv
<1>1. CASE Ingest
  <2>1. \A i \in DOMAIN gpus' : gpus'[i].device_id = NONE
    BY <1>1 DEF Ingest, FreshEntry
  <2> QED
    BY <2>1 DEF VariantsStayApart
<1>2. CASE (MatchOne \/ MatchRaises) /\ GiveId /\ CandidateName(gpus[n].row) # NONE
  <2>1. PICK d \in Candidates : gpus' = [gpus EXCEPT ![n].device_id = d]
    BY <1>2 DEF GiveId
  <2>2. DOMAIN gpus' = DOMAIN gpus /\ src' = src /\ pc = "match" /\ CandidateName(gpus[n].row) # NONE
    BY <1>2, <2>1 DEF MatchOne, Match, MatchRaises, Iterate
  <2>3. \A i \in DOMAIN gpus :
           /\ gpus'[i].row = gpus[i].row
           /\ gpus'[i].device_id = IF i = n THEN d ELSE gpus[i].device_id
    BY <1>0, <2>1, EntriesKept
  <2>4. PICK j \in 1..Len(src.ids) : \E alias \in src.ids[j].names :
           <<Normalize(CandidateName(gpus[n].row)), d>> = <<Normalize(alias), src.ids[j].device_id>>
    BY DEF Candidates, IndexSound
  <2>5. PICK alias \in src.ids[j].names :
           Normalize(CandidateName(gpus[n].row)) = Normalize(alias) /\ d = src.ids[j].device_id
    BY <2>4
  <2>6. j \in DOMAIN src.ids /\ alias \in Name
    <3>1. src.ids[j] \in IdRow
      BY <1>0, SourceTypes, ElementOfSeq
    <3> QED
      BY <1>0, <3>1, SourceTypes DEF IdRow
  <2>7. ASSUME n \in DOMAIN gpus
        PROVE  Undecorated(alias) \cap Undecorated(CandidateName(gpus[n].row)) # {}
    <3>1. gpus[n].row \in GpuRow
      <4>1. gpus[n] \in GpuEntry
        BY <1>0, <2>7 DEF TypeOK
      <4> QED
        BY <4>1 DEF GpuEntry
    <3>2. CandidateName(gpus[n].row) \in Name
      BY <2>2, <3>1, CandidateType
    <3> QED
      BY <2>5, <2>6, <3>2, NormalizeUndecorates
  <2>8. ASSUME NEW i \in DOMAIN gpus', gpus'[i].device_id # NONE
        PROVE  \E k \in DOMAIN src.ids : \E name \in src.ids[k].names :
                  /\ src.ids[k].device_id = gpus'[i].device_id
                  /\ Undecorated(name) \cap Undecorated(CandidateName(gpus'[i].row)) # {}
    <3>1. CASE i = n
      BY <2>2, <2>3, <2>5, <2>6, <2>7, <2>8, <3>1
    <3>2. CASE i # n
      BY <2>2, <2>3, <2>8, <3>2 DEF VariantsStayApart
    <3> QED
      BY <3>1, <3>2
  <2> QED
    BY <2>2, <2>8 DEF VariantsStayApart
<1>3. ASSUME NEW stage \in Loops, stage # "match", Advances(stage) PROVE VariantsStayApart'
  <2>1. Len(gpus') = Len(gpus) /\ src' = src /\ gpus' \in Seq(GpuEntry)
    BY <1>0, <1>3, TypeStep DEF Advances, Iterate, TypeOK
  <2>2. DOMAIN gpus' = DOMAIN gpus
    BY <1>0, <2>1 DEF TypeOK
  <2>3. \A i \in DOMAIN gpus : gpus'[i].row = gpus[i].row /\ gpus'[i].device_id = gpus[i].device_id
    BY <1>0, <1>3 DEF Advances, TypeOK
  <2> QED
    BY <2>1, <2>2, <2>3, VariantsKept
<1>4. CASE JoinPrecision
  BY <1>0, <1>3, <1>4, PrecisionAdvances, TurnIs
<1>5. CASE SkipStepping \/ JoinStepping
  BY <1>0, <1>3, <1>5, SteppingAdvances, TurnIs
<1>6. CASE UNCHANGED <<src, gpus>>
  BY <1>6, VariantsKept
<1>7. CASE MatchOne
  BY <1>2, <1>7 DEF MatchOne, Match, CandidateName
<1>8. CASE MatchRaises
  BY <1>2, <1>6, <1>8 DEF MatchRaises
<1> QED
  BY <1>1, <1>4, <1>5, <1>6, <1>7, <1>8
  DEF Next, vars, IngestRaises, IndexRow, MatchNone, MatchAmbiguous, Match, CheckMismatch,
      CheckNewTarget, EndLoop, Assemble, Iterate

\* There is no entry before the ingest.
LEMMA NothingYetStep == NothingYet /\ [Next]_vars => NothingYet'
<1>1. Next => pc' # "ingest"
  BY DEF Next, Ingest, IngestRaises, IndexRow, MatchNone, MatchAmbiguous, MatchOne, Match, MatchRaises,
         JoinPrecision, CheckMismatch, CheckNewTarget, SkipStepping, JoinStepping, EndLoop, NextStage, Assemble, Iterate
<1> QED
  BY <1>1 DEF NothingYet, vars

\* Before the ingest nothing is behind.
LEMMA FullInit == Init => FullInv
<1> SUFFICES ASSUME Init PROVE FullInv
  OBVIOUS
<1>1. IInv
  BY IInit
<1>2. pc = "ingest" /\ n = 1 /\ index = {} /\ gpus = <<>> /\ warned = {} /\ catalog = NONE
  BY DEF Init
<1>3. AtOK /\ ParsesOK /\ IndexSound /\ CatalogOK /\ NothingYet
  BY <1>2, TurnIs DEF AtOK, ParsesOK, IndexSound, CatalogOK, NothingYet
<1>4. VariantsStayApart
  BY <1>2 DEF VariantsStayApart
<1>5. \A stage \in Loops : Behind(stage) = 0
  BY <1>2, TurnIs DEF Behind
<1>6. SoFarOK
  <2>1. EntriesOK
    BY <1>2 DEF EntriesOK
  <2>2. NamedOK
    BY <1>5, TurnIs DEF NamedOK
  <2>3. WarnedOK
    <3> SUFFICES ASSUME NEW kind \in WarningKinds, NEW i \in Nat \ {0}
                 PROVE  ~WarnedAbout(kind, i) /\ ~(i <= Behind(LoopOf[kind]))
      BY DEF WarnedOK
    <3>1. Behind(LoopOf[kind]) = 0
      BY <1>5, TurnIs
    <3> QED
      BY <1>2, <3>1 DEF WarnedAbout
  <2> QED
    BY <2>1, <2>2, <2>3 DEF SoFarOK
<1> QED
  BY <1>1, <1>3, <1>4, <1>6 DEF FullInv

\* Every step keeps the whole invariant.
LEMMA FullStep == FullInv /\ [Next]_vars => FullInv'
<1> SUFFICES ASSUME FullInv, [Next]_vars PROVE FullInv'
  OBVIOUS
<1>1. /\ IInv /\ AtOK /\ ParsesOK /\ NothingYet /\ IndexSound /\ SoFarOK /\ CatalogOK /\ VariantsStayApart
      /\ TypeOK /\ StartsAtOne
  BY DEF FullInv, IInv
<1>2. IInv'
  BY <1>1, IStep
<1>3. AtOK'
  BY <1>1, AtStep
<1>4. ParsesOK' /\ NothingYet'
  BY <1>1, ParsesStep, NothingYetStep
<1>5. IndexSound'
  BY <1>1, IndexSoundStep
<1>6. SoFarOK'
  BY <1>1, SoFarStep
<1>7. CatalogOK'
  BY <1>1, CatalogStep
<1>8. VariantsStayApart'
  BY <1>1, VariantsStep
<1> QED
  BY <1>2, <1>3, <1>4, <1>5, <1>6, <1>7, <1>8 DEF FullInv

\* The invariant holds throughout every call.
LEMMA FullInvariance == Spec => []FullInv
  BY FullInit, FullStep, PTL DEF Spec

\* "Exact match is deliberate", of every list of documents: an entry has its
\* device id from a row of its name, decorations aside
\* (match_gpu_device_ids.py:13).
THEOREM VariantsStayApartHolds == Spec => []VariantsStayApart
<1>1. FullInv => VariantsStayApart
  BY DEF FullInv
<1> QED
  BY <1>1, FullInvariance, PTL

\* What the entries and the report are when the call returns.
LEMMA AtTheEnd ==
    ASSUME FullInv, pc \in {"assemble", "done"}
    PROVE  /\ DOMAIN gpus = 1..Len(src.gpus)
           /\ \A i \in 1..Len(src.gpus) :
                 /\ gpus[i].row = src.gpus[i]
                 /\ gpus[i].device_id = Reference!DeviceIdOf(src, i)
                 /\ gpus[i].precision = PrecisionBlock(src, src.gpus[i].generation)
           /\ \A kind \in WarningKinds : \A i \in 1..Length(LoopOf[kind]) :
                 WarnedAbout(kind, i) <=> Deserves(src, kind, i)
           /\ \A kind \in WarningKinds : \A i \in Nat \ {0} :
                 WarnedAbout(kind, i) => i \in 1..Length(LoopOf[kind])
<1>1. TypeOK /\ EntriesOK /\ WarnedOK
  BY DEF FullInv, IInv, SoFarOK
<1>2. Behind("match") = Len(src.gpus) /\ Behind("precision") = Len(src.gpus) /\ Len(src.gpus) \in Nat
  BY <1>1, AllBehind, TurnIs, SourceTypes DEF Length
<1>3. /\ DOMAIN gpus = 1..Len(src.gpus)
      /\ \A i \in 1..Len(src.gpus) :
            /\ gpus[i].row = src.gpus[i]
            /\ gpus[i].device_id = Reference!DeviceIdOf(src, i)
            /\ gpus[i].precision = PrecisionBlock(src, src.gpus[i].generation)
  BY <1>1, <1>2 DEF EntriesOK, TypeOK
<1>4. ASSUME NEW kind \in WarningKinds
      PROVE  /\ \A i \in 1..Length(LoopOf[kind]) : WarnedAbout(kind, i) <=> Deserves(src, kind, i)
             /\ \A i \in Nat \ {0} : WarnedAbout(kind, i) => i \in 1..Length(LoopOf[kind])
  <2>1. Behind(LoopOf[kind]) = Length(LoopOf[kind]) /\ Length(LoopOf[kind]) \in Nat
    BY <1>1, AllBehind, TurnIs, LengthType
  <2>2. \A i \in Nat \ {0} : WarnedAbout(kind, i) <=> i <= Length(LoopOf[kind]) /\ Deserves(src, kind, i)
    BY <1>1, <2>1 DEF WarnedOK
  <2> QED
    BY <2>1, <2>2
<1> QED
  BY <1>3, <1>4

\* How far the loop of each finding runs.
LEMMA LengthOfLoop ==
    /\ Length(LoopOf["unmatched"]) = Len(src.gpus) /\ Length(LoopOf["ambiguous"]) = Len(src.gpus)
    /\ Length(LoopOf["precision"]) = Len(src.gpus) /\ Length(LoopOf["mismatch"]) = Len(src.gpus)
    /\ Length(LoopOf["newTarget"]) = Len(src.llvm) /\ Length(LoopOf["stepping"]) = Len(src.gpus)
  BY DEF Length, LoopOf

\* No gap without its warning and no warning without its gap, in the catalog
\* of any documents: the reports of build_catalog.py:235 and
\* match_gpu_device_ids.py:80.
THEOREM GapsAreWarnedHolds == Spec => []GapsAreWarned
<1>1. ASSUME FullInv, pc = "done", NEW i \in DOMAIN gpus
      PROVE  /\ (gpus[i].device_id = NONE) <=> (WarnedAbout("unmatched", i) # WarnedAbout("ambiguous", i))
             /\ (gpus[i].device_id # NONE) => ~WarnedAbout("unmatched", i) /\ ~WarnedAbout("ambiguous", i)
             /\ (gpus[i].precision = {}) <=> WarnedAbout("precision", i)
  <2>1. /\ i \in 1..Len(src.gpus)
        /\ gpus[i].device_id = Reference!DeviceIdOf(src, i)
        /\ gpus[i].precision = PrecisionBlock(src, src.gpus[i].generation)
    BY <1>1, AtTheEnd
  <2>2. \A kind \in {"unmatched", "ambiguous", "precision"} : WarnedAbout(kind, i) <=> Deserves(src, kind, i)
    BY <1>1, <2>1, AtTheEnd, LengthOfLoop DEF WarningKinds
  <2>3. Deserves(src, "precision", i) <=> PrecisionBlock(src, src.gpus[i].generation) = {}
    BY DEF Deserves
  <2>4. /\ Deserves(src, "unmatched", i) => Reference!DeviceIdOf(src, i) = NONE
        /\ Deserves(src, "ambiguous", i) <=> ~Deserves(src, "unmatched", i) /\ Reference!DeviceIdOf(src, i) = NONE
    <3>1. Deserves(src, "ambiguous", i) <=> ~Deserves(src, "unmatched", i) /\ Reference!DeviceIdOf(src, i) = NONE
      BY DEF Deserves, Reference!Ambiguous
    <3>2. Deserves(src, "unmatched", i) <=> Reference!IdsNamed(src, CandidateName(src.gpus[i])) = {}
      BY SameReading DEF Deserves, Reference!Unmatched
    <3> QED
      BY <3>1, <3>2, DeviceIdIs
  <2>5. WarnedAbout("unmatched", i) \in BOOLEAN /\ WarnedAbout("ambiguous", i) \in BOOLEAN
    BY DEF WarnedAbout
  <2> QED
    BY <2>1, <2>2, <2>3, <2>4, <2>5
<1>2. FullInv => GapsAreWarned
  BY <1>1 DEF GapsAreWarned
<1> QED
  BY <1>2, FullInvariance, PTL

\* No disagreement with LLVM is silent, whatever the two tables say:
\* cross_check_llvm.py:28.
THEOREM LlvmDisagreementsAreWarnedHolds == Spec => []LlvmDisagreementsAreWarned
<1>1. ASSUME FullInv, pc = "done", NEW j \in DOMAIN src.llvm,
             j = LastOf(LlvmRowsOf(src, src.llvm[j].gfx_target)), src.llvm[j].generation # NONE,
             ~WarnedAbout("newTarget", j)
      PROVE  /\ \E i \in DOMAIN gpus : gpus[i].row.gfx_target = src.llvm[j].gfx_target
             /\ \A i \in DOMAIN gpus : gpus[i].row.gfx_target = src.llvm[j].gfx_target =>
                   \/ WarnedAbout("mismatch", i)
                   \/ Alias(gpus[i].row.generation) = Alias(src.llvm[j].generation)
  <2>1. j \in 1..Len(src.llvm)
    BY <1>1, SourceTypes DEF FullInv, IInv
  <2>2. DOMAIN gpus = 1..Len(src.gpus) /\ \A i \in 1..Len(src.gpus) : gpus[i].row = src.gpus[i]
    BY <1>1, AtTheEnd
  <2>3. ~Reference!IsNewTarget(src, j)
    <3>1. WarnedAbout("newTarget", j) <=> Deserves(src, "newTarget", j)
      BY <1>1, <2>1, AtTheEnd, LengthOfLoop DEF WarningKinds
    <3> QED
      BY <1>1, <3>1 DEF Deserves
  <2>4. \E i \in DOMAIN gpus : gpus[i].row.gfx_target = src.llvm[j].gfx_target
    BY <1>1, <2>2, <2>3 DEF Reference!IsNewTarget
  <2>5. ASSUME NEW i \in DOMAIN gpus, gpus[i].row.gfx_target = src.llvm[j].gfx_target
        PROVE  \/ WarnedAbout("mismatch", i)
               \/ Alias(gpus[i].row.generation) = Alias(src.llvm[j].generation)
    <3>1. WarnedAbout("mismatch", i) <=> Mismatch(src, src.gpus[i].gfx_target, src.gpus[i].generation)
      <4>1. WarnedAbout("mismatch", i) <=> Deserves(src, "mismatch", i)
        BY <1>1, <2>2, AtTheEnd, LengthOfLoop DEF WarningKinds
      <4> QED
        BY <4>1 DEF Deserves
    <3>2. src.gpus[i].gfx_target = src.llvm[j].gfx_target /\ gpus[i].row.generation = src.gpus[i].generation
      BY <2>2, <2>5
    <3>3. j \in LlvmRowsOf(src, src.gpus[i].gfx_target)
      BY <2>1, <3>2 DEF LlvmRowsOf
    <3>4. LlvmRowOf(src, src.gpus[i].gfx_target) = src.llvm[j]
      BY <1>1, <3>2 DEF LlvmRowOf
    <3> QED
      BY <1>1, <3>1, <3>2, <3>3, <3>4 DEF Mismatch
  <2> QED
    BY <2>4, <2>5
<1>2. FullInv => LlvmDisagreementsAreWarned
  BY <1>1 DEF LlvmDisagreementsAreWarned
<1> QED
  BY <1>2, FullInvariance, PTL

\* Products of one generation leave the build with one precision block, for
\* every number of products and every table: build_catalog.py:217.
THEOREM SameGenerationSamePrecisionHolds == Spec => []SameGenerationSamePrecision
<1>1. ASSUME FullInv, pc = "done", NEW i \in DOMAIN gpus, NEW k \in DOMAIN gpus,
             Alias(gpus[i].row.generation) = Alias(gpus[k].row.generation)
      PROVE  gpus[i].precision = gpus[k].precision
  <2>1. \A m \in DOMAIN gpus : gpus[m].precision = PrecisionBlock(src, gpus[m].row.generation)
    BY <1>1, AtTheEnd
  <2> QED
    BY <1>1, <2>1 DEF PrecisionBlock
<1>2. FullInv => SameGenerationSamePrecision
  BY <1>1 DEF SameGenerationSamePrecision
<1> QED
  BY <1>2, FullInvariance, PTL

-----------------------------------------------------------------------------
\* An iteration joins to a field that no iteration has joined to before.
LEMMA AdvanceOnlyAdds ==
    ASSUME TypeOK, AtOK, SoFarOK, NEW stage \in Loops, Advances(stage)
    PROVE  OnlyAdds
<1>1. Iterate(stage) /\ pc \notin {"ingest", "raised"}
  BY TurnIs DEF Advances, Iterate
<1>2. Behind(stage) = n - 1 /\ n \in 1..Length(stage) /\ n \in Nat /\ ~(n <= n - 1)
  <2>1. Behind(stage) = n - 1 /\ n \in 1..Length(stage)
    BY <1>1, BehindMoves
  <2> QED
    BY <2>1 DEF TypeOK
<1>3. DOMAIN gpus = 1..Len(src.gpus) /\ Len(gpus) = Len(src.gpus)
  BY <1>1 DEF SoFarOK, EntriesOK, TypeOK
<1>4. ASSUME NEW i \in DOMAIN gpus
      PROVE  /\ gpus'[i].row = gpus[i].row
             /\ Kept(gpus[i].device_id, gpus'[i].device_id, NONE)
             /\ Kept(gpus[i].precision, gpus'[i].precision, {})
             /\ Kept(gpus[i].stepping, gpus'[i].stepping, NONE)
  <2>1. /\ gpus'[i].row = gpus[i].row
        /\ (stage = "match" /\ i = n) \/ gpus'[i].device_id = gpus[i].device_id
        /\ (stage = "precision" /\ i = n) \/ gpus'[i].precision = gpus[i].precision
        /\ (stage = "stepping" /\ i = n) \/ gpus'[i].stepping = gpus[i].stepping
    BY <1>3 DEF Advances
  <2>2. /\ stage = "match" /\ i = n => gpus[i].device_id = NONE
        /\ stage = "precision" /\ i = n => gpus[i].precision = {}
        /\ stage = "stepping" /\ i = n => gpus[i].stepping = NONE
    BY <1>1, <1>2, <1>3 DEF SoFarOK, EntriesOK
  <2> QED
    BY <2>1, <2>2 DEF Kept
<1> QED
  BY <1>4 DEF OnlyAdds

\* The joins only ever add to an entry, for every list of documents: no loop of
\* build_catalog() rewrites what gpu-specs.rst said or what another one joined.
THEOREM JoinsOnlyAddHolds == Spec => JoinsOnlyAdd
<1>1. ASSUME FullInv, [Next]_vars PROVE OnlyAdds
  <2>0. IInv /\ TypeOK /\ AtOK /\ IndexSound /\ SoFarOK /\ NothingYet
    BY <1>1 DEF FullInv, IInv
  <2>1. CASE IndexRow
    BY <2>0, <2>1, IndexAdvances, AdvanceOnlyAdds, TurnIs
  <2>2. CASE MatchNone \/ MatchAmbiguous \/ MatchOne
    BY <2>0, <2>2, MatchAdvances, AdvanceOnlyAdds, TurnIs
  <2>3. CASE JoinPrecision
    BY <2>0, <2>3, PrecisionAdvances, AdvanceOnlyAdds, TurnIs
  <2>4. CASE CheckMismatch \/ CheckNewTarget
    BY <2>0, <2>4, CheckAdvances, AdvanceOnlyAdds, TurnIs
  <2>5. CASE SkipStepping \/ JoinStepping
    BY <2>0, <2>5, SteppingAdvances, AdvanceOnlyAdds, TurnIs
  <2>6. CASE Ingest
    BY <2>0, <2>6 DEF Ingest, NothingYet, OnlyAdds
  <2>7. CASE UNCHANGED gpus
    BY <2>7 DEF OnlyAdds, Kept
  <2>8. CASE MatchRaises /\ GiveId
    <3>1. PICK d \in Candidates : gpus' = [gpus EXCEPT ![n].device_id = d]
      BY <2>8 DEF GiveId
    <3>2. pc = "match" /\ n \in 1..Len(src.gpus) /\ Behind("match") = n - 1 /\ ~(n <= n - 1)
      BY <2>0, <2>8, TurnIs DEF MatchRaises, Behind, TypeOK
    <3>3. gpus[n].device_id = NONE
      BY <2>0, <3>2 DEF SoFarOK, EntriesOK
    <3>4. ASSUME NEW i \in DOMAIN gpus
          PROVE  /\ gpus'[i].row = gpus[i].row /\ gpus'[i].precision = gpus[i].precision
                 /\ gpus'[i].stepping = gpus[i].stepping /\ (i = n \/ gpus'[i].device_id = gpus[i].device_id)
      <4>1. gpus[i] \in GpuEntry
        BY <2>0, <3>4 DEF TypeOK
      <4> QED
        BY <3>1, <4>1 DEF GpuEntry
    <3> QED
      BY <3>3, <3>4 DEF OnlyAdds, Kept
  <2> QED
    BY <1>1, <2>1, <2>2, <2>3, <2>4, <2>5, <2>6, <2>7, <2>8
    DEF Next, vars, IngestRaises, MatchRaises, EndLoop, Assemble
<1>2. FullInv /\ [Next]_vars => [OnlyAdds]_vars
  BY <1>1
<1> QED
  BY <1>2, FullInvariance, PTL DEF Spec, JoinsOnlyAdd

-----------------------------------------------------------------------------
\* The findings that CatalogReference prints are those the rows deserve.
LEMMA WarningsOfIs ==
    ASSUME TypeOK
    PROVE  /\ Reference!WarningsOf(src) \subseteq Warning
           /\ \A kind \in WarningKinds : \A i \in Nat \ {0} :
                 [kind |-> kind, at |-> i] \in Reference!WarningsOf(src)
                    <=> i \in 1..Length(LoopOf[kind]) /\ Deserves(src, kind, i)
<1> DEFINE products == 1..Len(src.gpus)
           at(kind) == {i \in 1..Length(LoopOf[kind]) : Deserves(src, kind, i)}
<1>1. \A kind, positions, w : w \in Reference!Warned(kind, positions) <=> \E k \in positions : w = [kind |-> kind, at |-> k]
  BY DEF Reference!Warned
<1>2. Reference!WarningsOf(src) =
         UNION {Reference!Warned("unmatched", at("unmatched")), Reference!Warned("ambiguous", at("ambiguous")),
                Reference!Warned("precision", at("precision")), Reference!Warned("mismatch", at("mismatch")),
                Reference!Warned("newTarget", at("newTarget")), Reference!Warned("stepping", at("stepping"))}
  <2>1. at("unmatched") = {i \in products : Reference!Unmatched(src, i)}
    BY LengthOfLoop DEF Deserves
  <2>2. at("ambiguous") = {i \in products : Reference!Ambiguous(src, i)}
    BY LengthOfLoop DEF Deserves
  <2>3. at("precision") = {i \in products : Reference!EntryOf(src, i).precision = {}}
    BY LengthOfLoop, SameReading DEF Deserves, Reference!EntryOf
  <2>4. at("mismatch") = {i \in products : Reference!Mismatch(src, src.gpus[i].gfx_target, src.gpus[i].generation)}
    BY LengthOfLoop, SameReading DEF Deserves
  <2>5. at("newTarget") = {j \in 1..Len(src.llvm) : Reference!IsNewTarget(src, j)}
    BY LengthOfLoop DEF Deserves
  <2>6. at("stepping") = {i \in products : Reference!HasSubarch(src, src.gpus[i].gfx_target)
                                            /\ Reference!SteppingOf(src, i) = NONE}
    BY LengthOfLoop, SameReading DEF Deserves
  <2> HIDE DEF at
  <2> QED
    BY <2>1, <2>2, <2>3, <2>4, <2>5, <2>6 DEF Reference!WarningsOf
<1>3. \A kind : at(kind) \subseteq Nat \ {0}
  <2>1. \A kind : Length(LoopOf[kind]) \in Nat
    BY LengthType
  <2> QED
    BY <2>1
<1>4. \A kind, i : i \in at(kind) <=> i \in 1..Length(LoopOf[kind]) /\ Deserves(src, kind, i)
  OBVIOUS
<1> HIDE DEF at
<1>5. \A w : w \in Reference!WarningsOf(src) <=> \E kind \in WarningKinds : \E k \in at(kind) : w = [kind |-> kind, at |-> k]
  <2>1. \A w : w \in Reference!WarningsOf(src) <=> \E kind \in WarningKinds : w \in Reference!Warned(kind, at(kind))
    BY <1>2 DEF WarningKinds
  <2> QED
    BY <1>1, <2>1
<1>6. Reference!WarningsOf(src) \subseteq Warning
  BY <1>3, <1>5 DEF Warning
<1>7. \A kind, other, i, k : [kind |-> kind, at |-> i] = [kind |-> other, at |-> k] <=> kind = other /\ i = k
  OBVIOUS
<1>8. ASSUME NEW kind \in WarningKinds, NEW i \in Nat \ {0}
      PROVE  [kind |-> kind, at |-> i] \in Reference!WarningsOf(src) <=> i \in at(kind)
  BY <1>5, <1>7
<1> QED
  BY <1>4, <1>6, <1>8

\* Everything that was found and nothing else is reported at the end.
LEMMA WarnedAtTheEnd ==
    ASSUME FullInv, pc \in {"assemble", "done"}
    PROVE  warned = Reference!WarningsOf(src)
<1>1. TypeOK
  BY DEF FullInv, IInv
<1>2. \A kind \in WarningKinds : \A i \in Nat \ {0} :
         [kind |-> kind, at |-> i] \in warned <=> [kind |-> kind, at |-> i] \in Reference!WarningsOf(src)
  BY <1>1, AtTheEnd, WarningsOfIs DEF WarnedAbout
<1>3. \A w \in Warning : w \in warned <=> w \in Reference!WarningsOf(src)
  <2> SUFFICES ASSUME NEW w \in Warning PROVE w \in warned <=> w \in Reference!WarningsOf(src)
    OBVIOUS
  <2>1. w.kind \in WarningKinds /\ w.at \in Nat \ {0} /\ w = [kind |-> w.kind, at |-> w.at]
    BY DEF Warning
  <2> QED
    BY <1>2, <2>1
<1>4. warned \subseteq Warning /\ Reference!WarningsOf(src) \subseteq Warning
  BY <1>1, WarningsOfIs DEF TypeOK
<1> QED
  BY <1>3, <1>4

\* build_catalog() implements CatalogReference for every list of documents: the
\* loops are invisible outside, and the return publishes at once the catalog
\* and the report that the documents determine (build_catalog.py:186).
THEOREM ReferenceImplemented == Spec => ImplementsReference
<1>1. Init => Reference!Init
  BY SourcesAssumption, SameReading DEF Init, Reference!Init
<1>2. ASSUME FullInv, [Next]_vars PROVE [Reference!Publish]_(Reference!vars)
  <2>0. TypeOK /\ SoFarOK /\ CatalogOK /\ ParsesOK
    BY <1>2 DEF FullInv, IInv
  <2>1. CASE Assemble
    <3>1. pc = "assemble" /\ pc' = "done" /\ src' = src /\ warned' = warned /\ catalog = NONE
      BY <2>0, <2>1 DEF Assemble, CatalogOK
    <3>2. CatalogOK'
      BY <1>2, FullStep DEF FullInv
    <3>3. catalog' = Reference!CatalogOf(src)
      BY <3>1, <3>2 DEF CatalogOK
    <3>4. warned = Reference!WarningsOf(src)
      BY <1>2, <3>1, WarnedAtTheEnd
    <3>5. Reference!Buildable(src)
      <4>1. Behind("match") = Len(src.gpus)
        BY <3>1, AllBehind, TurnIs DEF Length
      <4> QED
        BY <2>0, <3>1, <4>1 DEF ParsesOK, SoFarOK, NamedOK, Reference!Buildable
    <3> QED
      BY <3>1, <3>3, <3>4, <3>5 DEF Reference!Publish
  <2>2. CASE ~Assemble
    <3>1. catalog' = catalog /\ src' = src /\ (pc' = "done" <=> pc = "done") /\ (pc = "done" => warned' = warned)
      BY <1>2, <2>2, TurnIs
      DEF Next, vars, Ingest, IngestRaises, IndexRow, MatchNone, MatchAmbiguous, MatchOne, Match, MatchRaises,
          JoinPrecision, CheckMismatch, CheckNewTarget, SkipStepping, JoinStepping, EndLoop, NextStage, Iterate
    <3> QED
      BY <3>1 DEF Reference!vars
  <2> QED
    BY <2>1, <2>2
<1>3. FullInv /\ [Next]_vars => [Reference!Publish]_(Reference!vars)
  BY <1>2
<1> QED
  BY <1>1, <1>3, FullInvariance, PTL DEF Spec, ImplementsReference

=============================================================================
