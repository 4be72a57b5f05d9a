-------------------------- MODULE BindingLookupProofs --------------------------
(***************************************************************************)
(* What holds of the lookups and of the skill's command line, for any      *)
(* catalog, any callers and questions, and any command.                    *)
(***************************************************************************)
EXTENDS SkillCommand, SequenceTheorems, FiniteSetTheorems, Positions, TLAPS

\* The lists of the catalog have the types of their rows.
LEMMA TextTypes ==
    ASSUME TypeOK
    PROVE  /\ text.gpus \in Seq(GpuRow)
           /\ text.npus \in Seq(NpuRow)
           /\ text.notes \in Seq(NoteRow)
           /\ Len(text.gpus) \in Nat /\ Len(text.npus) \in Nat /\ Len(text.notes) \in Nat
  BY DEF TypeOK, TextRecord

\* A caller's own specs are none of the catalog's.
LEMMA OwnIsApart ==
    ASSUME TypeOK, NEW t \in Thread, NEW i \in 1..Len(text.gpus)
    PROVE  t # i
<1>1. i \in Nat
  BY TextTypes
<1> QED
  BY <1>1, ThreadAssumption

\* specs[key] = value leaves a specs map.
LEMMA AssignType ==
    ASSUME NEW specs \in Specs, NEW key \in SpecKey, NEW value \in SpecValue
    PROVE  Assign(specs, key, value) \in Specs
<1>1. PICK keys \in SUBSET SpecKey : specs \in [keys -> SpecValue]
  BY DEF Specs
<1>2. Assign(specs, key, value) \in [keys \cup {key} -> SpecValue]
  BY <1>1 DEF Assign
<1>3. keys \cup {key} \in SUBSET SpecKey
  OBVIOUS
<1> QED
  BY <1>2, <1>3 DEF Specs

\* So does an assignment to a key that is there.
LEMMA OverwriteType ==
    ASSUME NEW specs \in Specs, NEW key \in DOMAIN specs, NEW value \in SpecValue
    PROVE  [specs EXCEPT ![key] = value] \in Specs
<1>1. PICK keys \in SUBSET SpecKey : specs \in [keys -> SpecValue]
  BY DEF Specs
<1>2. [specs EXCEPT ![key] = value] \in [keys -> SpecValue]
  BY <1>1
<1> QED
  BY <1>2 DEF Specs

\* The row at hand, as an answer refers to it, and the one of a copy.
LEMMA FoundType ==
    ASSUME TypeOK, NEW t \in Thread
    PROVE  /\ This(t) \in [row : Nat, specs : Reference]
           /\ [row |-> at[t], specs |-> t] \in [row : Nat, specs : Reference]
<1>1. at[t] \in Nat
  BY DEF TypeOK
<1> QED
  BY <1>1 DEF This, Reference, Own

-----------------------------------------------------------------------------
(***************************************************************************)
(* Neither TypeOK nor SourceUntouched is inductive: the overlay writes to  *)
(* what the copy refers to, and a caller to what its answer refers to.     *)
(* The strengthening says that both are the caller's own.                  *)
(***************************************************************************)
Resolving(t) == question[t] # NONE /\ question[t].verb = "resolve"

\* Whoever overlays notes has a copy.
OverlaysOwn == \A t \in Thread : pc[t] = "overlay" => hits[t] # <<>> /\ hits[t][1].specs = t /\ Resolving(t)

\* Until it has its copy, a resolving caller has found nothing.
ResolvesOnce ==
    \A t \in Thread : (question[t] = NONE \/ (Resolving(t) /\ pc[t] = "scan")) => hits[t] = <<>>

\* A resolved answer is that copy.
ResolvedOwn ==
    \A t \in Thread : (Resolving(t) /\ pc[t] = "idle" /\ answer[t] # <<>>) => answer[t][1].specs = t

\* Nobody is in a loop without a question.
AsksFirst == \A t \in Thread : pc[t] # "idle" => question[t] # NONE

Ownership == OverlaysOwn /\ ResolvesOnce /\ ResolvedOwn /\ AsksFirst

IInv == TypeOK /\ Ownership /\ SourceUntouched

\* What a caller may do, whatever questions its program asks.
AnyNext ==
    \/ Load
    \/ \E t \in Thread :
          \/ \E q \in Question : Ask(t, q)
          \/ Step(t)
          \/ \E key \in SpecKey, value \in SpecValue : Scribble(t, key, value)

\* At first nobody has asked, and the heap is the catalog's.
LEMMA IInit == Init => IInv
<1> SUFFICES ASSUME Init PROVE IInv
  OBVIOUS
<1>1. text \in TextRecord /\ text.gpus \in Seq(GpuRow)
  BY TextAssumption DEF Init, TextRecord
<1>2. <<>> \in Specs
  <2>1. <<>> \in [{} -> SpecValue]
    OBVIOUS
  <2> QED
    BY <2>1 DEF Specs
<1>3. heap \in [(1..Len(text.gpus)) \cup Own -> Specs]
  <2>1. ASSUME NEW r \in 1..Len(text.gpus) PROVE text.gpus[r].specs \in Specs
    <3>1. text.gpus[r] \in GpuRow
      BY <1>1
    <3> QED
      BY <3>1 DEF GpuRow
  <2> QED
    BY <1>2, <2>1 DEF Init
<1>4. TypeOK
  BY <1>1, <1>3 DEF Init, TypeOK, Found
<1>5. Ownership
  BY DEF Init, Ownership, OverlaysOwn, ResolvesOnce, ResolvedOwn, AsksFirst, Resolving
<1>6. SourceUntouched
  <2> SUFFICES ASSUME NEW i \in 1..Len(text.gpus) PROVE heap[i] = text.gpus[i].specs
    BY DEF SourceUntouched
  <2>1. i \notin Own
    BY <1>4, OwnIsApart DEF Own
  <2> QED
    BY <2>1 DEF Init
<1> QED
  BY <1>4, <1>5, <1>6 DEF IInv

\* The notes overlay writes one key, with a value, into the caller's own specs.
LEMMA OverlayWrites ==
    ASSUME IInv, NEW t \in Thread, OverlayNote(t)
    PROVE  heap' = heap \/ \E s \in Specs : heap' = [heap EXCEPT ![t] = s]
<1> DEFINE note == text.notes[at[t]]
<1>1. TypeOK /\ hits[t][1].specs = t
  BY DEF IInv, Ownership, OverlaysOwn, OverlayNote, Overlaying
<1>2. note \in NoteRow
  <2>1. at[t] \in 1..Len(text.notes)
    BY <1>1, TextTypes DEF TypeOK, OverlayNote, Overlaying
  <2> QED
    BY <1>1, <2>1, TextTypes
<1>3. CASE note.override # NONE /\ note.key # NONE
  <2>1. note.key \in SpecKey /\ note.override \in SpecValue
    BY <1>2, <1>3 DEF NoteRow
  <2>2. heap[t] \in Specs
    BY <1>1 DEF TypeOK, Own
  <2>3. Assign(heap[t], note.key, note.override) \in Specs
    BY <2>1, <2>2, AssignType
  <2>4. heap' = heap \/ heap' = [heap EXCEPT ![t] = Assign(@, note.key, note.override)]
    BY <1>1 DEF OverlayNote
  <2> QED
    BY <2>3, <2>4
<1>4. CASE ~(note.override # NONE /\ note.key # NONE)
  BY <1>4 DEF OverlayNote
<1> QED
  BY <1>3, <1>4

\* A caller's write goes into its own specs.
LEMMA ScribbleWrites ==
    ASSUME IInv, NEW t \in Thread, NEW key \in SpecKey, NEW value \in SpecValue, Scribble(t, key, value)
    PROVE  \E s \in Specs : heap' = [heap EXCEPT ![t] = s]
<1>1. TypeOK /\ answer[t][1].specs = t
  BY DEF IInv, Ownership, ResolvedOwn, Resolving, Scribble
<1>2. heap[t] \in Specs /\ key \in DOMAIN heap[t]
  BY <1>1 DEF TypeOK, Own, Scribble
<1>3. [heap[t] EXCEPT ![key] = value] \in Specs
  BY <1>2, OverwriteType
<1>4. heap' = [heap EXCEPT ![t] = [heap[t] EXCEPT ![key] = value]]
  BY <1>1 DEF Scribble
<1> QED
  BY <1>3, <1>4

\* Every step leaves the heap, or writes into one caller's own specs.
LEMMA HeapStep ==
    ASSUME IInv, [AnyNext]_vars
    PROVE  /\ text' = text
           /\ heap' = heap \/ \E t \in Thread : \E s \in Specs : heap' = [heap EXCEPT ![t] = s]
<1>1. ASSUME NEW t \in Thread, CopyEntry(t)
      PROVE  \E s \in Specs : heap' = [heap EXCEPT ![t] = s]
  <2>1. at[t] \in 1..Len(text.gpus)
    BY <1>1, TextTypes DEF IInv, TypeOK, CopyEntry, Scanning, Rows, GpuVerbs
  <2>2. heap[at[t]] \in Specs
    BY <2>1 DEF IInv, TypeOK
  <2> QED
    BY <1>1, <2>2 DEF CopyEntry
<1>2. ASSUME NEW t \in Thread, Step(t)
      PROVE  /\ text' = text
             /\ heap' = heap \/ \E s \in Specs : heap' = [heap EXCEPT ![t] = s]
  <2>1. CASE OverlayNote(t)
    BY <2>1, OverlayWrites DEF OverlayNote, Advance
  <2>2. CASE CopyEntry(t)
    BY <1>1, <2>2 DEF CopyEntry
  <2>3. CASE Raise(t) \/ Stop(t) \/ Exhausted(t) \/ Overlaid(t)
    BY <2>3 DEF Raise, Stop, Exhausted, Overlaid, Return
  <2>4. CASE Pass(t) \/ Collect(t)
    BY <2>4 DEF Pass, Collect, Advance
  <2> QED
    BY <1>2, <2>1, <2>2, <2>3, <2>4 DEF Step
<1>3. ASSUME NEW t \in Thread, NEW key \in SpecKey, NEW value \in SpecValue, Scribble(t, key, value)
      PROVE  text' = text /\ \E s \in Specs : heap' = [heap EXCEPT ![t] = s]
  BY <1>3, ScribbleWrites DEF Scribble
<1>4. CASE Load \/ (\E t \in Thread, q \in Question : Ask(t, q)) \/ UNCHANGED vars
  BY <1>4 DEF Load, Ask, vars
<1> QED
  BY <1>2, <1>3, <1>4 DEF AnyNext

\* The catalog's specs stay as they were loaded.
LEMMA SourceStep == IInv /\ [AnyNext]_vars => SourceUntouched'
<1> SUFFICES ASSUME IInv, [AnyNext]_vars, NEW i \in 1..Len(text.gpus)
             PROVE  heap'[i] = text.gpus[i].specs
  BY HeapStep DEF SourceUntouched
<1>1. heap[i] = text.gpus[i].specs /\ TypeOK
  BY DEF IInv, SourceUntouched
<1>2. \A t \in Thread : t # i
  BY <1>1, OwnIsApart
<1>3. heap'[i] = heap[i]
  <2>1. CASE heap' = heap
    BY <2>1
  <2>2. ASSUME NEW t \in Thread, NEW s \in Specs, heap' = [heap EXCEPT ![t] = s] PROVE heap'[i] = heap[i]
    BY <1>1, <1>2, <2>2 DEF TypeOK
  <2> QED
    BY <2>1, <2>2, HeapStep
<1> QED
  BY <1>1, <1>3

\* Every step keeps the types.
LEMMA TypeStep == IInv /\ [AnyNext]_vars => TypeOK'
<1> SUFFICES ASSUME IInv, [AnyNext]_vars PROVE TypeOK'
  OBVIOUS
<1>0. TypeOK
  BY DEF IInv
<1>1. text' = text /\ heap' \in [(1..Len(text'.gpus)) \cup Own -> Specs]
  <2>1. heap \in [(1..Len(text.gpus)) \cup Own -> Specs] /\ Thread \subseteq Own
    BY <1>0 DEF TypeOK, Own
  <2>2. ASSUME NEW t \in Thread, NEW s \in Specs, heap' = [heap EXCEPT ![t] = s]
        PROVE  heap' \in [(1..Len(text.gpus)) \cup Own -> Specs]
    BY <2>1, <2>2
  <2> QED
    BY <2>1, <2>2, HeapStep
<1> DEFINE Rest == /\ binding \in Bindings
                   /\ loaded \in {"no", "yes", "refused"}
                   /\ question \in [Thread -> Question \cup {NONE}]
                   /\ answer \in [Thread -> Found \cup {NONE, RAISED}]
                   /\ pc \in [Thread -> {"idle", "scan", "overlay"}]
                   /\ at \in [Thread -> Nat \ {0}]
                   /\ hits \in [Thread -> Found]
<1>2. Rest'
  <2>0. Rest
    BY <1>0 DEF TypeOK
  <2>1. CASE Load
    BY <2>0, <2>1 DEF Load
  <2>2. ASSUME NEW t \in Thread, NEW q \in Question, Ask(t, q) PROVE Rest'
    BY <2>0, <2>2, AskedAssumption DEF Ask
  <2>3. ASSUME NEW t \in Thread, Raise(t) PROVE Rest'
    BY <2>0, <2>3 DEF Raise, Return
  <2>4. ASSUME NEW t \in Thread, Pass(t) PROVE Rest'
    BY <2>0, <2>4 DEF Pass, Advance
  <2>5. ASSUME NEW t \in Thread, Collect(t) PROVE Rest'
    <3>1. Append(hits[t], This(t)) \in Found
      BY <1>0, <2>0, FoundType, AppendProperties DEF Found
    <3> QED
      BY <2>0, <2>5, <3>1 DEF Collect, Advance
  <2>6. ASSUME NEW t \in Thread, Stop(t) PROVE Rest'
    <3>1. <<This(t)>> \in Found
      BY <1>0, FoundType DEF Found
    <3> QED
      BY <2>0, <2>6, <3>1 DEF Stop, Return
  <2>7. ASSUME NEW t \in Thread, Exhausted(t) \/ Overlaid(t) PROVE Rest'
    BY <2>0, <2>7 DEF Exhausted, Overlaid, Return
  <2>8. ASSUME NEW t \in Thread, CopyEntry(t) PROVE Rest'
    <3>1. <<[row |-> at[t], specs |-> t]>> \in Found
      BY <1>0, FoundType DEF Found
    <3> QED
      BY <2>0, <2>8, <3>1 DEF CopyEntry
  <2>9. ASSUME NEW t \in Thread, OverlayNote(t) PROVE Rest'
    BY <2>0, <2>9 DEF OverlayNote, Advance
  <2>10. ASSUME NEW t \in Thread, NEW key \in SpecKey, NEW value \in SpecValue, Scribble(t, key, value)
         PROVE  Rest'
    BY <2>0, <2>10 DEF Scribble
  <2>11. CASE UNCHANGED vars
    BY <2>0, <2>11 DEF vars
  <2> QED
    BY <2>1, <2>2, <2>3, <2>4, <2>5, <2>6, <2>7, <2>8, <2>9, <2>10, <2>11 DEF AnyNext, Step
<1>3. text' \in TextRecord
  BY <1>0, <1>1 DEF TypeOK
<1> QED
  BY <1>1, <1>2, <1>3 DEF TypeOK

\* Every step keeps the copies with their callers.
LEMMA OwnStep == IInv /\ [AnyNext]_vars => Ownership'
<1> SUFFICES ASSUME IInv, [AnyNext]_vars PROVE Ownership'
  OBVIOUS
<1> USE DEF Ownership, OverlaysOwn, ResolvesOnce, ResolvedOwn, AsksFirst, Resolving
<1>0. TypeOK /\ Ownership
  BY DEF IInv
<1>1. CASE Load
  BY <1>0, <1>1 DEF Load
<1>2. ASSUME NEW t \in Thread, NEW q \in Question, Ask(t, q) PROVE Ownership'
  <2>1. q # NONE
    BY AskedAssumption
  <2> QED
    BY <1>0, <1>2, <2>1 DEF TypeOK, Ask
<1>3. ASSUME NEW t \in Thread, Raise(t) PROVE Ownership'
  BY <1>0, <1>3 DEF TypeOK, Raise, Scanning, Missing, Return
<1>4. ASSUME NEW t \in Thread, Pass(t) PROVE Ownership'
  BY <1>0, <1>4 DEF Pass, Advance
<1>5. ASSUME NEW t \in Thread, Collect(t) PROVE Ownership'
  BY <1>0, <1>5 DEF TypeOK, Collect, Scanning, Advance
<1>6. ASSUME NEW t \in Thread, Stop(t) PROVE Ownership'
  BY <1>0, <1>6 DEF TypeOK, Stop, Scanning, Return
<1>7. ASSUME NEW t \in Thread, Exhausted(t) PROVE Ownership'
  BY <1>0, <1>7 DEF TypeOK, Exhausted, Return
<1>8. ASSUME NEW t \in Thread, Overlaid(t) PROVE Ownership'
  BY <1>0, <1>8 DEF TypeOK, Overlaid, Return
<1>9. ASSUME NEW t \in Thread, CopyEntry(t) PROVE Ownership'
  BY <1>0, <1>9 DEF TypeOK, CopyEntry, Scanning
<1>10. ASSUME NEW t \in Thread, OverlayNote(t) PROVE Ownership'
  BY <1>0, <1>10 DEF OverlayNote, Advance
<1>11. ASSUME NEW t \in Thread, NEW key \in SpecKey, NEW value \in SpecValue, Scribble(t, key, value)
       PROVE  Ownership'
  BY <1>0, <1>11 DEF Scribble
<1>12. CASE UNCHANGED vars
  BY <1>0, <1>12 DEF vars
<1> QED
  BY <1>1, <1>2, <1>3, <1>4, <1>5, <1>6, <1>7, <1>8, <1>9, <1>10, <1>11, <1>12 DEF AnyNext, Step

\* Every step keeps the invariant.
LEMMA IStep == IInv /\ [AnyNext]_vars => IInv'
  BY TypeStep, OwnStep, SourceStep DEF IInv

\* The bindings' callers ask some of the questions.
LEMMA NextIsAny == Next => AnyNext
  BY AskedAssumption DEF Next, AnyNext

\* The inductive invariant holds in every reachable state.
LEMMA IInvHolds == Spec => []IInv
  BY IInit, IStep, NextIsAny, PTL DEF Spec

\* Every lookup keeps the types, of the heap that its overlay writes to above
\* all: catalog.go's applyGPUOverrides.
THEOREM TypeCorrect == Spec => []TypeOK
<1>1. IInv => TypeOK
  BY DEF IInv
<1> QED
  BY <1>1, IInvHolds, PTL

\* However many callers resolve, and whatever they write into what they got,
\* the catalog that all of them share is the one loaded: ResolveGPU's copy of
\* the specs map (catalog.go:169).
THEOREM SourceUntouchedHolds == Spec => []SourceUntouched
<1>1. IInv => SourceUntouched
  BY DEF IInv
<1> QED
  BY <1>1, IInvHolds, PTL

-----------------------------------------------------------------------------
(***************************************************************************)
(* What the loops find is what the iterators keep.                         *)
(***************************************************************************)
Increasing(s) == \A k, m \in 1..Len(s) : k < m => s[k] < s[m]

\* s lists the positions, in order.
Enumerates(s, positions) == s \in Seq(Nat) /\ Increasing(s) /\ {s[k] : k \in 1..Len(s)} = positions

\* The positions in order are the only sequence that lists them.
LEMMA InOrderIs ==
    ASSUME NEW bound \in Nat, NEW S \in SUBSET (1..bound), NEW s, Enumerates(s, S)
    PROVE  InOrder(S) = s
<1> DEFINE len == Len(s)
           Orders(r) == r \in [1..Cardinality(S) -> S]
                        /\ \A k, m \in 1..Cardinality(S) : k < m => r[k] < r[m]
<1>1. IsFiniteSet(S)
  <2>1. 1 \in Int /\ bound \in Int
    OBVIOUS
  <2>2. IsFiniteSet(1..bound)
    BY <2>1, FS_Interval, Zenon
  <2> QED
    BY <2>2, FS_Subset, Zenon
<1>0. S \subseteq Nat
  OBVIOUS
<1>2. s \in [1..len -> S] /\ len \in Nat /\ \A k \in 1..len : s[k] \in Nat
  BY DEF Enumerates
<1>3. \A k, m \in 1..len : s[k] = s[m] => k = m
  BY <1>2 DEF Enumerates, Increasing
<1>4. Cardinality(S) = len
  <2>1. IsInjective(s)
    BY <1>2, <1>3 DEF IsInjective
  <2>2. \A i \in S : \E k \in 1..len : s[k] = i
    BY DEF Enumerates
  <2>3. s \in Bijection(1..len, S)
    BY <1>2, <2>1, <2>2, Zenon DEF Bijection, Injection, Surjection
  <2>4. ExistsBijection(1..len, S)
    BY <2>3, Zenon DEF ExistsBijection
  <2> QED
    BY <1>2, <2>4, FS_CountingElements, Zenon
<1>5. Orders(s)
  BY <1>2, <1>4 DEF Enumerates, Increasing
<1>6. ASSUME NEW r, Orders(r) PROVE r = s
  <2>1. r \in [1..len -> S] /\ \A k, m \in 1..len : k < m => r[k] < r[m]
    BY <1>4, <1>6
  <2>2. \A k \in 1..len : r[k] \in Nat
    BY <1>0, <2>1
  <2>3. \A i \in S : \E k \in 1..len : r[k] = i
    <3>1. IsInjective(r)
      <4>1. \A k, m \in 1..len : r[k] = r[m] => k = m
        BY <1>2, <2>1, <2>2
      <4> QED
        BY <2>1, <4>1 DEF IsInjective
    <3>2. r \in Injection(1..len, S)
      BY <2>1, <3>1, Zenon DEF Injection
    <3>3. Cardinality(1..len) = len
      <4>1. 1 \in Int /\ len \in Int
        BY <1>2
      <4>2. Cardinality(1..len) = IF 1 > len THEN 0 ELSE len - 1 + 1
        BY <4>1, FS_Interval, Zenon
      <4> QED
        BY <1>2, <4>2
    <3>4. r \in Surjection(1..len, S)
      BY <1>1, <1>4, <3>2, <3>3, FS_Injection, Zenon
    <3> QED
      BY <3>4, Zenon DEF Surjection
  <2> DEFINE apart == {k \in 1..len : r[k] # s[k]}
  <2>4. apart = {}
    <3> SUFFICES ASSUME apart # {} PROVE FALSE
      OBVIOUS
    <3>1. apart \in SUBSET (0..len)
      OBVIOUS
    <3>2. PICK k \in apart : \A m \in apart : k <= m
      BY <1>2, <3>1, FirstExists
    <3>3. k \in 1..len /\ r[k] # s[k] /\ \A m \in 1..len : m < k => r[m] = s[m]
      BY <1>2, <3>2
    <3> HIDE DEF apart
    <3>4. r[k] < s[k]
      <4>1. PICK m \in 1..len : r[m] = s[k]
        BY <1>2, <2>3, <3>3
      <4>2. ~(m < k) /\ m # k
        BY <1>3, <3>3, <4>1
      <4> QED
        BY <1>2, <2>1, <3>3, <4>1, <4>2
    <3>5. s[k] < r[k]
      <4>1. PICK m \in 1..len : s[m] = r[k]
        BY <2>1, <3>3 DEF Enumerates
      <4>2. ~(m < k) /\ m # k
        <5>1. m < k => r[m] = r[k]
          BY <3>3, <4>1
        <5>2. m < k => r[m] < r[k]
          BY <2>1, <3>3
        <5> QED
          BY <2>2, <3>3, <4>1, <5>1, <5>2
      <4> QED
        BY <1>2, <3>3, <4>1, <4>2 DEF Enumerates, Increasing
    <3> QED
      BY <1>2, <2>2, <3>3, <3>4, <3>5
  <2> QED
    BY <1>2, <2>1, <2>4
<1>7. InOrder(S) = CHOOSE r : Orders(r)
  BY DEF InOrder
<1> HIDE DEF Orders
<1> QED
  BY <1>5, <1>6, <1>7

\* The position found is the first, when there is one.
LEMMA FirstIs ==
    ASSUME NEW positions \in SUBSET Nat
    PROVE  /\ positions = {} => First(positions) = <<>>
           /\ \A i \in positions : (\A k \in positions : i <= k) => First(positions) = <<i>>
<1>1. ASSUME NEW i \in positions, \A k \in positions : i <= k
      PROVE  First(positions) = <<i>>
  <2> DEFINE Least(j) == j \in positions /\ \A k \in positions : j <= k
  <2>1. ASSUME NEW j, Least(j) PROVE j = i
    <3>1. i \in Nat /\ j \in Nat /\ i <= j /\ j <= i
      BY <1>1, <2>1
    <3> QED
      BY <3>1
  <2>2. Least(i)
    BY <1>1
  <2>3. First(positions) = <<CHOOSE j : Least(j)>>
    BY <1>1 DEF First
  <2> HIDE DEF Least
  <2>4. (CHOOSE j : Least(j)) = i
    BY <2>1, <2>2, Zenon
  <2> QED
    BY <2>3, <2>4
<1> QED
  BY <1>1 DEF First

-----------------------------------------------------------------------------
(***************************************************************************)
(* Where each caller is: what the rows it has found and its own specs are, *)
(* by the positions its loops have passed.                                 *)
(***************************************************************************)
ListVerbs == {"target", "generation", "npus", "notes"}

\* The rows that the test of the loop holds of.
HitPositions(q) == {i \in 1..Len(Rows(q.verb)) : Hit(q, Rows(q.verb)[i])}

\* Those that the loop has passed.
Passed(t) == {i \in HitPositions(question[t]) : i < at[t]}

ReferenceOf(q, t, i) == IF q.verb = "resolve" THEN t ELSE IF q.verb \in GpuVerbs THEN i ELSE NONE

\* The rows at some positions, as an answer refers to them.
References(q, t, s) == [k \in 1..Len(s) |-> [row |-> s[k], specs |-> ReferenceOf(q, t, s[k])]]

\* The base specs with the overrides of the first n notes.
Applied(specs, base, id, n) ==
    /\ specs \in Specs
    /\ DOMAIN specs = DOMAIN base \cup {key \in SpecKey : \E j \in Overriding(text, id, key) : j <= n}
    /\ \A key \in DOMAIN specs :
          \/ \E j \in Overriding(text, id, key) :
                /\ j <= n
                /\ \A m \in Overriding(text, id, key) : m <= n => m <= j
                /\ specs[key] = text.notes[j].override
          \/ /\ \A j \in Overriding(text, id, key) : ~(j <= n)
             /\ specs[key] = base[key]

FreshCaller(t) == pc[t] = "idle" /\ answer[t] = NONE /\ at[t] = 1 /\ hits[t] = <<>>

ScansInOrder(t) ==
    /\ at[t] <= Len(Rows(question[t].verb)) + 1
    /\ \E s : Enumerates(s, Passed(t)) /\ hits[t] = References(question[t], t, s)
    /\ question[t].verb \notin ListVerbs => Passed(t) = {}

OverlaysFirst(t) ==
    /\ at[t] <= Len(text.notes) + 1
    /\ \E i \in HitPositions(question[t]) :
          /\ \A k \in HitPositions(question[t]) : i <= k
          /\ hits[t] = <<[row |-> i, specs |-> t]>>
          /\ Applied(heap[t], text.gpus[i].specs, question[t].of, at[t] - 1)

AnsweredRight(t) ==
    LET positions == PositionsOf(text, question[t])
    IN  /\ positions \in Seq(HitPositions(question[t]))
        /\ positions = <<>> => HitPositions(question[t]) = {}
        /\ answer[t] = References(question[t], t, positions)

\* Only the skill raises, and only where a generation is missing.
RaisesRight(t) == question[t].verb = "generation" /\ ~SchemaAccepts(text)

Progress(t) ==
    /\ question[t] = NONE => FreshCaller(t)
    /\ question[t] # NONE => (pc[t] = "idle" <=> answer[t] # NONE)
    /\ pc[t] = "scan" => ScansInOrder(t)
    /\ pc[t] = "overlay" => OverlaysFirst(t)
    /\ answer[t] = RAISED => RaisesRight(t)
    /\ answer[t] \notin {NONE, RAISED} => AnsweredRight(t)

AllProgress == text \in Text /\ \A t \in Thread : Progress(t)

-----------------------------------------------------------------------------
\* The list of every verb is a list, of rows of its kind.
LEMMA RowsType ==
    ASSUME TypeOK, NEW q \in Question
    PROVE  /\ Len(Rows(q.verb)) \in Nat
           /\ q.verb \in GpuVerbs => Rows(q.verb) = text.gpus
           /\ q.verb \in {"npus", "npu"} => Rows(q.verb) = text.npus
           /\ q.verb = "notes" => Rows(q.verb) = text.notes
<1>1. q.verb \in Verbs
  BY DEF Question
<1>2. Len(text.gpus) \in Nat /\ Len(text.npus) \in Nat /\ Len(text.notes) \in Nat
  BY TextTypes
<1> QED
  BY <1>1, <1>2 DEF Rows, Verbs, GpuVerbs

\* The lookups keep the rows that their loops' tests hold of.
LEMMA PositionsAreHits ==
    ASSUME TypeOK, NEW q \in Question
    PROVE  PositionsOf(text, q) =
             IF q.verb \in ListVerbs THEN InOrder(HitPositions(q)) ELSE First(HitPositions(q))
<1>0. q.verb \in Verbs
  BY DEF Question
<1>1. CASE q.verb \in {"gpu", "resolve"}
  <2>1. HitPositions(q) = {i \in 1..Len(text.gpus) :
                             text.gpus[i].device_id # NONE /\ Same(text.gpus[i].device_id, q.of)}
    BY <1>1, RowsType DEF HitPositions, Hit, GpuVerbs
  <2> QED
    BY <1>1, <2>1 DEF PositionsOf, GpuByDeviceId, ListVerbs
<1>2. CASE q.verb = "target"
  <2>1. HitPositions(q) = {i \in 1..Len(text.gpus) : text.gpus[i].gfx_target = q.of}
    BY <1>2, RowsType DEF HitPositions, Hit, GpuVerbs
  <2> QED
    BY <1>2, <2>1 DEF PositionsOf, GpusByGfxTarget, ListVerbs
<1>3. CASE q.verb = "generation"
  <2>1. HitPositions(q) = {i \in 1..Len(text.gpus) : text.gpus[i].generation = q.of}
    BY <1>3, RowsType DEF HitPositions, Hit, GpuVerbs
  <2> QED
    BY <1>3, <2>1 DEF PositionsOf, GpusByGeneration, ListVerbs
<1>4. CASE q.verb = "npus"
  <2>1. HitPositions(q) = {i \in 1..Len(text.npus) : Same(text.npus[i].device_id, q.of)}
    BY <1>4, RowsType DEF HitPositions, Hit
  <2> QED
    BY <1>4, <2>1 DEF PositionsOf, NpusByDeviceId, ListVerbs
<1>5. CASE q.verb = "npu"
  <2>1. HitPositions(q) = {i \in 1..Len(text.npus) : /\ Same(text.npus[i].device_id, q.of)
                                                      /\ text.npus[i].revision_id # NONE
                                                      /\ Same(text.npus[i].revision_id, q.revision)}
    BY <1>5, RowsType DEF HitPositions, Hit
  <2> QED
    BY <1>5, <2>1 DEF PositionsOf, NpuByDeviceIdAndRevision, ListVerbs
<1>6. CASE q.verb = "notes"
  <2>1. HitPositions(q) = {i \in 1..Len(text.notes) : Same(text.notes[i].device_id, q.of)}
    BY <1>6, RowsType DEF HitPositions, Hit
  <2> QED
    BY <1>6, <2>1 DEF PositionsOf, NotesForDevice, ListVerbs
<1> QED
  BY <1>0, <1>1, <1>2, <1>3, <1>4, <1>5, <1>6 DEF Verbs, GpuVerbs

\* A list of all the hits is what the list lookups return.
LEMMA ListFound ==
    ASSUME TypeOK, NEW q \in Question, q.verb \in ListVerbs, NEW s, Enumerates(s, HitPositions(q))
    PROVE  /\ PositionsOf(text, q) = s
           /\ s \in Seq(HitPositions(q))
           /\ s = <<>> => HitPositions(q) = {}
<1>1. Len(Rows(q.verb)) \in Nat /\ HitPositions(q) \in SUBSET (1..Len(Rows(q.verb)))
  BY RowsType DEF HitPositions
<1>2. InOrder(HitPositions(q)) = s
  <2> DEFINE S == HitPositions(q)
             bound == Len(Rows(q.verb))
  <2>1. bound \in Nat /\ S \in SUBSET (1..bound) /\ Enumerates(s, S)
    BY <1>1
  <2> HIDE DEF S, bound
  <2>2. InOrder(S) = s
    BY <2>1, InOrderIs, Zenon
  <2> QED
    BY <2>2 DEF S
<1>3. s \in Seq(HitPositions(q)) /\ (s = <<>> => HitPositions(q) = {})
  <2>1. s \in Seq(Nat) /\ Len(s) \in Nat /\ s = [k \in 1..Len(s) |-> s[k]]
    BY DEF Enumerates
  <2>2. \A k \in 1..Len(s) : s[k] \in HitPositions(q)
    BY DEF Enumerates
  <2>3. s \in [1..Len(s) -> HitPositions(q)]
    BY <2>1, <2>2
  <2>4. s = <<>> => 1..Len(s) = {}
    OBVIOUS
  <2> QED
    BY <2>1, <2>3, <2>4, SeqDef DEF Enumerates
<1> QED
  BY <1>2, <1>3, PositionsAreHits

\* The first hit is what the other lookups return, and nothing if there is none.
LEMMA FirstFound ==
    ASSUME TypeOK, NEW q \in Question, q.verb \notin ListVerbs
    PROVE  /\ HitPositions(q) = {} => PositionsOf(text, q) = <<>>
           /\ \A i \in HitPositions(q) :
                 (\A k \in HitPositions(q) : i <= k) =>
                    PositionsOf(text, q) = <<i>> /\ <<i>> \in Seq(HitPositions(q)) /\ <<i>> # <<>>
<1>1. HitPositions(q) \in SUBSET Nat
  BY RowsType DEF HitPositions
<1>2. PositionsOf(text, q) = First(HitPositions(q))
  BY PositionsAreHits
<1>3. /\ HitPositions(q) = {} => First(HitPositions(q)) = <<>>
      /\ \A i \in HitPositions(q) : (\A k \in HitPositions(q) : i <= k) => First(HitPositions(q)) = <<i>>
  BY <1>1, FirstIs
<1> QED
  BY <1>2, <1>3

-----------------------------------------------------------------------------
\* What a caller sees of the rows at some positions.
Shown(q, t, s) ==
    [k \in 1..Len(s) |-> [row |-> s[k], specs |-> IF q.verb = "resolve" THEN heap[t] ELSE SpecsOf(text, q, s[k])]]

\* A function on the first positions is a sequence.
LEMMA MadeIsSeq ==
    ASSUME NEW S, NEW n \in Nat, NEW f \in [1..n -> S]
    PROVE  f \in Seq(S)
  BY SeqDef

\* References to rows are what a lookup finds.
LEMMA ReferencesType ==
    ASSUME TypeOK, NEW q \in Question, NEW t \in Thread, NEW s \in Seq(HitPositions(q))
    PROVE  References(q, t, s) \in Found
<1>1. Len(s) \in Nat /\ \A k \in 1..Len(s) : s[k] \in Nat
  <2>1. \A k \in 1..Len(s) : s[k] \in HitPositions(q)
    OBVIOUS
  <2>2. HitPositions(q) \subseteq Nat
    BY RowsType DEF HitPositions
  <2> QED
    BY <2>1, <2>2
<1>2. \A k \in 1..Len(s) : ReferenceOf(q, t, s[k]) \in Reference
  BY <1>1 DEF ReferenceOf, Reference, Own
<1>3. References(q, t, s) \in [1..Len(s) -> [row : Nat, specs : Reference]]
  BY <1>1, <1>2 DEF References
<1> QED
  BY <1>1, <1>3, MadeIsSeq, Zenon DEF Found

\* What is found is no mark.
LEMMA FoundIsNoMark ==
    ASSUME NEW found \in Found
    PROVE  found # NONE /\ found # RAISED
  BY AnswerMarksAssumption

\* A caller sees the catalog's specs, or its own.
LEMMA SeenIsShown ==
    ASSUME TypeOK, SourceUntouched, NEW q \in Question, NEW t \in Thread, NEW s \in Seq(HitPositions(q))
    PROVE  /\ Seen(References(q, t, s)) = Shown(q, t, s)
           /\ Shown(q, t, s) \in Seq([row : Nat, specs : Specs])
<1>1. References(q, t, s) \in Found
  BY ReferencesType
<1>2. Len(s) \in Nat /\ \A k \in 1..Len(s) : s[k] \in HitPositions(q)
  OBVIOUS
<1>3. Len(References(q, t, s)) = Len(s)
  BY <1>2 DEF References
<1>4. \A i \in HitPositions(q) : i \in Nat /\ (q.verb \in GpuVerbs => i \in 1..Len(text.gpus))
  BY RowsType DEF HitPositions
<1>5. NONE \notin Nat /\ t # NONE
  BY ThreadAssumption
<1>6. <<>> \in Specs
  <2>1. <<>> \in [{} -> SpecValue]
    OBVIOUS
  <2> QED
    BY <2>1 DEF Specs
<1>7. q.verb \in Verbs
  BY DEF Question
<1>8. ASSUME NEW i \in HitPositions(q)
      PROVE  LET r == ReferenceOf(q, t, i)
                 shown == IF q.verb = "resolve" THEN heap[t] ELSE SpecsOf(text, q, i)
             IN  (IF r = NONE THEN <<>> ELSE heap[r]) = shown /\ shown \in Specs
  <2>1. CASE q.verb = "resolve"
    <3>1. heap[t] \in Specs
      BY DEF TypeOK, Own
    <3> QED
      BY <1>5, <2>1, <3>1 DEF ReferenceOf
  <2>2. CASE q.verb \in GpuVerbs \ {"resolve"}
    <3>1. i \in Nat /\ i \in 1..Len(text.gpus) /\ i # NONE
      BY <1>4, <1>5, <2>2
    <3>2. heap[i] = text.gpus[i].specs /\ heap[i] \in Specs
      BY <3>1 DEF SourceUntouched, TypeOK
    <3>3. SpecsOf(text, q, i) = text.gpus[i].specs
      BY <2>2 DEF SpecsOf, GpuVerbs
    <3>4. ReferenceOf(q, t, i) = i
      BY <2>2 DEF ReferenceOf
    <3> QED
      BY <2>2, <3>1, <3>2, <3>3, <3>4
  <2>3. CASE q.verb \notin GpuVerbs
    <3>1. SpecsOf(text, q, i) = <<>>
      BY <2>3 DEF SpecsOf, GpuVerbs
    <3>2. ReferenceOf(q, t, i) = NONE /\ q.verb # "resolve"
      BY <2>3 DEF ReferenceOf, GpuVerbs
    <3> QED
      BY <1>6, <3>1, <3>2
  <2> QED
    BY <2>1, <2>2, <2>3
<1>9. \A k \in 1..Len(s) :
         /\ References(q, t, s)[k].row = s[k]
         /\ References(q, t, s)[k].specs = ReferenceOf(q, t, s[k])
  BY DEF References
<1>10. References(q, t, s) \notin {NONE, RAISED}
  BY <1>1, FoundIsNoMark
<1>11. Seen(References(q, t, s)) = Shown(q, t, s)
  <2>1. Seen(References(q, t, s)) =
          [k \in 1..Len(s) |->
             [row |-> s[k], specs |-> IF ReferenceOf(q, t, s[k]) = NONE THEN <<>> ELSE heap[ReferenceOf(q, t, s[k])]]]
    BY <1>3, <1>9, <1>10 DEF Seen
  <2> QED
    BY <1>2, <1>8, <2>1 DEF Shown
<1>12. Shown(q, t, s) \in [1..Len(s) -> [row : Nat, specs : Specs]]
  BY <1>2, <1>4, <1>8 DEF Shown
<1> QED
  <2>1. Shown(q, t, s) \in Seq([row : Nat, specs : Specs])
    <3> HIDE DEF Shown
    <3> QED
      BY <1>2, <1>12, MadeIsSeq, Zenon
  <2> QED
    BY <1>11, <2>1

\* What a caller sees is no mark.
LEMMA ShownIsNoMark ==
    ASSUME TypeOK, SourceUntouched, NEW q \in Question, NEW t \in Thread, NEW s \in Seq(HitPositions(q))
    PROVE  Shown(q, t, s) # NONE /\ Shown(q, t, s) # RAISED
  BY SeenIsShown, AnswerMarksAssumption

\* An override takes the place of the base value if it is the last of its key.
LEMMA AppliedIsTheOverlay ==
    ASSUME TypeOK, NEW specs, NEW base, NEW id, Applied(specs, base, id, Len(text.notes))
    PROVE  specs = ApplyGpuOverrides(text, base, id)
<1> DEFINE n == Len(text.notes)
           O(key) == Overriding(text, id, key)
           last(key) == CHOOSE j \in O(key) : \A m \in O(key) : m <= j
           overridden == {key \in SpecKey : O(key) # {}}
<1>1. n \in Nat /\ \A key : O(key) \in SUBSET (1..n)
  BY TextTypes DEF Overriding
<1>2. \A key : \A j \in O(key) : j \in Nat /\ j <= n
  BY <1>1
<1>3. DOMAIN specs = DOMAIN base \cup overridden
  BY <1>2 DEF Applied
<1>4. specs = [key \in DOMAIN specs |-> specs[key]]
  BY DEF Applied, Specs
<1>5. ASSUME NEW key \in DOMAIN specs
      PROVE  specs[key] = IF key \in overridden THEN text.notes[last(key)].override ELSE base[key]
  <2>1. CASE O(key) # {}
    <3>1. PICK j \in O(key) : (\A m \in O(key) : m <= n => m <= j) /\ specs[key] = text.notes[j].override
      BY <1>2, <2>1 DEF Applied
    <3>2. last(key) = j
      <4> DEFINE Last(i) == i \in O(key) /\ \A m \in O(key) : m <= i
      <4>1. Last(j)
        BY <1>2, <3>1
      <4>2. ASSUME NEW i, Last(i) PROVE i = j
        <5>1. i \in Nat /\ j \in Nat /\ i <= j /\ j <= i
          BY <1>2, <3>1, <4>1, <4>2
        <5> QED
          BY <5>1
      <4>3. last(key) = CHOOSE i : Last(i)
        OBVIOUS
      <4> HIDE DEF Last, last
      <4> QED
        BY <4>1, <4>2, <4>3, Zenon
    <3>3. key \in SpecKey
      <4>1. text.notes[j] \in NoteRow /\ text.notes[j].key = key /\ text.notes[j].override # NONE
        BY <1>1, TextTypes DEF Overriding
      <4>2. PICK keys \in SUBSET SpecKey : specs \in [keys -> SpecValue]
        BY DEF Applied, Specs
      <4> QED
        BY <4>2
    <3>4. key \in overridden
      BY <2>1, <3>3
    <3> HIDE DEF last, overridden
    <3> QED
      BY <3>1, <3>2, <3>4
  <2>2. CASE O(key) = {}
    <3>1. specs[key] = base[key]
      BY <2>2 DEF Applied
    <3> QED
      BY <2>2, <3>1
  <2> QED
    BY <2>1, <2>2
<1>6. ApplyGpuOverrides(text, base, id) =
        [key \in DOMAIN base \cup overridden |->
            IF key \in overridden THEN text.notes[last(key)].override ELSE base[key]]
  BY DEF ApplyGpuOverrides
<1> HIDE DEF last, overridden
<1> QED
  BY <1>3, <1>4, <1>5, <1>6

-----------------------------------------------------------------------------
\* The hits of a question are the text's.
LEMMA SameHits ==
    ASSUME NEW t, text' = text, question'[t] = question[t]
    PROVE  /\ HitPositions(question[t])' = HitPositions(question[t])
           /\ Rows(question[t].verb)' = Rows(question[t].verb)
           /\ Passed(t)' = {i \in HitPositions(question[t]) : i < at'[t]}
<1>1. Rows(question[t].verb)' = Rows(question[t].verb)
  BY DEF Rows
<1>2. HitPositions(question[t])' = {i \in 1..Len(Rows(question[t].verb)') :
                                      Hit(question'[t], Rows(question[t].verb)'[i])}
  BY DEF HitPositions
<1>3. HitPositions(question[t])' = HitPositions(question[t])
  BY <1>1, <1>2 DEF HitPositions
<1>4. Passed(t)' = {i \in HitPositions(question[t])' : i < at'[t]}
  BY DEF Passed
<1> QED
  BY <1>1, <1>3, <1>4

\* Progress, of the next state, said in terms of the text and question of this one.
LEMMA NextProgress ==
    ASSUME NEW t \in Thread, text' = text, question'[t] = question[t], question[t] # NONE,
           pc'[t] = "idle" <=> answer'[t] # NONE,
           pc'[t] = "scan" =>
              /\ at'[t] <= Len(Rows(question[t].verb)) + 1
              /\ \E s : /\ Enumerates(s, {i \in HitPositions(question[t]) : i < at'[t]})
                        /\ hits'[t] = References(question[t], t, s)
              /\ question[t].verb \notin ListVerbs => {i \in HitPositions(question[t]) : i < at'[t]} = {},
           pc'[t] = "overlay" =>
              /\ at'[t] <= Len(text.notes) + 1
              /\ \E i \in HitPositions(question[t]) :
                    /\ \A k \in HitPositions(question[t]) : i <= k
                    /\ hits'[t] = <<[row |-> i, specs |-> t]>>
                    /\ Applied(heap'[t], text.gpus[i].specs, question[t].of, at'[t] - 1),
           answer'[t] = RAISED => RaisesRight(t),
           answer'[t] \notin {NONE, RAISED} =>
              /\ PositionsOf(text, question[t]) \in Seq(HitPositions(question[t]))
              /\ PositionsOf(text, question[t]) = <<>> => HitPositions(question[t]) = {}
              /\ answer'[t] = References(question[t], t, PositionsOf(text, question[t]))
    PROVE  Progress(t)'
<1>1. /\ HitPositions(question[t])' = HitPositions(question[t])
      /\ Rows(question[t].verb)' = Rows(question[t].verb)
      /\ Passed(t)' = {i \in HitPositions(question[t]) : i < at'[t]}
  BY SameHits
<1>2. ASSUME pc'[t] = "scan" PROVE ScansInOrder(t)'
  BY <1>1, <1>2 DEF ScansInOrder
<1>3. ASSUME pc'[t] = "overlay" PROVE OverlaysFirst(t)'
  <2>1. PICK i \in HitPositions(question[t]) :
           /\ \A k \in HitPositions(question[t]) : i <= k
           /\ hits'[t] = <<[row |-> i, specs |-> t]>>
           /\ Applied(heap'[t], text.gpus[i].specs, question[t].of, at'[t] - 1)
    BY <1>3
  <2>2. Applied(heap[t], text.gpus[i].specs, question[t].of, at[t] - 1)'
    BY <2>1 DEF Applied
  <2> QED
    BY <1>1, <1>3, <2>1, <2>2 DEF OverlaysFirst
<1>4. ASSUME answer'[t] = RAISED PROVE RaisesRight(t)'
  BY <1>4 DEF RaisesRight, SchemaAccepts
<1>5. ASSUME answer'[t] \notin {NONE, RAISED} PROVE AnsweredRight(t)'
  BY <1>1, <1>5 DEF AnsweredRight
<1> QED
  BY <1>2, <1>3, <1>4, <1>5 DEF Progress

\* A caller that nobody touches is where it was.
LEMMA Untouched ==
    ASSUME NEW t \in Thread, Progress(t),
           text' = text, question'[t] = question[t], answer'[t] = answer[t],
           pc'[t] = pc[t], at'[t] = at[t], hits'[t] = hits[t],
           pc[t] = "overlay" => heap'[t] = heap[t]
    PROVE  Progress(t)'
<1>1. CASE question[t] = NONE
  <2>1. FreshCaller(t)
    BY <1>1 DEF Progress
  <2>2. FreshCaller(t)' /\ pc[t] = "idle" /\ answer[t] = NONE
    BY <2>1 DEF FreshCaller
  <2>3. NONE # RAISED
    BY AnswerMarksAssumption
  <2> QED
    BY <1>1, <2>2, <2>3 DEF Progress
<1>2. CASE question[t] # NONE
  <2>1. pc[t] = "scan" => ScansInOrder(t)
    BY DEF Progress
  <2>2. pc[t] = "overlay" => OverlaysFirst(t)
    BY DEF Progress
  <2>3. (answer[t] = RAISED => RaisesRight(t)) /\ (answer[t] \notin {NONE, RAISED} => AnsweredRight(t))
    BY DEF Progress
  <2>4. pc[t] = "idle" <=> answer[t] # NONE
    BY <1>2 DEF Progress
  <2>5. pc[t] = "scan" => /\ at[t] <= Len(Rows(question[t].verb)) + 1
                          /\ \E s : /\ Enumerates(s, {i \in HitPositions(question[t]) : i < at[t]})
                                    /\ hits[t] = References(question[t], t, s)
                          /\ question[t].verb \notin ListVerbs => {i \in HitPositions(question[t]) : i < at[t]} = {}
    BY <2>1 DEF ScansInOrder, Passed
  <2>6. pc[t] = "overlay" => /\ at[t] <= Len(text.notes) + 1
                             /\ \E i \in HitPositions(question[t]) :
                                   /\ \A k \in HitPositions(question[t]) : i <= k
                                   /\ hits[t] = <<[row |-> i, specs |-> t]>>
                                   /\ Applied(heap[t], text.gpus[i].specs, question[t].of, at[t] - 1)
    BY <2>2 DEF OverlaysFirst
  <2>7. answer[t] \notin {NONE, RAISED} =>
              /\ PositionsOf(text, question[t]) \in Seq(HitPositions(question[t]))
              /\ PositionsOf(text, question[t]) = <<>> => HitPositions(question[t]) = {}
              /\ answer[t] = References(question[t], t, PositionsOf(text, question[t]))
    BY <2>3 DEF AnsweredRight
  <2> QED
    BY <1>2, <2>3, <2>4, <2>5, <2>6, <2>7, NextProgress
<1> QED
  BY <1>1, <1>2

-----------------------------------------------------------------------------
\* What is common to the steps of a caller's loops.
LEMMA AtWork ==
    ASSUME IInv, AllProgress, NEW t \in Thread, pc[t] # "idle"
    PROVE  /\ TypeOK /\ SourceUntouched
           /\ question[t] \in Question /\ question[t] # NONE
           /\ answer[t] = NONE
           /\ at[t] \in Nat \ {0}
           /\ HitPositions(question[t]) \in SUBSET Nat
<1>1. TypeOK /\ SourceUntouched /\ question[t] # NONE
  BY DEF IInv, Ownership, AsksFirst
<1>2. question[t] \in Question /\ at[t] \in Nat \ {0}
  BY <1>1 DEF TypeOK
<1>3. answer[t] = NONE
  BY <1>1 DEF AllProgress, Progress
<1>4. HitPositions(question[t]) \in SUBSET Nat
  BY <1>1, <1>2, RowsType DEF HitPositions
<1> QED
  BY <1>1, <1>2, <1>3, <1>4

\* The row at hand is in the list.
LEMMA AtRow ==
    ASSUME IInv, AllProgress, NEW t \in Thread, Scanning(t)
    PROVE  /\ pc[t] = "scan"
           /\ at[t] \in 1..Len(Rows(question[t].verb))
           /\ Hit(question[t], Row(t)) <=> at[t] \in HitPositions(question[t])
<1>1. pc[t] = "scan" /\ at[t] <= Len(Rows(question[t].verb))
  BY DEF Scanning
<1>2. at[t] \in 1..Len(Rows(question[t].verb))
  BY <1>1, AtWork, RowsType
<1> QED
  BY <1>1, <1>2 DEF HitPositions, Row

\* Ask: nothing is passed or found yet.
LEMMA AskProgress ==
    ASSUME IInv, AllProgress, NEW t \in Thread, NEW q \in Question, Ask(t, q)
    PROVE  Progress(t)'
<1>1. FreshCaller(t) /\ TypeOK
  BY DEF Ask, AllProgress, Progress, IInv
<1>2. text' = text /\ question'[t] = q /\ pc'[t] = "scan" /\ answer'[t] = NONE /\ at'[t] = 1 /\ hits'[t] = <<>>
  BY <1>1 DEF Ask, TypeOK, FreshCaller
<1>3. q # NONE /\ NONE # RAISED
  BY AskedAssumption, AnswerMarksAssumption
<1>4. HitPositions(q)' \subseteq Nat \ {0} /\ Len(Rows(q.verb)') \in Nat
  <2>1. Rows(q.verb)' = Rows(q.verb) /\ HitPositions(q)' = HitPositions(q)
    BY <1>2 DEF Rows, HitPositions
  <2>2. Len(Rows(q.verb)) \in Nat
    BY <1>1, RowsType
  <2> QED
    BY <2>1, <2>2 DEF HitPositions
<1>5. Passed(t)' = {}
  BY <1>2, <1>4 DEF Passed
<1>6. ScansInOrder(t)'
  <2>1. Enumerates(<<>>, {})
    BY DEF Enumerates, Increasing
  <2>2. References(q, t, <<>>) = <<>>
    BY DEF References
  <2>3. \E s : Enumerates(s, Passed(t)') /\ hits'[t] = References(question[t], t, s)'
    <3>1. References(question[t], t, <<>>)' = <<>>
      BY <1>2, <2>2 DEF References, ReferenceOf
    <3> QED
      BY <1>2, <1>5, <2>1, <3>1
  <2>4. at'[t] <= Len(Rows(question[t].verb))' + 1
    <3>1. Rows(question[t].verb)' = Rows(q.verb)'
      BY <1>2 DEF Rows
    <3> QED
      BY <1>2, <1>4, <3>1
  <2> QED
    BY <1>5, <2>3, <2>4 DEF ScansInOrder
<1> QED
  BY <1>2, <1>3, <1>6 DEF Progress

\* A raise is the skill's, at an entry that has no generation.
LEMMA RaiseProgress ==
    ASSUME IInv, AllProgress, NEW t \in Thread, Raise(t)
    PROVE  Progress(t)' /\ answer[t] = NONE /\ RaisesRight(t)
<1>0. Scanning(t) /\ pc[t] # "idle"
  BY DEF Raise, Scanning
<1>1. /\ text' = text /\ question'[t] = question[t] /\ pc'[t] = "idle"
      /\ answer'[t] = RAISED
  BY <1>0, AtWork DEF Raise, Return, TypeOK
<1>2. RaisesRight(t)
  <2>1. question[t].verb = "generation" /\ Row(t).generation = NONE
    BY DEF Raise, Missing
  <2>2. at[t] \in 1..Len(text.gpus) /\ text.gpus[at[t]].generation = NONE
    BY <1>0, <2>1, AtRow, AtWork, RowsType DEF Row, GpuVerbs
  <2>3. text \in Text
    BY DEF AllProgress
  <2>4. "noGeneration" \in text.flaws
    BY <2>2, <2>3, TextAssumption
  <2> QED
    BY <2>1, <2>4 DEF RaisesRight, SchemaAccepts, SchemaRefuses
<1>3. RAISED # NONE
  BY AnswerMarksAssumption
<1> QED
  BY <1>0, <1>1, <1>2, <1>3, AtWork, NextProgress

-----------------------------------------------------------------------------
\* A row that the loop passes is not a hit.
LEMMA PassProgress ==
    ASSUME IInv, AllProgress, NEW t \in Thread, Pass(t)
    PROVE  Progress(t)'
<1>0. Scanning(t) /\ pc[t] = "scan" /\ pc[t] # "idle"
  BY DEF Pass, Scanning
<1>1. /\ text' = text /\ question'[t] = question[t] /\ pc'[t] = "scan"
      /\ answer'[t] = NONE /\ hits'[t] = hits[t] /\ at'[t] = at[t] + 1
  BY <1>0, AtWork DEF Pass, Advance, TypeOK
<1>2. ScansInOrder(t)
  BY <1>0 DEF AllProgress, Progress
<1>3. {i \in HitPositions(question[t]) : i < at[t] + 1} = Passed(t)
  <2>1. at[t] \notin HitPositions(question[t])
    BY <1>0, AtRow DEF Pass
  <2>2. at[t] \in Nat /\ HitPositions(question[t]) \in SUBSET Nat
    BY <1>0, AtWork
  <2>3. \A i \in HitPositions(question[t]) : i < at[t] + 1 <=> i < at[t]
    BY <2>1, <2>2
  <2> QED
    BY <2>3 DEF Passed
<1>4. at[t] + 1 <= Len(Rows(question[t].verb)) + 1
  BY <1>0, AtRow, AtWork, RowsType
<1>5. NONE # RAISED /\ question[t] # NONE
  BY <1>0, AtWork, AnswerMarksAssumption
<1> QED
  BY <1>1, <1>2, <1>3, <1>4, <1>5, NextProgress DEF ScansInOrder

\* A greater position goes at the end of a list of positions.
LEMMA AppendEnumerates ==
    ASSUME NEW S, NEW s, Enumerates(s, S), NEW i \in Nat, \A k \in S : k < i
    PROVE  /\ Enumerates(Append(s, i), S \cup {i})
           /\ Len(Append(s, i)) = Len(s) + 1
<1>1. s \in Seq(Nat) /\ Len(s) \in Nat
  BY DEF Enumerates
<1>2. /\ Append(s, i) \in Seq(Nat)
      /\ Len(Append(s, i)) = Len(s) + 1
      /\ \A k \in 1..Len(s) : Append(s, i)[k] = s[k]
      /\ Append(s, i)[Len(s) + 1] = i
  BY <1>1, AppendProperties
<1>3. {s[k] : k \in 1..Len(s)} = S /\ Increasing(s)
  BY DEF Enumerates
<1>4. \A k \in 1..Len(s) : s[k] \in Nat /\ s[k] < i
  BY <1>1, <1>3
<1>5. Increasing(Append(s, i))
  <2> SUFFICES ASSUME NEW k \in 1..(Len(s) + 1), NEW m \in 1..(Len(s) + 1), k < m
               PROVE  Append(s, i)[k] < Append(s, i)[m]
    BY <1>2 DEF Increasing
  <2>1. k \in 1..Len(s)
    BY <1>1
  <2>2. CASE m = Len(s) + 1
    BY <1>2, <1>4, <2>1, <2>2
  <2>3. CASE m \in 1..Len(s)
    BY <1>2, <1>3, <2>1, <2>3 DEF Increasing
  <2> QED
    BY <1>1, <2>2, <2>3
<1>6. {Append(s, i)[k] : k \in 1..Len(Append(s, i))} = S \cup {i}
  <2> DEFINE a == Append(s, i)
  <2>1. ASSUME NEW x \in S PROVE \E k \in 1..Len(a) : a[k] = x
    <3>1. PICK k \in 1..Len(s) : s[k] = x
      BY <1>3
    <3>2. k \in 1..Len(a) /\ a[k] = x
      BY <1>1, <1>2, <3>1
    <3> QED
      BY <3>2
  <2>2. Len(a) \in 1..Len(a) /\ a[Len(a)] = i
    BY <1>1, <1>2
  <2>3. ASSUME NEW k \in 1..Len(a) PROVE a[k] \in S \cup {i}
    <3>1. CASE k \in 1..Len(s)
      BY <1>2, <1>3, <3>1
    <3>2. CASE k = Len(s) + 1
      BY <1>2, <3>2
    <3> QED
      BY <1>1, <1>2, <3>1, <3>2
  <2> HIDE DEF a
  <2>4. {a[k] : k \in 1..Len(a)} = S \cup {i}
    BY <2>1, <2>2, <2>3
  <2> QED
    BY <2>4 DEF a
<1> QED
  BY <1>2, <1>5, <1>6 DEF Enumerates

\* So does a reference to it.
LEMMA AppendReference ==
    ASSUME NEW q, NEW t, NEW s \in Seq(Nat), NEW i \in Nat
    PROVE  Append(References(q, t, s), [row |-> i, specs |-> ReferenceOf(q, t, i)]) = References(q, t, Append(s, i))
<1> DEFINE one(j) == [row |-> j, specs |-> ReferenceOf(q, t, j)]
           a == Append(s, i)
           r == References(q, t, s)
<1>1. /\ Len(s) \in Nat /\ Len(a) = Len(s) + 1
      /\ \A k \in 1..Len(s) : a[k] = s[k]
      /\ a[Len(s) + 1] = i
  BY AppendProperties
<1>2. r = [k \in 1..Len(s) |-> one(s[k])] /\ Len(r) = Len(s)
  BY <1>1 DEF References
<1>3. References(q, t, a) = [k \in 1..Len(a) |-> one(a[k])]
  BY DEF References
<1>4. Append(r, one(i)) = [k \in 1..(Len(s) + 1) |-> IF k = Len(s) + 1 THEN one(i) ELSE r[k]]
  <2>1. r \in Seq({one(s[k]) : k \in 1..Len(s)} \cup {one(i)})
    <3> DEFINE S == {one(s[k]) : k \in 1..Len(s)} \cup {one(i)}
    <3>1. r \in [1..Len(s) -> S]
      BY <1>2
    <3> HIDE DEF S, r
    <3>2. r \in Seq(S)
      BY <1>1, <3>1, MadeIsSeq, Zenon
    <3> QED
      BY <3>2 DEF S
  <2> DEFINE S == {one(s[k]) : k \in 1..Len(s)} \cup {one(i)}
             x == one(i)
  <2>2. r \in Seq(S) /\ x \in S /\ Len(r) = Len(s)
    BY <1>2, <2>1
  <2> HIDE DEF S, r, x
  <2>3. /\ Append(r, x) \in Seq(S)
        /\ Len(Append(r, x)) = Len(s) + 1
        /\ \A k \in 1..Len(s) : Append(r, x)[k] = r[k]
        /\ Append(r, x)[Len(s) + 1] = x
    BY <2>2, AppendProperties
  <2>4. Append(r, x) = [k \in 1..Len(Append(r, x)) |-> Append(r, x)[k]]
    <3> DEFINE y == Append(r, x)
    <3>1. y \in Seq(S)
      BY <2>3
    <3> HIDE DEF y
    <3>2. y \in [1..Len(y) -> S]
      BY <3>1, LenProperties, Zenon
    <3>3. y = [k \in 1..Len(y) |-> y[k]]
      BY <3>2, Zenon
    <3> QED
      BY <3>3 DEF y
  <2>5. Append(r, x) = [k \in 1..(Len(s) + 1) |-> IF k = Len(s) + 1 THEN x ELSE r[k]]
    BY <1>1, <2>3, <2>4
  <2> QED
    BY <2>5 DEF x
<1>5. \A k \in 1..(Len(s) + 1) : (IF k = Len(s) + 1 THEN one(i) ELSE r[k]) = one(a[k])
  <2>1. ASSUME NEW k \in 1..(Len(s) + 1), k # Len(s) + 1 PROVE r[k] = one(a[k])
    <3>1. k \in 1..Len(s)
      BY <1>1, <2>1
    <3> QED
      BY <1>1, <1>2, <3>1
  <2> QED
    BY <1>1, <2>1
<1> HIDE DEF one, r, a
<1>6. Append(r, one(i)) = References(q, t, a)
  BY <1>1, <1>3, <1>4, <1>5
<1> QED
  BY <1>6 DEF one, r, a

\* The row collected comes after the rows found.
LEMMA CollectProgress ==
    ASSUME IInv, AllProgress, NEW t \in Thread, Collect(t)
    PROVE  Progress(t)'
<1>0. Scanning(t) /\ pc[t] = "scan" /\ pc[t] # "idle" /\ question[t].verb \in ListVerbs
  BY DEF Collect, Scanning, ListVerbs
<1>1. /\ text' = text /\ question'[t] = question[t] /\ pc'[t] = "scan"
      /\ answer'[t] = NONE /\ hits'[t] = Append(hits[t], This(t)) /\ at'[t] = at[t] + 1
  BY <1>0, AtWork DEF Collect, Advance, TypeOK
<1>2. PICK s : Enumerates(s, Passed(t)) /\ hits[t] = References(question[t], t, s)
  BY <1>0 DEF AllProgress, Progress, ScansInOrder
<1>3. at[t] \in Nat /\ HitPositions(question[t]) \in SUBSET Nat /\ at[t] \in HitPositions(question[t])
  BY <1>0, AtRow, AtWork DEF Collect
<1>4. {i \in HitPositions(question[t]) : i < at[t] + 1} = Passed(t) \cup {at[t]}
  <2>1. \A i \in HitPositions(question[t]) : i < at[t] + 1 <=> i < at[t] \/ i = at[t]
    BY <1>3
  <2> QED
    BY <1>3, <2>1 DEF Passed
<1>5. Enumerates(Append(s, at[t]), Passed(t) \cup {at[t]})
  BY <1>2, <1>3, AppendEnumerates DEF Passed
<1>6. hits'[t] = References(question[t], t, Append(s, at[t]))
  <2>1. This(t) = [row |-> at[t], specs |-> ReferenceOf(question[t], t, at[t])]
    BY <1>0 DEF This, ReferenceOf, ListVerbs
  <2>2. s \in Seq(Nat)
    BY <1>2 DEF Enumerates
  <2> QED
    BY <1>1, <1>2, <1>3, <2>1, <2>2, AppendReference
<1>7. at[t] + 1 <= Len(Rows(question[t].verb)) + 1
  BY <1>0, AtRow, AtWork, RowsType
<1>8. NONE # RAISED /\ question[t] # NONE
  BY <1>0, AtWork, AnswerMarksAssumption
<1> QED
  BY <1>0, <1>1, <1>4, <1>5, <1>6, <1>7, <1>8, NextProgress

-----------------------------------------------------------------------------
\* The reference to one row.
LEMMA OneReference ==
    ASSUME NEW q, NEW t, NEW i
    PROVE  References(q, t, <<i>>) = <<[row |-> i, specs |-> ReferenceOf(q, t, i)]>>
  BY DEF References

\* A lookup of one row that has passed no hit is at its first.
LEMMA AtFirstHit ==
    ASSUME IInv, AllProgress, NEW t \in Thread, Scanning(t), Hit(question[t], Row(t)),
           question[t].verb \notin ListVerbs
    PROVE  /\ at[t] \in HitPositions(question[t])
           /\ \A k \in HitPositions(question[t]) : at[t] <= k
<1>1. at[t] \in HitPositions(question[t]) /\ pc[t] = "scan"
  BY AtRow
<1>2. at[t] \in Nat /\ HitPositions(question[t]) \in SUBSET Nat
  BY <1>1, AtWork
<1>3. Passed(t) = {}
  BY <1>1 DEF AllProgress, Progress, ScansInOrder
<1>4. ASSUME NEW k \in HitPositions(question[t]) PROVE at[t] <= k
  <2>1. ~(k < at[t])
    BY <1>3 DEF Passed
  <2> QED
    BY <1>2, <2>1
<1> QED
  BY <1>1, <1>4

\* What the lookup of one row returns from its loop is the answer.
LEMMA StopProgress ==
    ASSUME IInv, AllProgress, NEW t \in Thread, Stop(t)
    PROVE  Progress(t)'
<1>0. Scanning(t) /\ pc[t] # "idle" /\ question[t].verb \notin ListVerbs
  BY DEF Stop, Scanning, ListVerbs
<1>1. /\ text' = text /\ question'[t] = question[t] /\ pc'[t] = "idle"
      /\ answer'[t] = <<This(t)>>
  BY <1>0, AtWork DEF Stop, Return, TypeOK
<1>2. at[t] \in HitPositions(question[t]) /\ \A k \in HitPositions(question[t]) : at[t] <= k
  BY <1>0, AtFirstHit DEF Stop
<1>3. /\ PositionsOf(text, question[t]) = <<at[t]>>
      /\ <<at[t]>> \in Seq(HitPositions(question[t]))
      /\ <<at[t]>> # <<>>
  BY <1>0, <1>2, AtWork, FirstFound
<1>4. This(t) = [row |-> at[t], specs |-> ReferenceOf(question[t], t, at[t])]
  BY DEF Stop, This, ReferenceOf
<1>5. answer'[t] = References(question[t], t, <<at[t]>>)
  BY <1>1, <1>4, OneReference
<1>6. answer'[t] # NONE /\ answer'[t] # RAISED
  <2>1. answer'[t] \in Found
    BY <1>0, <1>3, <1>5, AtWork, ReferencesType
  <2> QED
    BY <2>1, FoundIsNoMark
<1> QED
  BY <1>0, <1>1, <1>3, <1>5, <1>6, AtWork, NextProgress

\* At the end of the list, the hits passed are all the hits there are.
LEMMA AllPassed ==
    ASSUME IInv, AllProgress, NEW t \in Thread, Exhausted(t)
    PROVE  /\ Passed(t) = HitPositions(question[t])
           /\ ScansInOrder(t)
<1>1. pc[t] = "scan" /\ pc[t] # "idle" /\ at[t] > Len(Rows(question[t].verb))
  BY DEF Exhausted
<1>2. ScansInOrder(t)
  BY <1>1 DEF AllProgress, Progress
<1>3. at[t] \in Nat /\ Len(Rows(question[t].verb)) \in Nat
  BY <1>1, AtWork, RowsType
<1>4. \A i \in HitPositions(question[t]) : i < at[t]
  BY <1>1, <1>3 DEF HitPositions
<1> QED
  BY <1>2, <1>4 DEF Passed

\* What an exhausted loop has found is the answer.
LEMMA ExhaustedProgress ==
    ASSUME IInv, AllProgress, NEW t \in Thread, Exhausted(t)
    PROVE  Progress(t)'
<1>0. pc[t] # "idle"
  BY DEF Exhausted
<1>1. /\ text' = text /\ question'[t] = question[t] /\ pc'[t] = "idle"
      /\ answer'[t] = hits[t]
  BY <1>0, AtWork DEF Exhausted, Return, TypeOK
<1>2. PICK s : Enumerates(s, HitPositions(question[t])) /\ hits[t] = References(question[t], t, s)
  BY AllPassed DEF ScansInOrder
<1>3. question[t].verb \notin ListVerbs => HitPositions(question[t]) = {}
  BY AllPassed DEF ScansInOrder
<1>4. /\ PositionsOf(text, question[t]) = s
      /\ s \in Seq(HitPositions(question[t]))
      /\ s = <<>> => HitPositions(question[t]) = {}
  <2>1. CASE question[t].verb \in ListVerbs
    BY <1>0, <1>2, <2>1, AtWork, ListFound
  <2>2. CASE question[t].verb \notin ListVerbs
    <3>1. PositionsOf(text, question[t]) = <<>>
      BY <1>0, <1>3, <2>2, AtWork, FirstFound
    <3>2. s = <<>>
      <4>1. s \in Seq(Nat) /\ {s[k] : k \in 1..Len(s)} = {}
        BY <1>2, <1>3, <2>2 DEF Enumerates
      <4>2. Len(s) \in Nat /\ 1 \notin 1..Len(s)
        BY <4>1
      <4> QED
        BY <4>1, <4>2, EmptySeq
    <3> QED
      BY <1>3, <2>2, <3>1, <3>2
  <2> QED
    BY <2>1, <2>2
<1>5. answer'[t] # NONE /\ answer'[t] # RAISED
  <2>1. hits[t] \in Found
    BY <1>0, AtWork DEF TypeOK
  <2> QED
    BY <1>1, <2>1, FoundIsNoMark
<1> QED
  BY <1>0, <1>1, <1>2, <1>4, <1>5, AtWork, NextProgress

-----------------------------------------------------------------------------
\* The copy has the catalog's specs, and no override yet.
LEMMA CopyProgress ==
    ASSUME IInv, AllProgress, NEW t \in Thread, CopyEntry(t)
    PROVE  Progress(t)'
<1>0. Scanning(t) /\ pc[t] # "idle" /\ question[t].verb = "resolve" /\ question[t].verb \notin ListVerbs
  BY DEF CopyEntry, Scanning, ListVerbs
<1>1. /\ text' = text /\ question'[t] = question[t] /\ pc'[t] = "overlay"
      /\ answer'[t] = NONE /\ at'[t] = 1 /\ heap'[t] = heap[at[t]]
      /\ hits'[t] = <<[row |-> at[t], specs |-> t]>>
  <2>1. TypeOK /\ t \in Own /\ answer[t] = NONE
    BY <1>0, AtWork DEF Own
  <2> QED
    BY <2>1 DEF CopyEntry, TypeOK
<1>2. at[t] \in HitPositions(question[t]) /\ \A k \in HitPositions(question[t]) : at[t] <= k
  BY <1>0, AtFirstHit DEF CopyEntry
<1>3. at[t] \in 1..Len(text.gpus)
  BY <1>0, AtRow, AtWork, RowsType DEF GpuVerbs
<1>4. heap[at[t]] = text.gpus[at[t]].specs /\ heap[at[t]] \in Specs
  BY <1>0, <1>3, AtWork DEF SourceUntouched, TypeOK
<1>5. Applied(heap'[t], text.gpus[at[t]].specs, question[t].of, 0)
  <2>1. \A key : \A j \in Overriding(text, question[t].of, key) : ~(j <= 0)
    <3>1. Len(text.notes) \in Nat
      BY <1>0, AtWork, TextTypes
    <3> QED
      BY <3>1 DEF Overriding
  <2> QED
    BY <1>1, <1>4, <2>1 DEF Applied
<1>6. 1 <= Len(text.notes) + 1 /\ at'[t] - 1 = 0
  BY <1>0, <1>1, AtWork, TextTypes
<1>7. NONE # RAISED /\ question[t] # NONE
  BY <1>0, AtWork, AnswerMarksAssumption
<1> QED
  BY <1>1, <1>2, <1>5, <1>6, <1>7, NextProgress

\* One more note: its key has its value, and the other keys keep theirs.
LEMMA AppliedNext ==
    ASSUME TypeOK, NEW specs, NEW base, NEW id, NEW n \in 1..Len(text.notes),
           Applied(specs, base, id, n - 1)
    PROVE  LET note == text.notes[n]
           IN  Applied(IF Same(note.device_id, id) /\ note.override # NONE /\ note.key # NONE
                         THEN Assign(specs, note.key, note.override) ELSE specs, base, id, n)
<1> DEFINE note == text.notes[n]
           O(key) == Overriding(text, id, key)
           applies == Same(note.device_id, id) /\ note.override # NONE /\ note.key # NONE
<1>1. n \in Nat /\ note \in NoteRow /\ \A key : O(key) \in SUBSET Nat
  BY TextTypes DEF Overriding
<1>2. \A key : n \in O(key) <=> Same(note.device_id, id) /\ note.key = key /\ note.override # NONE
  BY DEF Overriding
<1>3. \A key : \A j \in O(key) : j <= n <=> j <= n - 1 \/ j = n
  BY <1>1
<1>4. specs \in Specs /\ NONE \notin SpecKey
  BY MarksAssumption DEF Applied
<1>5. DOMAIN specs = DOMAIN base \cup {key \in SpecKey : \E j \in O(key) : j <= n - 1}
  BY DEF Applied
<1>6. \A key \in DOMAIN specs :
          \/ \E j \in O(key) :
                /\ j <= n - 1
                /\ \A m \in O(key) : m <= n - 1 => m <= j
                /\ specs[key] = text.notes[j].override
          \/ /\ \A j \in O(key) : ~(j <= n - 1)
             /\ specs[key] = base[key]
  BY DEF Applied
<1>7. DOMAIN specs \subseteq SpecKey
  BY <1>4 DEF Specs
<1>8. CASE applies
  <2> DEFINE new == Assign(specs, note.key, note.override)
  <2>1. note.key \in SpecKey /\ note.override \in SpecValue
    BY <1>1, <1>8 DEF NoteRow
  <2>2. new \in Specs
    BY <1>4, <2>1, AssignType
  <2>3. /\ DOMAIN new = DOMAIN specs \cup {note.key}
        /\ new[note.key] = note.override
        /\ \A key \in DOMAIN specs : key # note.key => new[key] = specs[key]
    BY DEF Assign
  <2>4. n \in O(note.key) /\ \A key : key # note.key => n \notin O(key)
    BY <1>2, <1>8
  <2> HIDE DEF new, O, note
  <2>5. DOMAIN new = DOMAIN base \cup {key \in SpecKey : \E j \in O(key) : j <= n}
    <3>1. \A key : key # note.key => ((\E j \in O(key) : j <= n) <=> (\E j \in O(key) : j <= n - 1))
      BY <1>3, <2>4
    <3>2. \E j \in O(note.key) : j <= n
      BY <1>1, <2>4
    <3>3. {key \in SpecKey : \E j \in O(key) : j <= n}
            = {key \in SpecKey : \E j \in O(key) : j <= n - 1} \cup {note.key}
      <4>1. ASSUME NEW key \in SpecKey
            PROVE  (\E j \in O(key) : j <= n) <=> (\E j \in O(key) : j <= n - 1) \/ key = note.key
        BY <3>1, <3>2, <1>3
      <4> QED
        BY <2>1, <4>1
    <3> QED
      BY <1>5, <2>3, <3>3
  <2>6. ASSUME NEW key \in DOMAIN new
        PROVE  \/ \E j \in O(key) :
                    /\ j <= n
                    /\ \A m \in O(key) : m <= n => m <= j
                    /\ new[key] = text.notes[j].override
               \/ /\ \A j \in O(key) : ~(j <= n)
                  /\ new[key] = base[key]
    <3>1. CASE key = note.key
      <4>1. n \in O(key) /\ n <= n /\ \A m \in O(key) : m <= n => m <= n
        BY <1>1, <2>4, <3>1
      <4>2. new[key] = text.notes[n].override
        BY <2>3, <3>1 DEF note
      <4> QED
        BY <4>1, <4>2
    <3>2. CASE key # note.key
      <4>1. key \in DOMAIN specs /\ new[key] = specs[key] /\ n \notin O(key)
        BY <2>3, <2>4, <3>2
      <4>2. \A j \in O(key) : j <= n <=> j <= n - 1
        BY <1>3, <4>1
      <4>3. \/ \E j \in O(key) :
                /\ j <= n - 1
                /\ \A m \in O(key) : m <= n - 1 => m <= j
                /\ specs[key] = text.notes[j].override
            \/ /\ \A j \in O(key) : ~(j <= n - 1)
               /\ specs[key] = base[key]
        BY <1>6, <4>1
      <4> QED
        BY <4>1, <4>2, <4>3, Zenon
    <3> QED
      BY <3>1, <3>2
  <2>7. Applied(new, base, id, n)
    BY <2>2, <2>5, <2>6 DEF Applied, O
  <2> QED
    BY <1>8, <2>7 DEF new, note
<1>9. CASE ~applies
  <2>1. \A key \in SpecKey : n \notin O(key)
    BY <1>2, <1>4, <1>9
  <2> HIDE DEF O
  <2>2. \A key \in SpecKey : \A j \in O(key) : j <= n <=> j <= n - 1
    BY <1>3, <2>1
  <2>3. {key \in SpecKey : \E j \in O(key) : j <= n} = {key \in SpecKey : \E j \in O(key) : j <= n - 1}
    BY <2>2
  <2>4. ASSUME NEW key \in DOMAIN specs
        PROVE  \/ \E j \in O(key) :
                    /\ j <= n
                    /\ \A m \in O(key) : m <= n => m <= j
                    /\ specs[key] = text.notes[j].override
               \/ /\ \A j \in O(key) : ~(j <= n)
                  /\ specs[key] = base[key]
    <3>1. \A j \in O(key) : j <= n <=> j <= n - 1
      BY <1>7, <2>2
    <3>2. \/ \E j \in O(key) :
                /\ j <= n - 1
                /\ \A m \in O(key) : m <= n - 1 => m <= j
                /\ specs[key] = text.notes[j].override
          \/ /\ \A j \in O(key) : ~(j <= n - 1)
             /\ specs[key] = base[key]
      BY <1>6
    <3> QED
      BY <3>1, <3>2, Zenon
  <2>5. DOMAIN specs = DOMAIN base \cup {key \in SpecKey : \E j \in O(key) : j <= n}
    BY <1>5, <2>3
  <2>6. Applied(specs, base, id, n)
    BY <1>4, <2>4, <2>5 DEF Applied, O
  <2> QED
    BY <1>9, <2>6
<1> QED
  BY <1>8, <1>9

-----------------------------------------------------------------------------
\* The overlay applies the note at hand, if it overrides the device's specs.
LEMMA NoteProgress ==
    ASSUME IInv, AllProgress, NEW t \in Thread, OverlayNote(t)
    PROVE  Progress(t)'
<1> DEFINE note == text.notes[at[t]]
           applies == Same(note.device_id, question[t].of) /\ note.override # NONE /\ note.key # NONE
<1>0. pc[t] = "overlay" /\ pc[t] # "idle" /\ at[t] <= Len(text.notes)
  BY DEF OverlayNote, Overlaying
<1>1. /\ text' = text /\ question'[t] = question[t] /\ pc'[t] = "overlay"
      /\ answer'[t] = NONE /\ hits'[t] = hits[t] /\ at'[t] = at[t] + 1
  BY <1>0, AtWork DEF OverlayNote, Advance, TypeOK
<1>2. PICK i \in HitPositions(question[t]) :
         /\ \A k \in HitPositions(question[t]) : i <= k
         /\ hits[t] = <<[row |-> i, specs |-> t]>>
         /\ Applied(heap[t], text.gpus[i].specs, question[t].of, at[t] - 1)
  BY <1>0 DEF AllProgress, Progress, OverlaysFirst
<1>3. heap'[t] = IF applies THEN Assign(heap[t], note.key, note.override) ELSE heap[t]
  <2>1. hits[t][1].specs = t /\ TypeOK /\ t \in Own
    BY <1>0, <1>2, AtWork DEF Own
  <2>2. heap' = IF applies THEN [heap EXCEPT ![t] = Assign(heap[t], note.key, note.override)] ELSE heap
    <3>1. CASE applies
      BY <2>1, <3>1 DEF OverlayNote
    <3>2. CASE ~applies
      BY <3>2 DEF OverlayNote
    <3> QED
      BY <3>1, <3>2
  <2> HIDE DEF applies
  <2> QED
    BY <2>1, <2>2 DEF TypeOK
<1>4. at[t] \in 1..Len(text.notes)
  BY <1>0, AtWork, TextTypes
<1>5. Applied(heap'[t], text.gpus[i].specs, question[t].of, at[t])
  BY <1>0, <1>2, <1>3, <1>4, AtWork, AppliedNext
<1>6. at'[t] - 1 = at[t] /\ at'[t] <= Len(text.notes) + 1
  <2>1. at[t] \in Nat /\ TypeOK
    BY <1>0, AtWork
  <2>2. Len(text.notes) \in Nat
    BY <2>1, TextTypes
  <2> QED
    BY <1>0, <1>1, <2>1, <2>2
<1>7. NONE # RAISED /\ question[t] # NONE
  BY <1>0, AtWork, AnswerMarksAssumption
<1> QED
  BY <1>1, <1>2, <1>5, <1>6, <1>7, NextProgress

\* A copy with all the notes applied is the answer.
LEMMA OverlaidAnswer ==
    ASSUME IInv, AllProgress, NEW t \in Thread, Overlaid(t)
    PROVE  \E i \in HitPositions(question[t]) :
              /\ PositionsOf(text, question[t]) = <<i>>
              /\ <<i>> \in Seq(HitPositions(question[t])) /\ <<i>> # <<>>
              /\ hits[t] = References(question[t], t, <<i>>)
              /\ heap[t] = ApplyGpuOverrides(text, text.gpus[i].specs, question[t].of)
<1>0. pc[t] = "overlay" /\ pc[t] # "idle" /\ at[t] > Len(text.notes)
  BY DEF Overlaid
<1>1. PICK i \in HitPositions(question[t]) :
         /\ \A k \in HitPositions(question[t]) : i <= k
         /\ hits[t] = <<[row |-> i, specs |-> t]>>
         /\ Applied(heap[t], text.gpus[i].specs, question[t].of, at[t] - 1)
         /\ at[t] <= Len(text.notes) + 1
  BY <1>0 DEF AllProgress, Progress, OverlaysFirst
<1>2. question[t].verb = "resolve" /\ question[t].verb \notin ListVerbs
  BY <1>0 DEF IInv, Ownership, OverlaysOwn, Resolving, ListVerbs
<1>3. at[t] - 1 = Len(text.notes)
  <2>1. at[t] \in Nat /\ TypeOK
    BY <1>0, AtWork
  <2>2. Len(text.notes) \in Nat
    BY <2>1, TextTypes
  <2> QED
    BY <1>0, <1>1, <2>1, <2>2
<1>4. heap[t] = ApplyGpuOverrides(text, text.gpus[i].specs, question[t].of)
  BY <1>0, <1>1, <1>3, AtWork, AppliedIsTheOverlay
<1>5. hits[t] = References(question[t], t, <<i>>)
  BY <1>1, <1>2, OneReference DEF ReferenceOf
<1>6. PositionsOf(text, question[t]) = <<i>> /\ <<i>> \in Seq(HitPositions(question[t])) /\ <<i>> # <<>>
  BY <1>0, <1>1, <1>2, AtWork, FirstFound
<1> QED
  BY <1>4, <1>5, <1>6

\* And the caller is done.
LEMMA OverlaidProgress ==
    ASSUME IInv, AllProgress, NEW t \in Thread, Overlaid(t)
    PROVE  Progress(t)'
<1>0. pc[t] # "idle"
  BY DEF Overlaid
<1>1. /\ text' = text /\ question'[t] = question[t] /\ pc'[t] = "idle"
      /\ answer'[t] = hits[t]
  BY <1>0, AtWork DEF Overlaid, Return, TypeOK
<1>2. PICK i \in HitPositions(question[t]) :
              /\ PositionsOf(text, question[t]) = <<i>>
              /\ <<i>> \in Seq(HitPositions(question[t])) /\ <<i>> # <<>>
              /\ hits[t] = References(question[t], t, <<i>>)
  BY OverlaidAnswer
<1>3. hits[t] # NONE /\ hits[t] # RAISED
  <2>1. hits[t] \in Found
    BY <1>0, AtWork DEF TypeOK
  <2> QED
    BY <2>1, FoundIsNoMark
<1> QED
  BY <1>0, <1>1, <1>2, <1>3, AtWork, NextProgress

\* A caller's write into its answer finds it past its loops.
LEMMA ScribbleProgress ==
    ASSUME IInv, AllProgress, NEW t \in Thread, NEW key \in SpecKey, NEW value \in SpecValue,
           Scribble(t, key, value)
    PROVE  Progress(t)'
<1>1. Progress(t) /\ pc[t] # "overlay"
  BY DEF AllProgress, Scribble
<1>2. /\ text' = text /\ question'[t] = question[t] /\ pc'[t] = pc[t]
      /\ answer'[t] = answer[t] /\ at'[t] = at[t] /\ hits'[t] = hits[t]
  BY DEF Scribble
<1> QED
  BY <1>1, <1>2, Untouched

\* A step touches one caller.
Leaves(t) ==
    /\ question'[t] = question[t] /\ answer'[t] = answer[t] /\ pc'[t] = pc[t]
    /\ at'[t] = at[t] /\ hits'[t] = hits[t] /\ heap'[t] = heap[t]

\* The others' state is left alone.
LEMMA LeavesOthers ==
    ASSUME IInv, NEW t \in Thread, NEW u \in Thread, u # t,
           \/ \E q \in Question : Ask(t, q)
           \/ Step(t)
           \/ \E key \in SpecKey, value \in SpecValue : Scribble(t, key, value)
    PROVE  Leaves(u)
<1>0. TypeOK /\ u \in Own
  BY DEF IInv, Own
<1>1. ASSUME NEW q \in Question, Ask(t, q) PROVE Leaves(u)
  BY <1>0, <1>1 DEF Ask, Leaves, TypeOK
<1>2. CASE Raise(t) \/ Stop(t) \/ Exhausted(t) \/ Overlaid(t)
  <2>1. Return(t, answer'[t]) /\ UNCHANGED <<heap, at, hits>>
    BY <1>0, <1>2 DEF Raise, Stop, Exhausted, Overlaid, Return, TypeOK
  <2> QED
    BY <1>0, <2>1 DEF Return, Leaves, TypeOK
<1>3. CASE Pass(t)
  BY <1>0, <1>3 DEF Pass, Advance, Leaves, TypeOK
<1>4. CASE Collect(t)
  BY <1>0, <1>4 DEF Collect, Advance, Leaves, TypeOK
<1>5. CASE CopyEntry(t)
  BY <1>0, <1>5 DEF CopyEntry, Leaves, TypeOK
<1>6. CASE OverlayNote(t)
  <2>1. heap'[u] = heap[u]
    <3>1. CASE heap' = heap
      BY <3>1
    <3>2. ASSUME NEW s \in Specs, heap' = [heap EXCEPT ![t] = s] PROVE heap'[u] = heap[u]
      BY <1>0, <3>2 DEF TypeOK
    <3> QED
      BY <1>6, <3>1, <3>2, OverlayWrites
  <2> QED
    BY <1>0, <1>6, <2>1 DEF OverlayNote, Advance, Leaves, TypeOK
<1>7. ASSUME NEW key \in SpecKey, NEW value \in SpecValue, Scribble(t, key, value) PROVE Leaves(u)
  <2>1. PICK s \in Specs : heap' = [heap EXCEPT ![t] = s]
    BY <1>7, ScribbleWrites
  <2>2. heap'[u] = heap[u]
    BY <1>0, <2>1 DEF TypeOK
  <2> QED
    BY <1>7, <2>2 DEF Scribble, Leaves
<1> QED
  BY <1>1, <1>2, <1>3, <1>4, <1>5, <1>6, <1>7 DEF Step

\* Every step keeps every caller where its loops say it is.
LEMMA ProgressStep == IInv /\ AllProgress /\ [AnyNext]_vars => AllProgress'
<1>0. IInv /\ AllProgress /\ [AnyNext]_vars => text' = text /\ text' \in Text
  BY HeapStep DEF AllProgress
<1> SUFFICES ASSUME IInv, AllProgress, [AnyNext]_vars, NEW u \in Thread PROVE Progress(u)'
  BY <1>0 DEF AllProgress
<1>3. text' = text /\ Progress(u)
  BY <1>0 DEF AllProgress
<1>1. CASE Load \/ UNCHANGED vars
  <2>1. Leaves(u)
    BY <1>1 DEF Load, vars, Leaves
  <2> QED
    BY <1>3, <2>1, Untouched DEF Leaves
<1>2. ASSUME NEW t \in Thread,
             \/ \E q \in Question : Ask(t, q)
             \/ Step(t)
             \/ \E key \in SpecKey, value \in SpecValue : Scribble(t, key, value)
      PROVE  Progress(u)'
  <2>1. CASE t = u
    BY <1>2, <2>1, AskProgress, RaiseProgress, PassProgress, CollectProgress, StopProgress, ExhaustedProgress,
       CopyProgress, NoteProgress, OverlaidProgress, ScribbleProgress DEF Step
  <2>2. CASE t # u
    <3>1. Leaves(u)
      BY <1>2, <2>2, LeavesOthers
    <3> QED
      BY <1>3, <3>1, Untouched DEF Leaves
  <2> QED
    BY <2>1, <2>2
<1> QED
  BY <1>1, <1>2 DEF AnyNext

\* At first nobody has asked.
LEMMA ProgressInit == Init => AllProgress
<1> SUFFICES ASSUME Init PROVE AllProgress
  OBVIOUS
<1>1. NONE # RAISED
  BY AnswerMarksAssumption
<1>2. ASSUME NEW t \in Thread PROVE Progress(t)
  BY <1>1 DEF Init, Progress, FreshCaller
<1> QED
  BY <1>2 DEF Init, AllProgress

\* So the inductive invariant holds in every reachable state.
LEMMA ProgressHolds == Spec => [](IInv /\ AllProgress)
  BY IInit, IStep, ProgressInit, ProgressStep, NextIsAny, PTL DEF Spec

-----------------------------------------------------------------------------
(***************************************************************************)
(* The refinement: a loop's last step replies, its other steps are not     *)
(* seen by any caller.                                                     *)
(***************************************************************************)
Answers == [t \in Thread |-> Seen(answer[t])]

\* What a caller has got does not change under it.
LEMMA SeenStays ==
    ASSUME IInv, AllProgress, [AnyNext]_vars, NEW u \in Thread, Leaves(u)
    PROVE  Seen(answer[u])' = Seen(answer[u])
<1>1. answer'[u] = answer[u] /\ heap'[u] = heap[u] /\ question'[u] = question[u] /\ text' = text
  BY HeapStep DEF Leaves
<1>2. TypeOK /\ SourceUntouched /\ SourceUntouched'
  BY SourceStep DEF IInv
<1>3. CASE answer[u] \in {NONE, RAISED}
  BY <1>1, <1>3 DEF Seen
<1>4. CASE answer[u] \notin {NONE, RAISED}
  <2> DEFINE s == PositionsOf(text, question[u])
             q == question[u]
  <2>1. q # NONE /\ q \in Question
    <3>1. answer[u] # NONE
      BY <1>4
    <3>2. q # NONE
      BY <3>1 DEF AllProgress, Progress, FreshCaller
    <3> QED
      BY <1>2, <3>2 DEF TypeOK
  <2>2. s \in Seq(HitPositions(q)) /\ answer[u] = References(q, u, s)
    BY <1>4 DEF AllProgress, Progress, AnsweredRight
  <2>3. \A k \in 1..Len(answer[u]) :
          answer[u][k].specs = NONE \/ heap'[answer[u][k].specs] = heap[answer[u][k].specs]
    <3>1. Len(s) \in Nat /\ Len(answer[u]) = Len(s)
      BY <2>2 DEF References
    <3> SUFFICES ASSUME NEW k \in 1..Len(s), answer[u][k].specs # NONE
                 PROVE  heap'[answer[u][k].specs] = heap[answer[u][k].specs]
      BY <3>1
    <3>2. s[k] \in HitPositions(q)
      BY <2>2
    <3>3. answer[u][k].specs = ReferenceOf(q, u, s[k])
      BY <2>2 DEF References
    <3>4. CASE q.verb = "resolve"
      BY <1>1, <3>3, <3>4 DEF ReferenceOf
    <3>5. CASE q.verb # "resolve"
      <4>1. q.verb \in GpuVerbs /\ answer[u][k].specs = s[k]
        BY <3>3, <3>5 DEF ReferenceOf
      <4>2. s[k] \in 1..Len(text.gpus)
        BY <1>2, <2>1, <3>2, <4>1, RowsType DEF HitPositions
      <4>3. heap[s[k]] = text.gpus[s[k]].specs /\ heap'[s[k]] = text.gpus[s[k]].specs
        BY <1>1, <1>2, <4>2 DEF SourceUntouched
      <4> QED
        BY <4>1, <4>3
    <3> QED
      BY <3>4, <3>5
  <2> HIDE DEF s, q
  <2> QED
    BY <1>1, <1>4, <2>3 DEF Seen
<1> QED
  BY <1>3, <1>4

\* If the others are left alone, the answers change for one caller.
LEMMA AnswersStep ==
    ASSUME IInv, AllProgress, [AnyNext]_vars, NEW t \in Thread, NEW v,
           \A u \in Thread : u # t => Leaves(u),
           Seen(answer[t])' = v
    PROVE  Answers' = [Answers EXCEPT ![t] = v]
<1>1. \A u \in Thread : u # t => Seen(answer[u])' = Seen(answer[u])
  BY SeenStays
<1>2. Answers' = [u \in Thread |-> Seen(answer[u])']
  BY DEF Answers
<1>3. [Answers EXCEPT ![t] = v] = [u \in Thread |-> IF u = t THEN v ELSE Seen(answer[u])]
  BY DEF Answers
<1>4. \A u \in Thread : Seen(answer[u])' = IF u = t THEN v ELSE Seen(answer[u])
  BY <1>1
<1> QED
  BY <1>2, <1>3, <1>4

\* If that caller has none, or a mark, they do not change.
LEMMA AnswersStay ==
    ASSUME IInv, AllProgress, [AnyNext]_vars, NEW t \in Thread,
           \A u \in Thread : u # t => Leaves(u),
           answer[t] \in {NONE, RAISED}, answer'[t] = answer[t]
    PROVE  Answers' = Answers
<1>1. Seen(answer[t])' = Seen(answer[t])
  BY DEF Seen
<1>2. Answers' = [Answers EXCEPT ![t] = Seen(answer[t])]
  BY <1>1, AnswersStep
<1> QED
  BY <1>2 DEF Answers

-----------------------------------------------------------------------------
\* The promise asks and answers as the queries do.
LEMMA PromiseQueries ==
    /\ \A c, q : Promise!AnswerOf(c, q) = AnswerOf(c, q)
    /\ \A c : Promise!SchemaAccepts(c) = SchemaAccepts(c)
    /\ \A c : Promise!Readable(c) = Readable(c)
    /\ Promise!Question = Question
<1>1. \A positions : Promise!InOrder(positions) = InOrder(positions)
  BY DEF InOrder, Promise!InOrder, Cardinality, Promise!Cardinality, IsFiniteSet, Promise!IsFiniteSet
<1>2. \A positions : Promise!First(positions) = First(positions)
  BY Zenon DEF First, Promise!First
<1>3. \A id, other : Promise!Same(id, other) = Same(id, other)
  BY Zenon DEF Same, Promise!Same
<1>4. Promise!GpuVerbs = GpuVerbs
  BY Zenon DEF GpuVerbs, Promise!GpuVerbs
<1>5. \A c, q : Promise!PositionsOf(c, q) = PositionsOf(c, q)
  BY <1>1, <1>2, <1>3, Zenon DEF PositionsOf, Promise!PositionsOf, GpuByDeviceId, Promise!GpuByDeviceId,
     GpusByGfxTarget, Promise!GpusByGfxTarget, GpusByGeneration, Promise!GpusByGeneration,
     NpusByDeviceId, Promise!NpusByDeviceId, NpuByDeviceIdAndRevision, Promise!NpuByDeviceIdAndRevision,
     NotesForDevice, Promise!NotesForDevice, Same, Promise!Same
<1>6. \A c, specs, id : Promise!ApplyGpuOverrides(c, specs, id) = ApplyGpuOverrides(c, specs, id)
  BY Zenon DEF ApplyGpuOverrides, Promise!ApplyGpuOverrides, Overriding, Promise!Overriding, Same, Promise!Same
<1>7. \A c, q, i : Promise!SpecsOf(c, q, i) = SpecsOf(c, q, i)
  BY <1>4, <1>6, Zenon DEF SpecsOf, Promise!SpecsOf
<1>8. \A c, q : Promise!AnswerOf(c, q) = AnswerOf(c, q)
  BY <1>5, <1>7, Zenon DEF AnswerOf, Promise!AnswerOf
<1>9. \A c : Promise!SchemaAccepts(c) = SchemaAccepts(c)
  BY Zenon DEF SchemaAccepts, Promise!SchemaAccepts, SchemaRefuses, Promise!SchemaRefuses
<1>10. \A c : Promise!Readable(c) = Readable(c)
  BY <1>9, Zenon DEF Readable, Promise!Readable
<1>11. Promise!Question = Question
  BY Zenon DEF Question, Promise!Question, Verbs, Promise!Verbs, GpuVerbs, Promise!GpuVerbs
<1> QED
  BY <1>8, <1>9, <1>10, <1>11

-----------------------------------------------------------------------------
\* A step of one caller leaves the others alone.
LEMMA StepLeavesOthers ==
    ASSUME IInv, NEW t \in Thread, Step(t) \/ \E key \in SpecKey, value \in SpecValue : Scribble(t, key, value)
    PROVE  /\ \A u \in Thread : u # t => Leaves(u)
           /\ [AnyNext]_vars
           /\ text' = text /\ loaded' = loaded /\ question' = question
<1>1. \A u \in Thread : u # t => Leaves(u)
  BY LeavesOthers
<1>2. AnyNext
  BY DEF AnyNext
<1>3. text' = text /\ loaded' = loaded /\ question' = question
  BY DEF Step, Raise, Stop, Exhausted, Overlaid, Return, Pass, Collect, Advance, CopyEntry, OverlayNote, Scribble
<1> QED
  BY <1>1, <1>2, <1>3

\* A loop that ends has found what the queries keep.
LEMMA Replies ==
    ASSUME IInv, AllProgress, NEW t \in Thread, Stop(t) \/ Exhausted(t) \/ Overlaid(t)
    PROVE  Promise!Reply(t)
<1> DEFINE q == question[t]
           s == PositionsOf(text, q)
<1>0. Step(t) /\ pc[t] # "idle"
  BY DEF Step, Stop, Scanning, Exhausted, Overlaid
<1>1. TypeOK /\ SourceUntouched /\ q \in Question /\ q # NONE /\ answer[t] = NONE
  BY <1>0, AtWork
<1>2. /\ \A u \in Thread : u # t => Leaves(u)
      /\ [AnyNext]_vars
      /\ text' = text /\ loaded' = loaded /\ question' = question
  BY <1>0, StepLeavesOthers
<1>3. heap' = heap /\ answer'[t] \in Found
  <2>1. <<This(t)>> \in Found /\ hits[t] \in Found
    <3>1. This(t) \in [row : Nat, specs : Reference] /\ hits[t] \in Found
      BY <1>1, FoundType DEF TypeOK
    <3> QED
      BY <3>1 DEF Found
  <2> QED
    BY <1>1, <2>1 DEF Stop, Exhausted, Overlaid, Return, TypeOK
<1>4. answer'[t] = References(q, t, s) /\ s \in Seq(HitPositions(q))
  <2>1. Progress(t)'
    BY StopProgress, ExhaustedProgress, OverlaidProgress
  <2>2. answer'[t] \notin {NONE, RAISED}
    BY <1>3, FoundIsNoMark
  <2>3. AnsweredRight(t)'
    BY <2>1, <2>2 DEF Progress
  <2>4. HitPositions(question[t])' = HitPositions(question[t])
    BY <1>2, SameHits
  <2> QED
    BY <1>2, <2>3, <2>4 DEF AnsweredRight
<1>5. q.verb = "resolve" => \A k \in 1..Len(s) : heap[t] = SpecsOf(text, q, s[k])
  <2> SUFFICES ASSUME q.verb = "resolve" PROVE \A k \in 1..Len(s) : heap[t] = SpecsOf(text, q, s[k])
    OBVIOUS
  <2>1. CASE Overlaid(t)
    <3>1. PICK i \in HitPositions(q) :
             s = <<i>> /\ heap[t] = ApplyGpuOverrides(text, text.gpus[i].specs, q.of)
      BY <2>1, OverlaidAnswer
    <3>2. \A k \in 1..Len(s) : s[k] = i
      BY <3>1
    <3> QED
      BY <3>1, <3>2 DEF SpecsOf
  <2>2. CASE Exhausted(t)
    <3>1. HitPositions(q) = {}
      BY <2>2, AllPassed DEF ScansInOrder, ListVerbs
    <3>2. s = <<>>
      BY <1>1, <3>1, FirstFound DEF ListVerbs
    <3> QED
      BY <3>2
  <2>3. ~Stop(t)
    BY DEF Stop
  <2> QED
    BY <2>1, <2>2, <2>3
<1>6. Shown(q, t, s) = AnswerOf(text, q)
  <2>1. AnswerOf(text, q) = [k \in 1..Len(s) |-> [row |-> s[k], specs |-> SpecsOf(text, q, s[k])]]
    BY DEF AnswerOf
  <2> HIDE DEF s, q
  <2> QED
    BY <1>5, <2>1 DEF Shown
<1>7. Seen(answer[t])' = AnswerOf(text, q)
  <2>1. Seen(References(q, t, s)) = AnswerOf(text, q)
    BY <1>1, <1>4, <1>6, SeenIsShown
  <2>2. Seen(answer[t])' = Seen(References(q, t, s))
    BY <1>3, <1>4 DEF Seen
  <2> QED
    BY <2>1, <2>2
<1>8. Answers' = [Answers EXCEPT ![t] = AnswerOf(text, q)]
  BY <1>2, <1>7, AnswersStep
<1>9. Answers[t] = NONE
  BY <1>1 DEF Answers, Seen
<1> QED
  BY <1>1, <1>2, <1>8, <1>9, PromiseQueries, Zenon DEF Promise!Reply, Answers

\* A raise is one that the promise allows.
LEMMA Raises ==
    ASSUME IInv, AllProgress, NEW t \in Thread, Raise(t)
    PROVE  Promise!Raise(t)
<1>0. Step(t) /\ pc[t] # "idle"
  BY DEF Step, Raise, Scanning
<1>1. TypeOK /\ question[t] # NONE /\ answer[t] = NONE
  BY <1>0, AtWork
<1>2. /\ \A u \in Thread : u # t => Leaves(u)
      /\ [AnyNext]_vars
      /\ text' = text /\ loaded' = loaded /\ question' = question
  BY <1>0, StepLeavesOthers
<1>3. answer'[t] = RAISED
  BY <1>1 DEF Raise, Return, TypeOK
<1>4. Seen(answer[t])' = RAISED
  BY <1>3 DEF Seen
<1>5. Answers' = [Answers EXCEPT ![t] = RAISED]
  BY <1>2, <1>4, AnswersStep
<1>6. Answers[t] = NONE
  BY <1>1 DEF Answers, Seen
<1>7. ~SchemaAccepts(text)
  BY RaiseProgress DEF RaisesRight
<1> QED
  BY <1>1, <1>2, <1>5, <1>6, <1>7, PromiseQueries, Zenon DEF Promise!Raise, Answers

\* Nobody sees a loop at work.
LEMMA WorksUnseen ==
    ASSUME IInv, AllProgress, NEW t \in Thread, Pass(t) \/ Collect(t) \/ CopyEntry(t) \/ OverlayNote(t)
    PROVE  UNCHANGED Promise!vars
<1>0. Step(t) /\ pc[t] # "idle"
  BY DEF Step, Pass, Collect, CopyEntry, Scanning, OverlayNote, Overlaying
<1>1. answer[t] = NONE /\ answer'[t] = answer[t]
  BY <1>0, AtWork DEF Pass, Collect, CopyEntry, OverlayNote, Advance
<1>2. /\ \A u \in Thread : u # t => Leaves(u)
      /\ [AnyNext]_vars
      /\ text' = text /\ loaded' = loaded /\ question' = question
  BY <1>0, StepLeavesOthers
<1>3. Answers' = Answers
  BY <1>1, <1>2, AnswersStay
<1> QED
  BY <1>2, <1>3 DEF Promise!vars, Answers

-----------------------------------------------------------------------------
\* A resolved answer is one row with the caller's own specs, or nothing.
LEMMA ResolvedAnswer ==
    ASSUME IInv, AllProgress, NEW t \in Thread, pc[t] = "idle",
           question[t] # NONE, question[t].verb = "resolve", answer[t] # <<>>
    PROVE  \E i \in Nat : /\ answer[t] = <<[row |-> i, specs |-> t]>>
                          /\ answer[t] \notin {NONE, RAISED}
                          /\ answer[t] \in Found
                          /\ Seen(answer[t]) = <<[row |-> i, specs |-> heap[t]]>>
                          /\ Seen(answer[t]) \notin {NONE, RAISED, <<>>}
<1> DEFINE q == question[t]
           s == PositionsOf(text, q)
<1>1. TypeOK /\ SourceUntouched /\ q \in Question
  BY DEF IInv, TypeOK
<1>2. answer[t] \notin {NONE, RAISED}
  BY DEF AllProgress, Progress, RaisesRight
<1>3. /\ s \in Seq(HitPositions(q))
      /\ answer[t] = References(q, t, s)
  BY <1>2 DEF AllProgress, Progress, AnsweredRight
<1>4. Len(Rows(q.verb)) \in Nat /\ HitPositions(q) \in SUBSET (0..Len(Rows(q.verb)))
  BY <1>1, RowsType DEF HitPositions
<1>5. s # <<>>
  BY <1>3 DEF References
<1>6. HitPositions(q) # {}
  <2>1. Len(s) \in Nat \ {0}
    BY <1>3, <1>5, EmptySeq
  <2>2. s[1] \in HitPositions(q)
    BY <1>3, <2>1
  <2> QED
    BY <2>2
<1>7. PICK i \in HitPositions(q) : \A k \in HitPositions(q) : i <= k
  BY <1>4, <1>6, FirstExists
<1>8. s = <<i>> /\ i \in Nat
  BY <1>1, <1>4, <1>7, FirstFound DEF ListVerbs
<1>9. answer[t] = <<[row |-> i, specs |-> t]>>
  BY <1>3, <1>8, OneReference DEF ReferenceOf
<1>10. answer[t] \in Found
  BY <1>1, <1>2 DEF TypeOK
<1>11. Seen(answer[t]) = <<[row |-> i, specs |-> heap[t]]>>
  <2>1. t # NONE
    BY ThreadAssumption
  <2> QED
    BY <1>2, <1>9, <2>1 DEF Seen
<1>12. Seen(answer[t]) \notin {NONE, RAISED, <<>>}
  <2>1. Seen(answer[t]) \in Seq([row : Nat, specs : Specs])
    BY <1>1, <1>3, SeenIsShown
  <2>2. Seen(answer[t]) # NONE /\ Seen(answer[t]) # RAISED
    BY <2>1, AnswerMarksAssumption, Zenon
  <2>3. Seen(answer[t]) # <<>>
    BY <1>11
  <2> QED
    BY <2>2, <2>3
<1> QED
  BY <1>2, <1>8, <1>9, <1>10, <1>11, <1>12

\* A write reaches the writer's own answer alone.
LEMMA Scribbles ==
    ASSUME IInv, AllProgress, NEW t \in Thread, NEW key \in SpecKey, NEW value \in SpecValue,
           Scribble(t, key, value)
    PROVE  Promise!Scribble(t, key, value)
<1>1. /\ \A u \in Thread : u # t => Leaves(u)
      /\ [AnyNext]_vars
      /\ text' = text /\ loaded' = loaded /\ question' = question
  BY StepLeavesOthers
<1>2. pc[t] = "idle" /\ question[t] # NONE /\ question[t].verb = "resolve" /\ answer[t] # <<>>
  BY DEF Scribble
<1>3. PICK i \in Nat : /\ answer[t] = <<[row |-> i, specs |-> t]>>
                       /\ answer[t] \notin {NONE, RAISED}
                       /\ Seen(answer[t]) = <<[row |-> i, specs |-> heap[t]]>>
                       /\ Seen(answer[t]) \notin {NONE, RAISED, <<>>}
  BY <1>2, ResolvedAnswer
<1>4. answer' = answer /\ key \in DOMAIN heap[t] /\ heap' = [heap EXCEPT ![t][key] = value]
  <2>1. answer[t][1].specs = t
    BY <1>3
  <2> QED
    BY <2>1, Zenon DEF Scribble
<1>5. heap'[t] = [heap[t] EXCEPT ![key] = value]
  BY <1>4 DEF IInv, TypeOK, Own
<1> DEFINE new == <<[row |-> i, specs |-> [heap[t] EXCEPT ![key] = value]]>>
<1>6. Seen(answer[t])' = new
  <2>1. t # NONE
    BY ThreadAssumption
  <2> QED
    BY <1>3, <1>4, <1>5, <2>1 DEF Seen
<1>7. /\ t \in DOMAIN Answers
      /\ Answers[t] = <<[row |-> i, specs |-> heap[t]]>>
      /\ Answers[t] \notin {NONE, RAISED, <<>>}
  BY <1>3 DEF Answers
<1>8. Answers' = [Answers EXCEPT ![t][1].specs[key] = value]
  <2>1. Answers' = [Answers EXCEPT ![t] = new]
    BY <1>1, <1>6, AnswersStep
  <2>2. [Answers EXCEPT ![t][1].specs[key] = value] = [Answers EXCEPT ![t] = new]
    <3> DEFINE row == [row |-> i, specs |-> [heap[t] EXCEPT ![key] = value]]
               A == Answers
    <3>0. A[t] = <<[row |-> i, specs |-> heap[t]]>>
      BY <1>7
    <3> HIDE DEF A
    <3>1. [A EXCEPT ![t][1].specs[key] = value]
            = [A EXCEPT ![t] = [A[t] EXCEPT ![1] = [A[t][1] EXCEPT !.specs = [A[t][1].specs EXCEPT ![key] = value]]]]
      OBVIOUS
    <3>2. [A[t][1] EXCEPT !.specs = [A[t][1].specs EXCEPT ![key] = value]] = row
      BY <3>0
    <3>3. [A[t] EXCEPT ![1] = row] = <<row>>
      BY <3>0
    <3>4. [A EXCEPT ![t][1].specs[key] = value] = [A EXCEPT ![t] = <<row>>]
      <4> HIDE DEF row
      <4> QED
        BY <3>1, <3>2, <3>3, Zenon
    <3> QED
      BY <3>4 DEF A
  <2> QED
    BY <2>1, <2>2
<1>9. key \in DOMAIN Answers[t][1].specs
  BY <1>4, <1>7
<1> QED
  BY <1>1, <1>2, <1>7, <1>8, <1>9, Zenon DEF Promise!Scribble, Promise!Answered, Answers

\* A text that a binding refuses is not readable.
LEMMA Loads ==
    ASSUME IInv, Load
    PROVE  Promise!Refuse \/ UNCHANGED Promise!vars
<1>1. text' = text /\ question' = question /\ Answers' = Answers /\ loaded = "no"
  <2>1. answer' = answer /\ heap' = heap /\ loaded = "no" /\ text' = text /\ question' = question
    BY DEF Load
  <2>2. \A t \in Thread : Seen(answer[t])' = Seen(answer[t])
    BY <2>1 DEF Seen
  <2> QED
    BY <2>1, <2>2 DEF Answers
<1>2. CASE text.flaws \cap Refuses[binding] = {}
  <2>1. loaded' = "yes"
    BY <1>2 DEF Load
  <2> QED
    BY <1>1, <2>1 DEF Promise!vars, Answers
<1>3. CASE text.flaws \cap Refuses[binding] # {}
  <2>1. loaded' = "refused"
    BY <1>3 DEF Load
  <2>2. Refuses[binding] \subseteq SchemaRefuses \cup {"nan"}
    BY DEF IInv, TypeOK, Bindings, Refuses, RustRefuses, GoRefuses, PythonRefuses, SkillRefuses, SchemaRefuses
  <2>3. ~Readable(text)
    BY <1>3, <2>2 DEF Readable, SchemaAccepts
  <2> QED
    BY <1>1, <2>1, <2>3, PromiseQueries DEF Promise!Refuse, Answers
<1> QED
  BY <1>2, <1>3

\* To ask is to ask.
LEMMA Asks ==
    ASSUME IInv, AllProgress, NEW t \in Thread, NEW q \in Question, Ask(t, q)
    PROVE  Promise!Ask(t, q)
<1>1. \A u \in Thread : u # t => Leaves(u)
  BY LeavesOthers
<1>2. AnyNext
  BY DEF AnyNext
<1>3. answer[t] = NONE /\ answer'[t] = answer[t]
  BY DEF Ask, AllProgress, Progress, FreshCaller
<1>4. Answers' = Answers
  BY <1>1, <1>2, <1>3, AnswersStay
<1>5. loaded = "yes" /\ loaded' = loaded
  BY DEF Ask
<1> QED
  BY <1>4, <1>5 DEF Ask, Promise!Ask, Answers

\* Every step is a step of the promise, or none that a caller sees.
LEMMA PromiseStep == IInv /\ AllProgress /\ [AnyNext]_vars => [Promise!Next]_Promise!vars
<1> SUFFICES ASSUME IInv, AllProgress, [AnyNext]_vars PROVE Promise!Next \/ UNCHANGED Promise!vars
  OBVIOUS
<1>1. CASE UNCHANGED vars
  <2>1. text' = text /\ loaded' = loaded /\ question' = question /\ answer' = answer /\ heap' = heap
    BY <1>1 DEF vars
  <2>2. \A t \in Thread : Seen(answer[t])' = Seen(answer[t])
    BY <2>1 DEF Seen
  <2> QED
    BY <2>1, <2>2 DEF Promise!vars
<1>2. CASE Load
  BY <1>2, Loads DEF Promise!Next
<1>3. ASSUME NEW t \in Thread, NEW q \in Question, Ask(t, q) PROVE Promise!Next
  BY <1>3, Asks, PromiseQueries, Zenon DEF Promise!Next
<1>4. ASSUME NEW t \in Thread, Step(t) PROVE Promise!Next \/ UNCHANGED Promise!vars
  <2>1. CASE Raise(t)
    BY <2>1, Raises, Zenon DEF Promise!Next
  <2>2. CASE Stop(t) \/ Exhausted(t) \/ Overlaid(t)
    BY <2>2, Replies, Zenon DEF Promise!Next
  <2>3. CASE Pass(t) \/ Collect(t) \/ CopyEntry(t) \/ OverlayNote(t)
    BY <2>3, WorksUnseen
  <2> QED
    BY <1>4, <2>1, <2>2, <2>3 DEF Step
<1>5. ASSUME NEW t \in Thread, NEW key \in SpecKey, NEW value \in SpecValue, Scribble(t, key, value)
      PROVE  Promise!Next
  BY <1>5, Scribbles, Zenon DEF Promise!Next
<1> QED
  BY <1>1, <1>2, <1>3, <1>4, <1>5 DEF AnyNext

\* The first state is one of the promise.
LEMMA PromiseInit == Init => Promise!Init
<1> SUFFICES ASSUME Init PROVE Promise!Init
  OBVIOUS
<1>1. \A t \in Thread : Seen(answer[t]) = NONE
  BY DEF Init, Seen
<1> QED
  BY <1>1 DEF Init, Promise!Init

\* Whatever the binding, the catalog and the interleaving: each answer of
\* each caller is what the Rust binding's iterators give for its question, a
\* caller's write changes its own answer alone, no lookup raises on a text that
\* the schema accepts, and only a text that the schema refuses or that has NaN,
\* which the schema does not see, is refused.
THEOREM KeepsPromiseHolds == Spec => KeepsPromise
  BY ProgressHolds, PromiseInit, PromiseStep, NextIsAny, PTL DEF Spec, KeepsPromise

-----------------------------------------------------------------------------
(***************************************************************************)
(* The command line: it is one more caller, with one question.             *)
(***************************************************************************)

\* The skill's only question is the one its command comes to.
Dispatched ==
    \A t \in Thread :
        (binding = "skill" /\ question[t] # NONE) =>
            command \in Command \ {NONE} /\ command.command # "sources" /\ question[t] = QuestionOf(command)

CInv == IInv /\ AllProgress /\ CommandTypeOK /\ Dispatched /\ ExitTellsFound

\* A command comes to a question.
LEMMA QuestionType ==
    ASSUME NEW c \in Command, c.command # "sources"
    PROVE  QuestionOf(c) \in Question
<1>1. /\ c.command \in {"gpu", "resolve", "gpus", "npu", "notes"}
      /\ c.device_id \in Id \cup {NONE} /\ c.gfx_target \in Name \cup {NONE}
      /\ c.generation \in Name \cup {NONE} /\ c.revision \in Id \cup {NONE}
  BY DEF Command
<1> QED
  BY <1>1 DEF QuestionOf, Question, Verbs, GpuVerbs

\* Whatever the command line does, the lookups see a step of theirs or none.
LEMMA CommandIsAny == CommandTypeOK /\ [CommandNext]_<<vars, commandVars>> => [AnyNext]_vars
<1> SUFFICES ASSUME CommandTypeOK, [CommandNext]_<<vars, commandVars>> PROVE [AnyNext]_vars
  OBVIOUS
<1>1. CASE Next
  BY <1>1, NextIsAny
<1>2. ASSUME NEW c \in Commands, Invoke(c) PROVE UNCHANGED vars
  BY <1>2 DEF Invoke
<1>3. CASE LoadCatalog
  BY <1>3 DEF LoadCatalog, AnyNext
<1>4. ASSUME NEW t \in Thread, Dispatch(t) PROVE AnyNext
  <2>1. command \in Command /\ command.command # "sources" /\ Ask(t, QuestionOf(command))
    BY <1>4 DEF Dispatch, Running, CommandTypeOK
  <2>2. QuestionOf(command) \in Question
    BY <2>1, QuestionType
  <2> QED
    BY <2>1, <2>2 DEF AnyNext
<1>5. ASSUME NEW t \in Thread, LookUp(t) PROVE AnyNext
  BY <1>5 DEF LookUp, AnyNext
<1>6. ASSUME NEW t \in Thread, PrintAnswer(t) \/ Traceback(t) PROVE UNCHANGED vars
  BY <1>6 DEF PrintAnswer, Traceback
<1>7. CASE PrintSources
  BY <1>7 DEF PrintSources
<1>8. CASE UNCHANGED <<vars, commandVars>>
  BY <1>8
<1> QED
  BY <1>1, <1>2, <1>3, <1>4, <1>5, <1>6, <1>7, <1>8 DEF CommandNext

\* An answer is one to the caller's question, in the rows of the catalog.
LEMMA AnswerIsShown ==
    ASSUME IInv, AllProgress, NEW t \in Thread, answer[t] \notin {NONE, RAISED}
    PROVE  LET q == question[t]
               s == PositionsOf(text, q)
           IN  /\ q \in Question /\ q # NONE
               /\ s \in Seq(HitPositions(q))
               /\ s = <<>> => HitPositions(q) = {}
               /\ answer[t] = References(q, t, s)
               /\ Seen(answer[t]) = Shown(q, t, s)
               /\ Seen(answer[t]) \in Seq([row : Nat, specs : Specs])
<1>1. question[t] # NONE
  BY DEF AllProgress, Progress, FreshCaller
<1>2. TypeOK /\ SourceUntouched /\ question[t] \in Question
  BY <1>1 DEF IInv, TypeOK
<1>3. AnsweredRight(t)
  BY DEF AllProgress, Progress
<1> QED
  BY <1>1, <1>2, <1>3, SeenIsShown DEF AnsweredRight

\* The command line's variables keep their types.
LEMMA CommandTypeStep == CInv /\ [CommandNext]_<<vars, commandVars>> => CommandTypeOK'
<1> SUFFICES ASSUME CInv, [CommandNext]_<<vars, commandVars>> PROVE CommandTypeOK'
  OBVIOUS
<1>0. CommandTypeOK /\ IInv /\ AllProgress
  BY DEF CInv
<1>1. CASE UNCHANGED commandVars
  BY <1>0, <1>1 DEF CommandTypeOK, commandVars
<1>2. ASSUME NEW c \in Commands, Invoke(c) PROVE CommandTypeOK'
  <2>1. c \in Command
    BY CommandsAssumption
  <2>2. command' = c /\ printed' = printed /\ status' \in {NONE, 2}
    BY <1>2 DEF Invoke
  <2> QED
    BY <1>0, <2>1, <2>2 DEF CommandTypeOK
<1>3. CASE PrintSources
  <2>1. <<>> \in Seq([row : Nat, specs : Specs])
    OBVIOUS
  <2>2. [found |-> NONE, rows |-> <<>>] \in [found : BOOLEAN \cup {NONE}, rows : Seq([row : Nat, specs : Specs])]
    BY <2>1
  <2> QED
    BY <1>0, <1>3, <2>2 DEF PrintSources, CommandTypeOK
<1>4. ASSUME NEW t \in Thread, PrintAnswer(t) PROVE CommandTypeOK'
  <2>1. Seen(answer[t]) \in Seq([row : Nat, specs : Specs])
    BY <1>0, <1>4, AnswerIsShown DEF PrintAnswer
  <2>2. PICK found \in BOOLEAN \cup {NONE} : printed' = [found |-> found, rows |-> Seen(answer[t])]
    BY <1>4 DEF PrintAnswer
  <2>3. status' \in 0..2 /\ command' = command
    BY <1>4 DEF PrintAnswer
  <2> QED
    BY <1>0, <2>1, <2>2, <2>3 DEF CommandTypeOK
<1>5. ASSUME NEW t \in Thread, Traceback(t) PROVE CommandTypeOK'
  BY <1>0, <1>5 DEF Traceback, CommandTypeOK
<1> QED
  BY <1>1, <1>2, <1>3, <1>4, <1>5 DEF CommandNext, LoadCatalog, Dispatch, LookUp

-----------------------------------------------------------------------------
\* Nobody changes the binding or the text.
LEMMA SourcesStay ==
    ASSUME IInv, [AnyNext]_vars
    PROVE  text' = text /\ binding' = binding
<1>1. text' = text
  BY HeapStep
<1>2. binding' = binding
  BY DEF AnyNext, vars, Load, Ask, Step, Raise, Stop, Exhausted, Overlaid, Return, Pass, Collect, Advance,
     CopyEntry, OverlayNote, Scribble
<1> QED
  BY <1>1, <1>2

\* The command's question is asked once.
LEMMA DispatchedStep == CInv /\ [CommandNext]_<<vars, commandVars>> => Dispatched'
<1> SUFFICES ASSUME CInv, [CommandNext]_<<vars, commandVars>>, binding' = "skill"
             PROVE  Dispatched'
  BY DEF Dispatched
<1>0. CommandTypeOK /\ IInv /\ Dispatched /\ [AnyNext]_vars
  BY CommandIsAny DEF CInv
<1>1. binding = "skill"
  BY <1>0, SourcesStay
<1>2. CASE UNCHANGED <<question, binding, command>>
  BY <1>0, <1>2 DEF Dispatched, QuestionOf, Given
<1>3. ASSUME NEW c \in Commands, Invoke(c) PROVE Dispatched'
  <2>1. command = NONE /\ question' = question
    BY <1>3 DEF Invoke, vars
  <2>2. \A t \in Thread : question[t] = NONE
    BY <1>0, <1>1, <2>1 DEF Dispatched
  <2> QED
    BY <2>1, <2>2 DEF Dispatched
<1>4. ASSUME NEW t \in Thread, Dispatch(t) PROVE Dispatched'
  <2>1. /\ command \in Command \ {NONE} /\ command.command # "sources"
        /\ \A u \in Thread : question[u] = NONE
        /\ Ask(t, QuestionOf(command)) /\ command' = command
    BY <1>0, <1>4 DEF Dispatch, Running, CommandTypeOK, commandVars
  <2>2. QuestionOf(command)' = QuestionOf(command)
    BY <2>1 DEF QuestionOf, Given
  <2>3. question' = [question EXCEPT ![t] = QuestionOf(command)]
    BY <2>1 DEF Ask
  <2>4. \A u \in Thread : question'[u] = NONE \/ question'[u] = QuestionOf(command)
    BY <1>0, <2>1, <2>3 DEF IInv, TypeOK
  <2> QED
    BY <2>1, <2>2, <2>4 DEF Dispatched
<1>5. ASSUME NEW t \in Thread, LookUp(t) PROVE UNCHANGED <<question, binding, command>>
  BY <1>0, <1>5, StepLeavesOthers, SourcesStay DEF LookUp, commandVars
<1>6. CASE LoadCatalog
  BY <1>2, <1>6 DEF LoadCatalog, Load, commandVars
<1>7. ASSUME NEW t \in Thread, PrintAnswer(t) \/ Traceback(t) PROVE UNCHANGED <<question, binding, command>>
  BY <1>7 DEF PrintAnswer, Traceback, vars
<1>8. CASE PrintSources
  BY <1>2, <1>8 DEF PrintSources, vars
<1>9. CASE UNCHANGED <<vars, commandVars>>
  BY <1>2, <1>9 DEF vars, commandVars
<1> QED
  BY <1>1, <1>2, <1>3, <1>4, <1>5, <1>6, <1>7, <1>8, <1>9 DEF CommandNext

\* The rows of the device, of the revision if one is named: what a lookup of
\* one device is asked for.
AskedRows ==
    LET list == IF command.command = "npu" THEN text.npus ELSE text.gpus
    IN  {i \in 1..Len(list) :
            /\ list[i].device_id # NONE
            /\ Same(list[i].device_id, command.device_id)
            /\ command.command = "npu" /\ Given(command.revision) =>
                  list[i].revision_id # NONE /\ Same(list[i].revision_id, command.revision)}

\* An NPU has a device id.
LEMMA NpuHasDevice ==
    ASSUME TypeOK, NEW i \in 1..Len(text.npus)
    PROVE  text.npus[i].device_id # NONE
<1>1. text.npus[i] \in NpuRow
  <2>1. text.npus \in Seq(NpuRow)
    BY TextTypes
  <2> QED
    BY <2>1, ElementOfSeq
<1>2. text.npus[i].device_id \in Id
  BY <1>1 DEF NpuRow
<1> QED
  BY <1>2, MarksAssumption

\* They are the hits of the command's question.
LEMMA AskedAreHits ==
    ASSUME TypeOK, command \in Command, command.command \in {"gpu", "resolve", "npu"}
    PROVE  AskedRows = HitPositions(QuestionOf(command))
<1> DEFINE q == QuestionOf(command)
<1>0. q \in Question
  BY QuestionType
<1>1. CASE command.command \in {"gpu", "resolve"}
  <2>1. q.verb \in {"gpu", "resolve"} /\ q.of = command.device_id
    BY <1>1 DEF QuestionOf
  <2>2. Rows(q.verb) = text.gpus
    BY <2>1 DEF Rows, GpuVerbs
  <2>3. HitPositions(q) = {i \in 1..Len(text.gpus) :
                             text.gpus[i].device_id # NONE /\ Same(text.gpus[i].device_id, command.device_id)}
    BY <2>1, <2>2 DEF HitPositions, Hit
  <2>4. AskedRows = {i \in 1..Len(text.gpus) :
                             text.gpus[i].device_id # NONE /\ Same(text.gpus[i].device_id, command.device_id)}
    BY <1>1 DEF AskedRows
  <2> QED
    BY <2>3, <2>4
<1>2. CASE command.command = "npu" /\ Given(command.revision)
  <2>1. q.verb = "npu" /\ q.of = command.device_id /\ q.revision = command.revision
    BY <1>2 DEF QuestionOf
  <2>2. Rows(q.verb) = text.npus
    BY <2>1 DEF Rows, GpuVerbs
  <2>3. \A i \in 1..Len(text.npus) : text.npus[i].device_id # NONE
    BY NpuHasDevice
  <2>4. HitPositions(q) = {i \in 1..Len(text.npus) : /\ Same(text.npus[i].device_id, command.device_id)
                                                      /\ text.npus[i].revision_id # NONE
                                                      /\ Same(text.npus[i].revision_id, command.revision)}
    BY <2>1, <2>2 DEF HitPositions, Hit
  <2>5. AskedRows = {i \in 1..Len(text.npus) : /\ Same(text.npus[i].device_id, command.device_id)
                                                /\ text.npus[i].revision_id # NONE
                                                /\ Same(text.npus[i].revision_id, command.revision)}
    BY <1>2, <2>3 DEF AskedRows
  <2> QED
    BY <2>4, <2>5
<1>3. CASE command.command = "npu" /\ ~Given(command.revision)
  <2>1. q.verb = "npus" /\ q.of = command.device_id
    BY <1>3 DEF QuestionOf
  <2>2. Rows(q.verb) = text.npus
    BY <2>1 DEF Rows, GpuVerbs
  <2>3. \A i \in 1..Len(text.npus) : text.npus[i].device_id # NONE
    BY NpuHasDevice
  <2>4. HitPositions(q) = {i \in 1..Len(text.npus) : Same(text.npus[i].device_id, command.device_id)}
    BY <2>1, <2>2 DEF HitPositions, Hit
  <2>5. AskedRows = {i \in 1..Len(text.npus) : Same(text.npus[i].device_id, command.device_id)}
    BY <1>3, <2>3 DEF AskedRows
  <2> QED
    BY <2>4, <2>5
<1> QED
  BY <1>1, <1>2, <1>3

\* ExitTellsFound, of the next state and by those rows.
LEMMA ExitByRowsNext ==
    ExitTellsFound' <=>
        ((status' \in {0, 1} /\ command'.command \in {"gpu", "resolve", "npu"}) =>
            IF status' = 0
              THEN /\ printed'.rows # <<>>
                   /\ {printed'.rows[k].row : k \in 1..Len(printed'.rows)} \subseteq AskedRows'
                   /\ printed'.found
              ELSE AskedRows' = {})
  BY DEF ExitTellsFound, AskedRows

-----------------------------------------------------------------------------
\* What is printed of an answer tells what the catalog has.
LEMMA PrintsWhatIsFound ==
    ASSUME CInv, binding = "skill", NEW t \in Thread, PrintAnswer(t)
    PROVE  ExitTellsFound'
<1> DEFINE q == question[t]
           s == PositionsOf(text, q)
<1>0. IInv /\ AllProgress /\ TypeOK /\ Dispatched /\ answer[t] \notin {NONE, RAISED}
  BY DEF CInv, IInv, PrintAnswer
<1>1. /\ q \in Question /\ q # NONE
      /\ s \in Seq(HitPositions(q))
      /\ s = <<>> => HitPositions(q) = {}
      /\ answer[t] = References(q, t, s)
      /\ Seen(answer[t]) = Shown(q, t, s)
  BY <1>0, AnswerIsShown
<1>2. command \in Command /\ q = QuestionOf(command)
  BY <1>0, <1>1 DEF Dispatched
<1>3. text' = text /\ command' = command
  BY DEF PrintAnswer, vars
<1> SUFFICES ASSUME command.command \in {"gpu", "resolve", "npu"} PROVE ExitTellsFound'
  BY <1>3 DEF ExitTellsFound
<1>4. AskedRows = HitPositions(q) /\ AskedRows' = AskedRows
  <2>1. AskedRows = HitPositions(q)
    BY <1>0, <1>2, AskedAreHits
  <2>2. AskedRows' = AskedRows
    BY <1>3 DEF AskedRows
  <2> QED
    BY <2>1, <2>2
<1>5. CASE answer[t] = <<>>
  <2>1. status' = 1
    BY <1>5 DEF PrintAnswer, Lists
  <2>2. s = <<>>
    <3>1. Len(References(q, t, s)) = Len(s) /\ Len(s) \in Nat
      BY <1>1 DEF References
    <3>2. Len(s) = 0
      BY <1>1, <1>5, <3>1
    <3> QED
      BY <1>1, <3>2, EmptySeq
  <2>3. AskedRows' = {}
    BY <1>1, <1>4, <2>2
  <2> QED
    BY <2>1, <2>3, ExitByRowsNext
<1>6. CASE answer[t] # <<>>
  <2>1. status' = 0 /\ printed' = [found |-> TRUE, rows |-> Seen(answer[t])]
    BY <1>6 DEF PrintAnswer, Lists
  <2>2. printed'.rows = Shown(q, t, s) /\ printed'.found
    BY <1>1, <2>1
  <2>3. s # <<>> /\ Len(s) \in Nat \ {0}
    <3>1. s # <<>>
      BY <1>1, <1>6 DEF References
    <3> QED
      BY <1>1, <3>1, EmptySeq
  <2> HIDE DEF s, q
  <2>4. Len(Shown(q, t, s)) = Len(s) /\ \A k \in 1..Len(s) : Shown(q, t, s)[k].row = s[k]
    BY <2>3 DEF Shown
  <2>5. Shown(q, t, s) # <<>>
    BY <2>3, <2>4
  <2>6. \A k \in 1..Len(s) : s[k] \in AskedRows'
    BY <1>1, <1>4
  <2>7. {printed'.rows[k].row : k \in 1..Len(printed'.rows)} \subseteq AskedRows'
    BY <2>2, <2>4, <2>6
  <2> QED
    BY <2>1, <2>2, <2>5, <2>7, ExitByRowsNext
<1> QED
  BY <1>5, <1>6

\* Every step keeps the exit status true.
LEMMA ExitStep == CInv /\ [CommandNext]_<<vars, commandVars>> => ExitTellsFound'
<1> SUFFICES ASSUME CInv, [CommandNext]_<<vars, commandVars>> PROVE ExitTellsFound'
  OBVIOUS
<1>0. IInv /\ AllProgress /\ ExitTellsFound /\ [AnyNext]_vars
  BY CommandIsAny DEF CInv
<1>1. text' = text
  BY <1>0, SourcesStay
<1>2. NONE \notin {0, 1}
  BY ThreadAssumption
<1>3. CASE UNCHANGED commandVars
  BY <1>0, <1>1, <1>3 DEF commandVars, ExitTellsFound
<1>4. ASSUME NEW c \in Commands, Invoke(c) PROVE ExitTellsFound'
  <2>1. status' \in {NONE, 2}
    BY <1>4 DEF Invoke
  <2> QED
    BY <1>2, <2>1 DEF ExitTellsFound
<1>5. CASE PrintSources
  BY <1>5 DEF PrintSources, ExitTellsFound
<1>6. ASSUME NEW t \in Thread, PrintAnswer(t), binding = "skill" PROVE ExitTellsFound'
  BY <1>6, PrintsWhatIsFound
<1>7. ASSUME NEW t \in Thread, Traceback(t), binding = "skill" PROVE ExitTellsFound'
  <2>1. answer[t] = RAISED /\ command' = command
    BY <1>7 DEF Traceback
  <2>2. question[t] # NONE /\ question[t].verb = "generation"
    BY <1>0, <2>1, AnswerMarksAssumption DEF AllProgress, Progress, RaisesRight, FreshCaller
  <2>3. command \in Command \ {NONE} /\ question[t] = QuestionOf(command)
    BY <1>7, <2>2 DEF CInv, Dispatched
  <2>4. command.command \notin {"gpu", "resolve", "npu"}
    <3>1. CASE command.command \in {"gpu", "resolve"}
      BY <2>2, <2>3, <3>1 DEF QuestionOf
    <3>2. CASE command.command = "npu" /\ Given(command.revision)
      BY <2>2, <2>3, <3>2 DEF QuestionOf
    <3>3. CASE command.command = "npu" /\ ~Given(command.revision)
      BY <2>2, <2>3, <3>3 DEF QuestionOf
    <3> QED
      BY <3>1, <3>2, <3>3
  <2> QED
    BY <2>1, <2>4 DEF ExitTellsFound
<1> QED
  BY <1>3, <1>4, <1>5, <1>6, <1>7 DEF CommandNext, LoadCatalog, Dispatch, LookUp

\* At first there is no command.
LEMMA CommandInitially == CommandInit => CInv
<1> SUFFICES ASSUME CommandInit PROVE CInv
  OBVIOUS
<1>1. NONE \notin {0, 1}
  BY ThreadAssumption
<1>2. IInv /\ AllProgress
  BY IInit, ProgressInit DEF CommandInit
<1>3. CommandTypeOK /\ ExitTellsFound
  BY <1>1 DEF CommandInit, CommandTypeOK, ExitTellsFound
<1>4. Dispatched
  BY DEF CommandInit, Init, Dispatched
<1> QED
  BY <1>2, <1>3, <1>4 DEF CInv

\* The inductive invariant holds whether callers or a command line ask.
LEMMA CInvHolds == CommandSpec => []CInv
<1>1. CInv /\ [CommandNext]_<<vars, commandVars>> => CInv'
  <2> SUFFICES ASSUME CInv, [CommandNext]_<<vars, commandVars>> PROVE CInv'
    OBVIOUS
  <2>1. IInv /\ AllProgress /\ [AnyNext]_vars
    BY CommandIsAny DEF CInv
  <2>2. IInv' /\ AllProgress'
    BY <2>1, IStep, ProgressStep
  <2> QED
    BY <2>2, CommandTypeStep, DispatchedStep, ExitStep DEF CInv
<1> QED
  BY <1>1, CommandInitially, PTL DEF CommandSpec

\* A lookup of one device that succeeds prints its rows and no others; it
\* fails only when the catalog has no such row: _not_found and the exit statuses
\* of main().
THEOREM ExitTellsFoundHolds == CommandSpec => []ExitTellsFound
<1>1. CInv => ExitTellsFound
  BY DEF CInv
<1> QED
  BY <1>1, CInvHolds, PTL

\* The skill's one caller is served as the bindings' callers are, and leaves
\* the catalog alone as they do.
THEOREM CommandKeepsPromise == CommandSpec => KeepsPromise /\ []SourceUntouched
<1>1. CInv => IInv /\ AllProgress /\ CommandTypeOK /\ SourceUntouched
  BY DEF CInv, IInv
<1>2. CommandInit => Init
  BY DEF CommandInit
<1> QED
  BY <1>1, <1>2, CInvHolds, CommandIsAny, PromiseInit, PromiseStep, PTL DEF CommandSpec, KeepsPromise

=============================================================================
