-------------------------- MODULE SnapshotSyncProofs --------------------------
(***************************************************************************)
(* What holds of the committed copies of catalog.json for any number of    *)
(* branches, builds and edits.                                             *)
(***************************************************************************)
EXTENDS SnapshotSync, TLAPS

(***************************************************************************)
(* A green branch may be merged into a main that CI has not seen.  What    *)
(* makes that safe is that each build is a file of its own: a branch that  *)
(* has regenerated the catalog holds a file that nobody else has, so that  *)
(* CI cannot have found its copy for the skill in main.                    *)
(***************************************************************************)

\* The branch has a canonical catalog of its own.
Regenerated(b) == work[b].canonical # base[b].canonical

\* A branch starts from a main whose two copies agree.
BaseOK == \A b \in Branch : base[b].skill = base[b].canonical

\* No canonical catalog has a number that no build has had yet.
Numbered ==
    /\ main.canonical.build <= built
    /\ \A b \in Branch : base[b].canonical.build <= built /\ work[b].canonical.build <= built

\* A catalog regenerated on a branch is nowhere else until it is merged.
OwnBuild ==
    \A b \in Branch : Regenerated(b) =>
        /\ main.canonical # work[b].canonical
        /\ \A c \in Branch : base[c].canonical # work[b].canonical
        /\ \A c \in Branch : c # b => work[c].canonical # work[b].canonical

\* A branch that has not regenerated the catalog has not changed the skill's
\* copy either: there was nothing else to copy.
SkillFollows == \A b \in Branch : ~Regenerated(b) => work[b].skill = base[b].skill

\* What CI has seen of a branch, whichever main it was merged with.
GreenOK ==
    \A b \in Branch : green[b] =>
        /\ Regenerated(b) => /\ work[b].skill = work[b].canonical
                             /\ work[b].canonical.kind = "valid"
        /\ work[b].go # base[b].go => work[b].go.kind # "torn"

IInv == TypeOK /\ BaseOK /\ Numbered /\ OwnBuild /\ SkillFollows /\ GreenOK /\ MainStaysGreen

-----------------------------------------------------------------------------
\* The file that a merge leaves is one side's.
LEMMA MergedFile ==
    ASSUME TypeOK, NEW b \in Branch
    PROVE  /\ Merged(b) \in Tree
           /\ Merged(b).canonical =
                 IF work[b].canonical = base[b].canonical THEN main.canonical ELSE work[b].canonical
           /\ Merged(b).skill = IF work[b].skill = base[b].skill THEN main.skill ELSE work[b].skill
           /\ Merged(b).go = IF work[b].go = base[b].go THEN main.go ELSE work[b].go
<1> DEFINE w == work[b]
           o == base[b]
<1>1. w \in Tree /\ o \in Tree /\ main \in Tree
  BY DEF TypeOK
<1>2. Merged(b) = [f \in Files |-> IF w[f] = o[f] THEN main[f] ELSE w[f]]
  BY DEF Merged
<1> HIDE DEF w, o
<1>3. Merged(b) \in Tree
  BY <1>1, <1>2 DEF Tree, Files
<1>4. Merged(b).canonical = IF w.canonical = o.canonical THEN main.canonical ELSE w.canonical
  BY <1>1, <1>2 DEF Tree, Files
<1>5. Merged(b).skill = IF w.skill = o.skill THEN main.skill ELSE w.skill
  BY <1>1, <1>2 DEF Tree, Files
<1>6. Merged(b).go = IF w.go = o.go THEN main.go ELSE w.go
  BY <1>1, <1>2 DEF Tree, Files
<1> QED
  BY <1>3, <1>4, <1>5, <1>6 DEF w, o

\* What a step on a branch can do to it.
LEMMA StepOnBranch ==
    ASSUME [Next]_vars
    PROVE  \/ \E b \in Branch : Fork(b) \/ Regenerate(b) \/ CI(b) \/ Merge(b)
           \/ \E b \in Branch : EditNotes(b) \/ SyncSkill(b) \/ GoGenerate(b)
           \/ UNCHANGED vars
  BY DEF Next

\* The first state.
LEMMA IInit == Init => IInv
<1> SUFFICES ASSUME Init PROVE IInv
  OBVIOUS
<1>1. First \in Catalog /\ First.build = 0 /\ First.kind = "valid" /\ First.notes = 0
  BY BoundsAssumption DEF First, Catalog, Kind
<1>2. /\ InSync(First) \in Tree
      /\ InSync(First).canonical = First
      /\ InSync(First).skill = First
      /\ InSync(First).go = First
  BY <1>1, BoundsAssumption DEF InSync, Tree
<1>3. main \in Tree /\ main.canonical = First /\ main.skill = First /\ main.go = First
  BY <1>2 DEF Init
<1>4. \A b \in Branch : base[b] = main /\ work[b] = main /\ ~green[b]
  BY DEF Init
<1>5. TypeOK
  BY <1>3, BoundsAssumption DEF Init, TypeOK
<1>6. BaseOK /\ OwnBuild /\ SkillFollows /\ GreenOK
  BY <1>3, <1>4 DEF BaseOK, OwnBuild, SkillFollows, GreenOK, Regenerated
<1>7. Numbered
  BY <1>1, <1>3, <1>4 DEF Numbered, Init
<1>8. MainStaysGreen
  BY <1>1, <1>3 DEF MainStaysGreen
<1> QED
  BY <1>5, <1>6, <1>7, <1>8 DEF IInv

-----------------------------------------------------------------------------
\* A commit puts a tree on the branch and takes back what CI said.
LEMMA CommitOf ==
    ASSUME TypeOK, NEW b \in Branch, NEW tree, Commit(b, tree)
    PROVE  /\ work'[b] = tree
           /\ ~green'[b]
           /\ \A c \in Branch \ {b} : work'[c] = work[c] /\ green'[c] = green[c]
           /\ main' = main /\ base' = base
           /\ tree \in Tree => /\ work' \in [Branch -> Tree]
                               /\ green' \in [Branch -> BOOLEAN]
  BY DEF TypeOK, Commit

\* Every step keeps the types.
LEMMA TypeStep == TypeOK /\ [Next]_vars => TypeOK'
<1> SUFFICES ASSUME TypeOK, [Next]_vars PROVE TypeOK'
  OBVIOUS
<1>1. ASSUME NEW b \in Branch, Fork(b) PROVE TypeOK'
  BY <1>1 DEF Fork, TypeOK
<1>2. ASSUME NEW b \in Branch, Regenerate(b) PROVE TypeOK'
  <2>1. work[b] \in Tree /\ work[b].notes \in 0..MaxEdits
    BY DEF TypeOK, Tree
  <2>2. built' \in 0..MaxBuilds
    BY <1>2, BoundsAssumption DEF Regenerate, TypeOK
  <2>3. PICK kind \in Kind :
           Commit(b, [work[b] EXCEPT !.canonical = [build |-> built', kind |-> kind, notes |-> work[b].notes]])
    BY <1>2 DEF Regenerate
  <2>4. [work[b] EXCEPT !.canonical = [build |-> built', kind |-> kind, notes |-> work[b].notes]] \in Tree
    BY <2>1, <2>2 DEF Tree, Catalog
  <2> QED
    BY <1>2, <2>2, <2>3, <2>4, CommitOf DEF Regenerate, TypeOK
<1>3. ASSUME NEW b \in Branch, EditNotes(b) PROVE TypeOK'
  <2>1. edited' \in 0..MaxEdits
    BY <1>3, BoundsAssumption DEF EditNotes, TypeOK
  <2>2. [work[b] EXCEPT !.notes = edited'] \in Tree
    BY <2>1 DEF TypeOK, Tree
  <2> QED
    BY <1>3, <2>1, <2>2, CommitOf DEF EditNotes, TypeOK
<1>4. ASSUME NEW b \in Branch, SyncSkill(b) PROVE TypeOK'
  <2>1. [work[b] EXCEPT !.skill = work[b].canonical] \in Tree
    BY DEF TypeOK, Tree
  <2> QED
    BY <1>4, <2>1, CommitOf DEF SyncSkill, TypeOK
<1>5. ASSUME NEW b \in Branch, GoGenerate(b) PROVE TypeOK'
  <2>1. [work[b] EXCEPT !.go = work[b].canonical] \in Tree
    BY DEF TypeOK, Tree
  <2> QED
    BY <1>5, <2>1, CommitOf DEF GoGenerate, TypeOK
<1>6. ASSUME NEW b \in Branch, CI(b) PROVE TypeOK'
  BY <1>6 DEF CI, TypeOK
<1>7. ASSUME NEW b \in Branch, Merge(b) PROVE TypeOK'
  <2>1. main' \in Tree
    BY <1>7, MergedFile DEF Merge
  <2> QED
    BY <1>7, <2>1 DEF Merge, TypeOK
<1>8. CASE UNCHANGED vars
  BY <1>8 DEF vars, TypeOK
<1> QED
  BY <1>1, <1>2, <1>3, <1>4, <1>5, <1>6, <1>7, <1>8 DEF Next

-----------------------------------------------------------------------------
\* A new build has a number that no canonical catalog has.
LEMMA RegenerateStep ==
    ASSUME IInv, NEW b \in Branch, Regenerate(b)
    PROVE  IInv'
<1>1. PICK kind \in Kind :
         Commit(b, [work[b] EXCEPT !.canonical = [build |-> built', kind |-> kind, notes |-> work[b].notes]])
  BY DEF Regenerate
<1> DEFINE catalog == [build |-> built', kind |-> kind, notes |-> work[b].notes]
<1>2. /\ main' = main /\ base' = base /\ built' = built + 1 /\ built \in Nat
      /\ ~green'[b]
      /\ \A c \in Branch \ {b} : work'[c] = work[c] /\ green'[c] = green[c]
  BY <1>1, CommitOf, BoundsAssumption DEF IInv, Regenerate, TypeOK
<1>3. /\ work'[b].canonical = catalog
      /\ work'[b].skill = work[b].skill
      /\ work'[b].go = work[b].go
  <2>1. work[b] \in Tree /\ work'[b] = [work[b] EXCEPT !.canonical = catalog]
    BY <1>1, CommitOf DEF IInv, TypeOK
  <2> QED
    BY <2>1 DEF Tree
<1>4. catalog.build = built + 1
  BY <1>2
<1> HIDE DEF catalog
<1>5. TypeOK'
  BY TypeStep DEF IInv, Next
<1>6. /\ main.canonical.build \in Nat
      /\ \A c \in Branch : base[c].canonical.build \in Nat /\ work[c].canonical.build \in Nat
  BY BoundsAssumption DEF IInv, TypeOK, Tree, Catalog
<1>7. /\ main.canonical # catalog
      /\ \A c \in Branch : base[c].canonical # catalog /\ work[c].canonical # catalog
  BY <1>2, <1>4, <1>6 DEF IInv, Numbered
<1>8. BaseOK' /\ MainStaysGreen'
  BY <1>2 DEF IInv, BaseOK, MainStaysGreen
<1>9. Numbered'
  BY <1>2, <1>3, <1>4, <1>6 DEF IInv, Numbered
<1>10. OwnBuild'
  BY <1>2, <1>3, <1>7 DEF IInv, OwnBuild, Regenerated
<1>11. SkillFollows' /\ GreenOK'
  BY <1>2, <1>3, <1>7 DEF IInv, SkillFollows, GreenOK, Regenerated
<1> QED
  BY <1>5, <1>8, <1>9, <1>10, <1>11 DEF IInv

\* The other commits leave the canonical catalog alone.
LEMMA CopyStep ==
    ASSUME IInv, NEW b \in Branch, EditNotes(b) \/ SyncSkill(b) \/ GoGenerate(b)
    PROVE  IInv'
<1>1. TypeOK'
  BY TypeStep DEF IInv, Next
<1>2. /\ main' = main /\ base' = base /\ built' = built
      /\ ~green'[b]
      /\ \A c \in Branch \ {b} : work'[c] = work[c] /\ green'[c] = green[c]
  BY CommitOf DEF IInv, EditNotes, SyncSkill, GoGenerate
<1>3. /\ work'[b].canonical = work[b].canonical
      /\ work'[b].skill \in {work[b].skill, work[b].canonical}
  <2>1. work[b] \in Tree
    BY DEF IInv, TypeOK
  <2>2. CASE EditNotes(b)
    <3>1. work'[b] = [work[b] EXCEPT !.notes = edited']
      BY <2>2, CommitOf DEF IInv, EditNotes
    <3> QED
      BY <2>1, <3>1 DEF Tree
  <2>3. CASE SyncSkill(b)
    <3>1. work'[b] = [work[b] EXCEPT !.skill = work[b].canonical]
      BY <2>3, CommitOf DEF IInv, SyncSkill
    <3> QED
      BY <2>1, <3>1 DEF Tree
  <2>4. CASE GoGenerate(b)
    <3>1. work'[b] = [work[b] EXCEPT !.go = work[b].canonical]
      BY <2>4, CommitOf DEF IInv, GoGenerate
    <3> QED
      BY <2>1, <3>1 DEF Tree
  <2> QED
    BY <2>2, <2>3, <2>4
<1>4. BaseOK' /\ MainStaysGreen' /\ Numbered'
  BY <1>2, <1>3 DEF IInv, BaseOK, MainStaysGreen, Numbered
<1>5. OwnBuild'
  BY <1>2, <1>3 DEF IInv, OwnBuild, Regenerated
<1>6. SkillFollows'
  BY <1>2, <1>3 DEF IInv, SkillFollows, Regenerated, BaseOK
<1>7. GreenOK'
  BY <1>2 DEF IInv, GreenOK, Regenerated
<1> QED
  BY <1>1, <1>4, <1>5, <1>6, <1>7 DEF IInv

\* A new branch is a copy of main.
LEMMA ForkStep ==
    ASSUME IInv, NEW b \in Branch, Fork(b)
    PROVE  IInv'
<1>1. TypeOK'
  BY TypeStep DEF IInv, Next
<1>2. /\ main' = main /\ built' = built
      /\ base'[b] = main /\ work'[b] = main /\ ~green'[b]
      /\ \A c \in Branch \ {b} : base'[c] = base[c] /\ work'[c] = work[c] /\ green'[c] = green[c]
  BY DEF Fork, IInv, TypeOK
<1>3. BaseOK' /\ MainStaysGreen' /\ Numbered'
  BY <1>2 DEF IInv, BaseOK, MainStaysGreen, Numbered
<1>4. OwnBuild' /\ SkillFollows' /\ GreenOK'
  BY <1>2 DEF IInv, OwnBuild, SkillFollows, GreenOK, Regenerated
<1> QED
  BY <1>1, <1>3, <1>4 DEF IInv

\* CI finds a branch with a catalog of its own good only with the skill's copy
\* of that catalog: main's skill has another.
LEMMA CIStep ==
    ASSUME IInv, NEW b \in Branch, CI(b)
    PROVE  IInv'
<1>1. TypeOK'
  BY TypeStep DEF IInv, Next
<1>2. /\ main' = main /\ base' = base /\ work' = work /\ built' = built
      /\ \A c \in Branch \ {b} : green'[c] = green[c]
  BY DEF CI, IInv, TypeOK
<1>3. TestsPass(Merged(b))
  BY DEF CI
<1>4. ASSUME Regenerated(b)
      PROVE  work[b].skill = work[b].canonical /\ work[b].canonical.kind = "valid"
  <2>1. Merged(b).canonical = work[b].canonical
    BY <1>4, MergedFile DEF IInv, Regenerated
  <2>2. main.skill # work[b].canonical
    BY <1>4 DEF IInv, OwnBuild, MainStaysGreen
  <2>3. Merged(b).skill = work[b].skill
    BY <1>3, <2>1, <2>2, MergedFile DEF IInv, TestsPass
  <2> QED
    BY <1>3, <2>1, <2>3 DEF TestsPass
<1>5. work[b].go # base[b].go => work[b].go.kind # "torn"
  BY <1>3, MergedFile DEF IInv, TestsPass
<1>6. GreenOK'
  BY <1>2, <1>4, <1>5 DEF IInv, GreenOK, Regenerated
<1>7. BaseOK' /\ MainStaysGreen' /\ Numbered' /\ OwnBuild' /\ SkillFollows'
  BY <1>2 DEF IInv, BaseOK, MainStaysGreen, Numbered, OwnBuild, SkillFollows, Regenerated
<1> QED
  BY <1>1, <1>6, <1>7 DEF IInv

\* A green branch is merged with any main: what it has regenerated comes with
\* its copy, and otherwise main keeps both of its files.
LEMMA MergeStep ==
    ASSUME IInv, NEW b \in Branch, Merge(b)
    PROVE  IInv'
<1>1. TypeOK'
  BY TypeStep DEF IInv, Next
<1>2. /\ main' = Merged(b) /\ built' = built /\ green[b]
      /\ base'[b] = main' /\ work'[b] = main' /\ ~green'[b]
      /\ \A c \in Branch \ {b} : base'[c] = base[c] /\ work'[c] = work[c] /\ green'[c] = green[c]
  BY DEF Merge, IInv, TypeOK
<1>3. CASE Regenerated(b)
  <2>1. main'.canonical = work[b].canonical
    BY <1>2, <1>3, MergedFile DEF IInv, Regenerated
  <2>2. work[b].skill = work[b].canonical /\ work[b].canonical.kind = "valid"
    BY <1>2, <1>3 DEF IInv, GreenOK
  <2>3. main'.skill = work[b].canonical
    BY <1>2, <1>3, <2>2, MergedFile DEF IInv, Regenerated, BaseOK
  <2>4. main'.go.kind # "torn"
    BY <1>2, MergedFile DEF IInv, GreenOK, MainStaysGreen
  <2>5. MainStaysGreen' /\ BaseOK'
    BY <1>2, <2>1, <2>2, <2>3, <2>4 DEF IInv, MainStaysGreen, BaseOK
  <2>6. Numbered'
    BY <1>2, <2>1 DEF IInv, Numbered
  <2>7. OwnBuild'
    BY <1>2, <1>3, <2>1 DEF IInv, OwnBuild, Regenerated
  <2>8. SkillFollows' /\ GreenOK'
    BY <1>2 DEF IInv, SkillFollows, GreenOK, Regenerated
  <2> QED
    BY <1>1, <2>5, <2>6, <2>7, <2>8 DEF IInv
<1>4. CASE ~Regenerated(b)
  <2>1. main'.canonical = main.canonical /\ main'.skill = main.skill
    BY <1>2, <1>4, MergedFile DEF IInv, Regenerated, SkillFollows
  <2>2. main'.go.kind # "torn"
    BY <1>2, MergedFile DEF IInv, GreenOK, MainStaysGreen
  <2>3. MainStaysGreen' /\ BaseOK' /\ Numbered'
    BY <1>2, <2>1, <2>2 DEF IInv, MainStaysGreen, BaseOK, Numbered
  <2>4. OwnBuild'
    BY <1>2, <2>1 DEF IInv, OwnBuild, Regenerated
  <2>5. SkillFollows' /\ GreenOK'
    BY <1>2 DEF IInv, SkillFollows, GreenOK, Regenerated
  <2> QED
    BY <1>1, <2>3, <2>4, <2>5 DEF IInv
<1> QED
  BY <1>3, <1>4

\* The invariant is inductive.
LEMMA IStep == IInv /\ [Next]_vars => IInv'
<1> SUFFICES ASSUME IInv, [Next]_vars PROVE IInv'
  OBVIOUS
<1>1. CASE \E b \in Branch : Fork(b) \/ Regenerate(b) \/ CI(b) \/ Merge(b)
  BY <1>1, ForkStep, RegenerateStep, CIStep, MergeStep
<1>2. CASE \E b \in Branch : EditNotes(b) \/ SyncSkill(b) \/ GoGenerate(b)
  BY <1>2, CopyStep
<1>3. CASE UNCHANGED vars
  BY <1>3 DEF vars, IInv, TypeOK, BaseOK, Numbered, OwnBuild, SkillFollows, GreenOK, MainStaysGreen, Regenerated
<1> QED
  BY <1>1, <1>2, <1>3, StepOnBranch

LEMMA Invariance == Spec => []IInv
  BY IInit, IStep, PTL DEF Spec

-----------------------------------------------------------------------------
\* The trees of main and of the branches keep their type, through commits,
\* copies and merges.
THEOREM TypeCorrect == Spec => []TypeOK
<1>1. IInv => TypeOK
  BY DEF IInv
<1> QED
  BY <1>1, Invariance, PTL

\* However many branches are merged on CI runs that saw another main, and in
\* whichever order, main keeps one catalog for the skill, Python and Rust, and
\* the schema accepts it.
THEOREM MainStaysGreenHolds == Spec => []MainStaysGreen
<1>1. IInv => MainStaysGreen
  BY DEF IInv
<1> QED
  BY <1>1, Invariance, PTL

=============================================================================
