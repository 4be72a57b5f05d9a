-------------------------- MODULE HardwareProbeProofs --------------------------
(***************************************************************************)
(* What a report says of the GPU, for every list of probes of any kinds.   *)
(***************************************************************************)
EXTENDS HardwareProbe, Positions, SequenceTheorems

\* The five kinds of probe.
LEMMA Kinds == Kind = {"int", "float", "fp8", "narrow", "hip"}
  BY DEF Kind, StepsOf

\* What the programs call the operations, kind by kind.
LEMMA StepsOfKind ==
    /\ Len(StepsOf["int"]) = 5 /\ Len(StepsOf["float"]) = 5 /\ Len(StepsOf["fp8"]) = 3
    /\ Len(StepsOf["narrow"]) = 1 /\ Len(StepsOf["hip"]) = 4
    /\ \A kind \in {"int", "float"} :
          StepsOf[kind][1] = "create" /\ StepsOf[kind][2] = "add" /\ StepsOf[kind][3] = "device"
          /\ StepsOf[kind][5] = "compare"
    /\ StepsOf["int"][4] = "sum" /\ StepsOf["float"][4] = "matmul"
    /\ StepsOf["fp8"][1] = "create" /\ StepsOf["fp8"][2] = "scale" /\ StepsOf["fp8"][3] = "gemm"
    /\ StepsOf["narrow"][1] = "create"
    /\ StepsOf["hip"][1] = "malloc" /\ StepsOf["hip"][2] = "launch" /\ StepsOf["hip"][3] = "sync"
    /\ StepsOf["hip"][4] = "copy"
  BY DEF StepsOf

\* No kind of probe does an operation twice.
LEMMA OperationsDiffer ==
    ASSUME NEW kind \in Kind, NEW n \in 1..Len(StepsOf[kind]), NEW m \in 1..Len(StepsOf[kind]), n # m
    PROVE  StepsOf[kind][n] # StepsOf[kind][m]
<1>1. CASE kind = "int"
  BY <1>1, StepsOfKind
<1>2. CASE kind = "float"
  BY <1>2, StepsOfKind
<1>3. CASE kind = "fp8"
  BY <1>3, StepsOfKind
<1>4. CASE kind = "narrow"
  BY <1>4, StepsOfKind
<1>5. CASE kind = "hip"
  BY <1>5, StepsOfKind
<1> QED
  BY Kinds, <1>1, <1>2, <1>3, <1>4, <1>5

\* The operations of a kind are operations.
LEMMA OperationOfKind ==
    ASSUME NEW kind \in Kind, NEW n \in 1..Len(StepsOf[kind])
    PROVE  StepsOf[kind][n] \in Operation
  BY DEF Operation

\* What an operation gives is one of the outcomes, and not that it raised.
LEMMA ValuesType ==
    ASSUME NEW op
    PROVE  Values(op) \subseteq {"right", "wrong", "nonfinite"} /\ Values(op) \subseteq Outcome
  BY DEF Values, Outcome

\* The probe that the program is at, and the dtype that it is called.
LEMMA ThisType ==
    ASSUME TypeOK, Len(results) < Len(probes)
    PROVE  /\ This \in 1..Len(probes) /\ Len(results) \in Nat /\ Len(probes) \in Nat
           /\ KindOf \in Kind
           /\ DtypeOf(probes[This]) \in STRING \cup {NONE}
<1>1. /\ probes \in Seq([dtypes : Seq(STRING), kind : Kind]) /\ results \in Seq(Result)
  BY ProgramsAssumption DEF TypeOK
<1>2. This \in 1..Len(probes) /\ Len(results) \in Nat /\ Len(probes) \in Nat
  BY <1>1 DEF This
<1>3. probes[This] \in [dtypes : Seq(STRING), kind : Kind]
  BY <1>1, <1>2, ElementOfSeq
<1> DEFINE spec == probes[This]
           least == CHOOSE n \in Existing(spec) : \A m \in Existing(spec) : n <= m
<1>4. CASE Existing(spec) # {}
  <2>1. Existing(spec) \subseteq 1..Len(spec.dtypes) /\ Len(spec.dtypes) \in Nat
    BY <1>3 DEF Existing
  <2> HIDE DEF spec
  <2>2. \E n \in Existing(spec) : \A m \in Existing(spec) : n <= m
    <3>1. Existing(spec) \in SUBSET (0..Len(spec.dtypes))
      BY <2>1
    <3> QED
      BY <1>4, <2>1, <3>1, FirstExists
  <2>3. least \in Existing(spec)
    BY <2>2
  <2> HIDE DEF least
  <2>4. spec.dtypes[least] \in STRING
    BY <1>3, <2>1, <2>3 DEF spec
  <2> QED
    BY <1>2, <1>3, <1>4, <2>4 DEF DtypeOf, KindOf, spec, least
<1>5. CASE Existing(spec) = {}
  BY <1>2, <1>3, <1>5 DEF DtypeOf, KindOf
<1> QED
  BY <1>4, <1>5

-----------------------------------------------------------------------------
(***************************************************************************)
(* A verdict rests on what the probe's operations gave one after another,  *)
(* so the invariant says where the program is in them, what each of those  *)
(* behind it has given, and that a fault of this probe's kernels is still  *)
(* to be noticed.                                                          *)
(***************************************************************************)
PositionOK ==
    /\ pc \in {"start", "choose", "probe"} => Len(results) < Len(probes)
    /\ pc = "probe" => step \in 1..Len(StepsOf[KindOf])
    /\ pc \in {"print", "open", "write", "done"} => Len(results) = Len(probes)
    /\ pc \in {"open", "write", "done"} => report # NONE

ReportOK ==
    /\ report # NONE =>
          /\ report.results = results
          /\ Len(results) = Len(probes)
          /\ pc \in {"open", "write", "done", "raised"}
    /\ file \in {NONE, Torn, report}
    /\ file # NONE => report # NONE
    /\ file = Torn => pc \in {"write", "raised"}

\* Nothing has been asked of the probes ahead.
IsBehind(i) == i <= Len(results) \/ (pc = "probe" /\ i = This)

BehindOK ==
    pc # "raised" => (\A t \in seen : IsBehind(t[1])) /\ (\A i \in faults : IsBehind(i))

\* An operation of this probe that is over has given a value, and its check
\* has accepted it.
IsOver(op) == Accepts(op, seen) /\ \E value \in Values(op) : <<This, op, value>> \in seen

CurrentOK ==
    pc = "probe" =>
        /\ \A n \in 1..(step - 1) : IsOver(StepsOf[KindOf][n])
        /\ \A t \in seen : t[1] = This => t[3] # "raised" /\ \E n \in 1..(step - 1) : t[2] = StepsOf[KindOf][n]
        /\ This \in faults => gpu # "ok"

GpuOK == gpu # "ok" => faults # {}

IInv ==
    /\ TypeOK
    /\ PositionOK
    /\ ReportOK
    /\ BehindOK
    /\ CurrentOK
    /\ GpuOK
    /\ SupportedIsConfirmed
    /\ BlameHasACause

\* What an operation gives does not undo the checks before it.
LEMMA AcceptsMore ==
    ASSUME NEW op, NEW given, NEW other, NEW value, op # other, Accepts(op, given)
    PROVE  Accepts(op, given \cup {<<This, other, value>>})
  BY DEF Accepts

\* What the program knows of a probe behind it: Conclude appends its verdict.
LEMMA Concluded ==
    ASSUME TypeOK, Len(results) < Len(probes), probes' = probes,
           NEW dtype \in STRING \cup {NONE}, NEW verdict \in BOOLEAN \cup {NONE}, Conclude(dtype, verdict)
    PROVE  /\ results' \in Seq(Result)
           /\ Len(results') = This
           /\ results'[This].verdict = verdict
           /\ \A i \in 1..Len(results) : results'[i] = results[i]
           /\ pc' \in {"print", "choose"}
           /\ pc' = "print" => This = Len(probes)
           /\ pc' = "choose" => This < Len(probes)
<1>1. results \in Seq(Result) /\ [dtype |-> dtype, verdict |-> verdict] \in Result
  BY DEF TypeOK, Result
<1>2. results' = Append(results, [dtype |-> dtype, verdict |-> verdict])
  BY DEF Conclude
<1>3. /\ results' \in Seq(Result) /\ Len(results') = Len(results) + 1
      /\ \A i \in 1..Len(results) : results'[i] = results[i]
      /\ results'[Len(results) + 1] = [dtype |-> dtype, verdict |-> verdict]
  BY <1>1, <1>2, AppendProperties
<1> QED
  BY <1>3, ThisType DEF Conclude, This

\* An operation of the current probe, and those before it.
LEMMA OpType ==
    ASSUME TypeOK, PositionOK, pc = "probe"
    PROVE  /\ Len(results) < Len(probes) /\ This \in 1..Len(probes) /\ KindOf \in Kind
           /\ step \in 1..Len(StepsOf[KindOf]) /\ step \in Nat
           /\ Op \in Operation
           /\ \A n \in 1..(step - 1) :
                 n \in 1..Len(StepsOf[KindOf]) /\ StepsOf[KindOf][n] # Op
<1>1. Len(results) < Len(probes) /\ step \in 1..Len(StepsOf[KindOf]) /\ step \in Nat
  BY DEF PositionOK, TypeOK
<1>2. This \in 1..Len(probes) /\ KindOf \in Kind
  BY <1>1, ThisType
<1>3. Len(StepsOf[KindOf]) \in Nat
  BY <1>2, Kinds, StepsOfKind
<1>4. Op \in Operation
  BY <1>1, <1>2, OperationOfKind DEF Op
<1>5. ASSUME NEW n \in 1..(step - 1)
      PROVE  n \in 1..Len(StepsOf[KindOf]) /\ StepsOf[KindOf][n] # Op
  <2>1. n \in 1..Len(StepsOf[KindOf]) /\ n # step
    BY <1>1, <1>3
  <2> QED
    BY <1>1, <1>2, <2>1, OperationsDiffer DEF Op
<1> QED
  BY <1>1, <1>2, <1>4, <1>5

\* The probe i is confirmed by what was given, when blamed is what faulted.
IsConfirmed(i, kind, given, blamed) ==
    LET gave(op, value) == <<i, op, value>> \in given
    IN  /\ i \notin blamed
        /\ ~\E op \in Operation : gave(op, "raised")
        /\ kind \in {"int", "float"} => gave("add", "right") /\ gave("device", "right")
        /\ kind = "int" => gave("create", "right")
        /\ kind = "float" => gave("matmul", "right") \/ gave("matmul", "wrong")
        /\ kind = "fp8" => gave("gemm", "right") \/ gave("gemm", "wrong")
        /\ kind = "hip" => gave("launch", "right")
        /\ kind # "narrow"

\* An operation of another probe, or its fault, changes nothing of that.
LEMMA StaysConfirmed ==
    ASSUME NEW i, NEW kind, i # This, IsConfirmed(i, kind, seen, faults),
           seen \subseteq seen', \A t \in seen' : t \in seen \/ t[1] = This,
           faults' \subseteq faults \cup {This}
    PROVE  IsConfirmed(i, kind, seen', faults')
<1>1. \A op, value : <<i, op, value>> \in seen' <=> <<i, op, value>> \in seen
  OBVIOUS
<1>2. i \notin faults'
  BY DEF IsConfirmed
<1> QED
  BY <1>1, <1>2 DEF IsConfirmed

\* SUPPORTED is said when the checks have accepted every operation of a probe,
\* the last of which has waited for its kernels.
LEMMA Confirmed ==
    ASSUME TypeOK, PositionOK, CurrentOK, pc = "probe", step = Len(StepsOf[KindOf]),
           Op \in Waits => gpu = "ok",
           NEW value \in Values(Op), NEW given,
           given = seen \cup {<<This, Op, value>>},
           Accepts(Op, given), KindOf # "narrow"
    PROVE  /\ IsConfirmed(This, KindOf, given, faults)
           /\ Op \in Waits
<1>1. KindOf \in {"int", "float", "fp8", "hip"}
  BY OpType, Kinds
<1>2. Op \in {"compare", "gemm", "copy"} /\ Op \in Waits
  BY <1>1, StepsOfKind DEF Op, Waits
<1>3. This \notin faults
  BY <1>2 DEF CurrentOK
<1>4. ~\E op \in Operation : <<This, op, "raised">> \in given
  <2>1. value # "raised"
    BY ValuesType
  <2> QED
    BY <2>1 DEF CurrentOK
<1>5. \A n \in 1..(step - 1) :
         /\ Accepts(StepsOf[KindOf][n], seen)
         /\ \E v \in Values(StepsOf[KindOf][n]) : <<This, StepsOf[KindOf][n], v>> \in seen
  BY DEF CurrentOK, IsOver
<1>6. CASE KindOf = "int"
  <2>1. Op = "compare" /\ 3 \in 1..(step - 1) /\ 4 \in 1..(step - 1)
    BY <1>6, StepsOfKind DEF Op
  <2>2. Accepts("device", seen) /\ Accepts("sum", seen) /\ Accepts("compare", given)
    BY <1>5, <1>6, <2>1, StepsOfKind
  <2>3. <<This, "device", "right">> \in given /\ <<This, "create", "right">> \in given
    BY <2>2 DEF Accepts
  <2>4. <<This, "add", "right">> \in given
    BY <2>2 DEF Accepts
  <2> QED
    BY <1>2, <1>3, <1>4, <1>6, <2>3, <2>4 DEF IsConfirmed
<1>7. CASE KindOf = "float"
  <2>1. Op = "compare" /\ 3 \in 1..(step - 1) /\ 4 \in 1..(step - 1)
    BY <1>7, StepsOfKind DEF Op
  <2>2. /\ Accepts("device", seen) /\ Accepts("matmul", seen) /\ Accepts("compare", given)
        /\ \E v \in Values("matmul") : <<This, "matmul", v>> \in seen
    BY <1>5, <1>7, <2>1, StepsOfKind
  <2>3. <<This, "device", "right">> \in given /\ <<This, "add", "right">> \in given
    BY <2>2 DEF Accepts
  <2>4. <<This, "matmul", "right">> \in given \/ <<This, "matmul", "wrong">> \in given
    BY <2>2, ValuesType DEF Accepts
  <2> QED
    BY <1>2, <1>3, <1>4, <1>7, <2>3, <2>4 DEF IsConfirmed
<1>8. CASE KindOf = "fp8"
  <2>1. Op = "gemm"
    BY <1>8, StepsOfKind DEF Op
  <2>2. <<This, "gemm", "right">> \in given \/ <<This, "gemm", "wrong">> \in given
    BY <2>1, ValuesType DEF Accepts
  <2> QED
    BY <1>2, <1>3, <1>4, <1>8, <2>2 DEF IsConfirmed
<1>9. CASE KindOf = "hip"
  <2>1. Op = "copy"
    BY <1>9, StepsOfKind DEF Op
  <2>2. <<This, "launch", "right">> \in given
    BY <2>1 DEF Accepts
  <2> QED
    BY <1>2, <1>3, <1>4, <1>9, <2>2 DEF IsConfirmed
<1> QED
  BY <1>1, <1>6, <1>7, <1>8, <1>9

\* A check that does not accept has an operation of the probe to blame, that
\* gave something else than the right values.
LEMMA Refused ==
    ASSUME TypeOK, PositionOK, CurrentOK, pc = "probe",
           NEW value \in Values(Op), NEW given,
           given = seen \cup {<<This, Op, value>>},
           ~Accepts(Op, given)
    PROVE  \E op \in Operation, outcome \in Outcome \ {"right"} : <<This, op, outcome>> \in given
<1>1. Op \in Operation /\ KindOf \in Kind /\ step \in 1..Len(StepsOf[KindOf])
  BY OpType
<1>2. value \in Outcome
  BY ValuesType
<1>3. CASE value # "right"
  BY <1>1, <1>2, <1>3
<1>4. CASE value = "right"
  <2> DEFINE basis == CASE Op = "sum" -> 1 [] OTHER -> 2
  <2>1. Op \in {"sum", "compare", "copy"}
    <3>1. <<This, Op, "right">> \in given
      BY <1>4
    <3>2. Op # "device"
      BY <3>1 DEF Accepts
    <3>3. Op \notin {"matmul", "gemm"}
      <4> SUFFICES ASSUME Op \in {"matmul", "gemm"} PROVE FALSE
        OBVIOUS
      <4>1. <<This, Op, "nonfinite">> \in given
        BY DEF Accepts
      <4>2. <<This, Op, "nonfinite">> \in seen
        BY <1>4, <4>1
      <4>3. PICK n \in 1..(step - 1) : StepsOf[KindOf][n] = Op
        BY <4>2 DEF CurrentOK
      <4> QED
        BY <4>3, OpType
    <3> QED
      BY <3>2, <3>3 DEF Accepts
  <2>2. basis \in 1..(step - 1)
    BY <1>1, <2>1, Kinds, StepsOfKind DEF Op
  <2>3. /\ StepsOf[KindOf][basis] =
              CASE Op = "sum" -> "create" [] Op = "compare" -> "add" [] OTHER -> "launch"
    BY <1>1, <2>1, Kinds, StepsOfKind DEF Op
  <2>4. <<This, StepsOf[KindOf][basis], "right">> \notin given
    BY <1>4, <2>1, <2>3 DEF Accepts
  <2>5. PICK v \in Values(StepsOf[KindOf][basis]) : <<This, StepsOf[KindOf][basis], v>> \in seen
    BY <2>2 DEF CurrentOK, IsOver
  <2>6. v \in Outcome \ {"right"} /\ StepsOf[KindOf][basis] \in Operation
    BY <1>1, <2>2, <2>4, <2>5, ValuesType, OpType, OperationOfKind
  <2> QED
    BY <2>5, <2>6
<1> QED
  BY <1>3, <1>4

\* A position that is behind is a number.
LEMMA BehindType ==
    ASSUME TypeOK
    PROVE  /\ Len(results) \in Nat
           /\ \A t \in seen : t[1] \in Nat
           /\ \A i \in faults : i \in Nat
<1>1. results \in Seq(Result) /\ Len(probes) \in Nat
  BY ProgramsAssumption DEF TypeOK
<1> QED
  BY <1>1 DEF TypeOK

\* A probe ends: the verdicts before it keep their grounds, since the program
\* has learnt of this probe alone, and its own verdict has its grounds.
LEMMA ConcludeStep ==
    ASSUME IInv, pc \in {"choose", "probe"}, UNCHANGED <<probes, dtypes, report, file>>,
           NEW dtype \in STRING \cup {NONE}, NEW verdict \in BOOLEAN \cup {NONE}, Conclude(dtype, verdict),
           step' \in Nat,
           seen' \subseteq (1..Len(probes)) \X Operation \X Outcome,
           gpu' \in {"ok", "faulted", "dead"},
           seen \subseteq seen', \A t \in seen' : t \in seen \/ t[1] = This,
           faults \subseteq faults', faults' \subseteq faults \cup {This},
           gpu' # "ok" => faults' # {},
           verdict = TRUE => IsConfirmed(This, KindOf, seen', faults'),
           verdict = FALSE =>
               \/ \E op \in Operation, outcome \in Outcome \ {"right"} : <<This, op, outcome>> \in seen'
               \/ faults # {}
               \/ This \in faults'
    PROVE  IInv'
<1>0. /\ TypeOK /\ PositionOK /\ ReportOK /\ BehindOK /\ CurrentOK /\ GpuOK
      /\ SupportedIsConfirmed /\ BlameHasACause
  BY DEF IInv
<1>1. /\ Len(results) < Len(probes) /\ This \in 1..Len(probes) /\ Len(results) \in Nat
      /\ Len(probes) \in Nat /\ This = Len(results) + 1
  BY <1>0, ThisType DEF PositionOK, This
<1>2. /\ results' \in Seq(Result)
      /\ Len(results') = This
      /\ results'[This].verdict = verdict
      /\ \A i \in 1..Len(results) : results'[i] = results[i]
      /\ pc' \in {"print", "choose"}
      /\ pc' = "print" => This = Len(probes)
      /\ pc' = "choose" => This < Len(probes)
  BY <1>0, <1>1, Concluded
<1>3. \A i \in 1..Len(results') : i \in 1..Len(results) \/ i = This
  BY <1>1, <1>2
<1>4. TypeOK'
  <2>1. faults' \subseteq 1..Len(probes)
    BY <1>0, <1>1 DEF TypeOK
  <2> QED
    BY <1>0, <1>2, <2>1 DEF TypeOK
<1>5. PositionOK'
  BY <1>1, <1>2 DEF PositionOK
<1>6. ReportOK'
  <2>1. report = NONE
    BY <1>0 DEF ReportOK
  <2> QED
    BY <1>0, <1>2, <2>1, MarksAssumption DEF ReportOK
<1>7. BehindOK'
  <2>1. \A t \in seen : t[1] <= This
    BY <1>0, <1>1, BehindType DEF BehindOK, IsBehind
  <2>2. \A i \in faults : i <= This
    BY <1>0, <1>1, BehindType DEF BehindOK, IsBehind
  <2>3. This <= This
    BY <1>1
  <2>4. (\A t \in seen' : t[1] <= Len(results')) /\ (\A i \in faults' : i <= Len(results'))
    BY <1>2, <2>1, <2>2, <2>3
  <2> QED
    BY <2>4 DEF BehindOK, IsBehind
<1>8. CurrentOK' /\ GpuOK'
  BY <1>2 DEF CurrentOK, GpuOK
<1>9. SupportedIsConfirmed'
  <2> SUFFICES ASSUME NEW i \in 1..Len(results'), results'[i].verdict = TRUE
               PROVE  IsConfirmed(i, probes[i].kind, seen', faults')
    BY DEF SupportedIsConfirmed, IsConfirmed
  <2>1. CASE i = This
    BY <1>2, <2>1 DEF KindOf
  <2>2. CASE i \in 1..Len(results)
    <3>1. IsConfirmed(i, probes[i].kind, seen, faults)
      BY <1>0, <1>2, <2>2 DEF SupportedIsConfirmed, IsConfirmed
    <3>2. i # This
      BY <1>1, <2>2
    <3> QED
      BY <3>1, <3>2, StaysConfirmed
  <2> QED
    BY <1>3, <2>1, <2>2
<1>10. BlameHasACause'
  <2> SUFFICES ASSUME NEW i \in 1..Len(results'), results'[i].verdict = FALSE
               PROVE  \/ \E op \in Operation, outcome \in Outcome \ {"right"} : <<i, op, outcome>> \in seen'
                      \/ i \in faults'
                      \/ \E j \in faults' : j < i /\ results'[j].verdict # TRUE
    BY DEF BlameHasACause
  <2>1. CASE i = This
    <3>1. ASSUME NEW j \in faults, j # This
          PROVE  j < This /\ results'[j].verdict # TRUE
      <4>1. j \in 1..Len(results)
        BY <1>0, <1>1, <3>1 DEF TypeOK, BehindOK, IsBehind
      <4>2. results[j].verdict # TRUE
        BY <1>0, <4>1 DEF SupportedIsConfirmed
      <4>3. results'[j] = results[j]
        BY <1>2, <4>1
      <4>4. j < This
        BY <1>1, <4>1
      <4> QED
        BY <4>2, <4>3, <4>4
    <3> QED
      BY <1>2, <2>1, <3>1
  <2>2. CASE i \in 1..Len(results)
    <3>1. \/ \E op \in Operation, outcome \in Outcome \ {"right"} : <<i, op, outcome>> \in seen
          \/ i \in faults
          \/ \E j \in faults : j < i /\ results[j].verdict # TRUE
      BY <1>0, <1>2, <2>2 DEF BlameHasACause
    <3>2. \A j \in faults : j < i => j \in 1..Len(results)
      BY <1>0, <1>1, <2>2 DEF TypeOK
    <3> QED
      BY <1>2, <3>1, <3>2
  <2> QED
    BY <1>3, <2>1, <2>2
<1> QED
  BY <1>4, <1>5, <1>6, <1>7, <1>8, <1>9, <1>10 DEF IInv

\* The program takes up the next probe, or passes over it.
LEMMA ChooseStep == IInv /\ Choose => IInv'
<1> SUFFICES ASSUME IInv, Choose PROVE IInv'
  OBVIOUS
<1>0. /\ TypeOK /\ PositionOK /\ ReportOK /\ BehindOK /\ GpuOK
      /\ SupportedIsConfirmed /\ BlameHasACause
  BY DEF IInv
<1>1. /\ pc = "choose" /\ step' = 1
      /\ UNCHANGED <<probes, dtypes, seen, gpu, faults, report, file>>
  BY DEF Choose
<1>2. CASE KindOf # "hip" /\ DtypeOf(probes[This]) = NONE
  <2>1. Conclude(NONE, NONE)
    BY <1>2 DEF Choose
  <2>2. NONE # TRUE /\ NONE # FALSE
    BY MarksAssumption
  <2> QED
    BY <1>0, <1>1, <2>1, <2>2, ConcludeStep DEF TypeOK, GpuOK
<1>3. CASE ~(KindOf # "hip" /\ DtypeOf(probes[This]) = NONE)
  <2>1. pc' = "probe" /\ results' = results /\ This' = This /\ KindOf' = KindOf
    BY <1>1, <1>3 DEF Choose, This, KindOf
  <2>2. /\ Len(results) < Len(probes) /\ KindOf \in Kind /\ This = Len(results) + 1 /\ Len(results) \in Nat
    BY <1>0, <1>1, ThisType DEF PositionOK, This
  <2>3. 1 \in 1..Len(StepsOf[KindOf])
    BY <2>2, Kinds, StepsOfKind
  <2>4. TypeOK'
    BY <1>0, <1>1, <2>1 DEF TypeOK
  <2>5. PositionOK'
    BY <1>1, <2>1, <2>2, <2>3 DEF PositionOK
  <2>6. ReportOK'
    BY <1>0, <1>1, <2>1 DEF ReportOK
  <2>7. \A t \in seen : t[1] <= Len(results)
    BY <1>0, <1>1 DEF BehindOK, IsBehind
  <2>8. \A i \in faults : i <= Len(results)
    BY <1>0, <1>1 DEF BehindOK, IsBehind
  <2>9. BehindOK'
    BY <1>1, <2>1, <2>7, <2>8 DEF BehindOK, IsBehind
  <2>10. CurrentOK'
    <3>1. This \notin faults /\ \A t \in seen : t[1] # This
      BY <1>0, <2>2, <2>7, <2>8, BehindType
    <3> QED
      BY <1>1, <2>1, <3>1 DEF CurrentOK
  <2>11. GpuOK' /\ SupportedIsConfirmed' /\ BlameHasACause'
    BY <1>0, <1>1, <2>1 DEF GpuOK, SupportedIsConfirmed, BlameHasACause
  <2> QED
    BY <2>4, <2>5, <2>6, <2>9, <2>10, <2>11 DEF IInv
<1> QED
  BY <1>2, <1>3

\* An operation of a probe returns, and the program goes on to the next one of
\* this probe or concludes.
LEMMA ReturnStep == IInv /\ Return => IInv'
<1> SUFFICES ASSUME IInv, Return PROVE IInv'
  OBVIOUS
<1>0. /\ TypeOK /\ PositionOK /\ ReportOK /\ BehindOK /\ CurrentOK /\ GpuOK
      /\ SupportedIsConfirmed /\ BlameHasACause
  BY DEF IInv
<1>1. /\ pc = "probe" /\ (Op \in Waits => gpu = "ok") /\ UNCHANGED <<probes, dtypes, report, file>>
  BY DEF Return
<1>2. PICK value \in Values(Op) : seen' = seen \cup {<<This, Op, value>>}
  BY DEF Return
<1>3. /\ Len(results) < Len(probes) /\ This \in 1..Len(probes) /\ KindOf \in Kind
      /\ step \in 1..Len(StepsOf[KindOf]) /\ step \in Nat /\ Op \in Operation
      /\ value \in Outcome /\ value # "raised"
      /\ DtypeOf(probes[This]) \in STRING \cup {NONE}
  BY <1>0, <1>1, OpType, ThisType, ValuesType
<1>4. /\ gpu' \in {"ok", "faulted", "dead"}
      /\ faults \subseteq faults' /\ faults' \subseteq faults \cup {This}
      /\ gpu' # "ok" => faults' # {}
      /\ This \in faults' => gpu' # "ok"
      /\ Op \in Waits => faults' = faults
  BY <1>0, <1>1 DEF Return, TypeOK, GpuOK, CurrentOK
<1>5. /\ seen \subseteq seen' /\ \A t \in seen' : t \in seen \/ t[1] = This
      /\ seen' \subseteq (1..Len(probes)) \X Operation \X Outcome
  BY <1>0, <1>2, <1>3 DEF TypeOK
<1>6. CASE Accepts(Op, seen') /\ step < Len(StepsOf[KindOf])
  <2>1. /\ step' = step + 1 /\ pc' = "probe" /\ results' = results
        /\ This' = This /\ KindOf' = KindOf
    BY <1>1, <1>6 DEF Return, This, KindOf
  <2>2. step' \in 1..Len(StepsOf[KindOf]) /\ step' \in Nat /\ step' - 1 = step
    BY <1>3, <1>6, <2>1, Kinds, StepsOfKind
  <2>3. TypeOK'
    <3>1. faults' \subseteq 1..Len(probes)
      BY <1>0, <1>3, <1>4 DEF TypeOK
    <3> QED
      BY <1>0, <1>1, <1>4, <1>5, <2>1, <2>2, <3>1 DEF TypeOK
  <2>4. PositionOK'
    BY <1>0, <1>1, <1>3, <2>1, <2>2 DEF PositionOK
  <2>5. ReportOK'
    BY <1>0, <1>1, <2>1 DEF ReportOK
  <2>6. BehindOK'
    BY <1>0, <1>1, <1>4, <1>5, <2>1 DEF BehindOK, IsBehind
  <2>7. CurrentOK'
    <3>1. ASSUME NEW n \in 1..step PROVE IsOver(StepsOf[KindOf][n])'
      <4>1. CASE n = step
        <5>1. StepsOf[KindOf][n] = Op
          BY <4>1 DEF Op
        <5>2. Accepts(Op, seen') /\ <<This, Op, value>> \in seen'
          BY <1>2, <1>6
        <5> QED
          BY <2>1, <5>1, <5>2 DEF IsOver, Accepts, Values
      <4>2. CASE n # step
        <5> DEFINE op == StepsOf[KindOf][n]
        <5>1. n \in 1..(step - 1) /\ op # Op
          BY <1>0, <1>1, <1>3, <4>2, OpType
        <5>2. Accepts(op, seen) /\ \E v \in Values(op) : <<This, op, v>> \in seen
          BY <1>0, <1>1, <5>1 DEF CurrentOK, IsOver
        <5>3. Accepts(op, seen')
          BY <1>2, <5>1, <5>2, AcceptsMore
        <5> QED
          BY <1>5, <2>1, <5>2, <5>3 DEF IsOver, Accepts, Values
      <4> QED
        BY <4>1, <4>2
    <3>2. ASSUME NEW t \in seen', t[1] = This
          PROVE  t[3] # "raised" /\ \E n \in 1..step : t[2] = StepsOf[KindOf][n]
      <4>1. CASE t \in seen
        <5>1. t[3] # "raised" /\ \E n \in 1..(step - 1) : t[2] = StepsOf[KindOf][n]
          BY <1>0, <1>1, <3>2, <4>1 DEF CurrentOK
        <5> QED
          BY <1>3, <5>1
      <4>2. CASE t = <<This, Op, value>>
        BY <1>3, <4>2 DEF Op
      <4> QED
        BY <1>2, <4>1, <4>2
    <3> QED
      BY <1>4, <2>1, <2>2, <3>1, <3>2 DEF CurrentOK
  <2>8. GpuOK'
    BY <1>4 DEF GpuOK
  <2>9. SupportedIsConfirmed'
    <3> SUFFICES ASSUME NEW i \in 1..Len(results), results[i].verdict = TRUE
                 PROVE  IsConfirmed(i, probes[i].kind, seen', faults')
      BY <1>1, <2>1 DEF SupportedIsConfirmed, IsConfirmed
    <3>1. IsConfirmed(i, probes[i].kind, seen, faults)
      BY <1>0 DEF SupportedIsConfirmed, IsConfirmed
    <3>2. i # This
      BY <1>0, BehindType DEF This
    <3> QED
      BY <1>4, <1>5, <3>1, <3>2, StaysConfirmed
  <2>10. BlameHasACause'
    BY <1>0, <1>1, <1>4, <1>5, <2>1 DEF BlameHasACause
  <2> QED
    BY <2>3, <2>4, <2>5, <2>6, <2>7, <2>8, <2>9, <2>10 DEF IInv
<1>7. CASE ~(Accepts(Op, seen') /\ step < Len(StepsOf[KindOf]))
  <2> DEFINE verdict == Verdict(Accepts(Op, seen'))
  <2>1. Conclude(DtypeOf(probes[This]), verdict) /\ step' = step
    BY <1>7 DEF Return
  <2>2. verdict \in BOOLEAN \cup {NONE}
    BY DEF Verdict
  <2>3. ASSUME verdict = TRUE PROVE IsConfirmed(This, KindOf, seen', faults')
    <3>1. Accepts(Op, seen') /\ KindOf # "narrow"
      BY <2>3, MarksAssumption DEF Verdict
    <3>2. step = Len(StepsOf[KindOf])
      BY <1>3, <1>7, <3>1, Kinds, StepsOfKind
    <3>3. IsConfirmed(This, KindOf, seen', faults) /\ Op \in Waits
      BY <1>0, <1>1, <1>2, <3>1, <3>2, Confirmed
    <3> QED
      BY <1>4, <3>3
  <2>4. ASSUME verdict = FALSE
        PROVE  \E op \in Operation, outcome \in Outcome \ {"right"} : <<This, op, outcome>> \in seen'
    <3>1. ~Accepts(Op, seen')
      BY <2>4, MarksAssumption DEF Verdict
    <3> QED
      BY <1>0, <1>1, <1>2, <3>1, Refused
  <2> HIDE DEF verdict
  <2> QED
    BY <1>1, <1>3, <1>4, <1>5, <2>1, <2>2, <2>3, <2>4, ConcludeStep
<1> QED
  BY <1>6, <1>7

\* An operation raises, and its handler concludes, or there is no handler.
LEMMA ExceptStep == IInv /\ Except => IInv'
<1> SUFFICES ASSUME IInv, Except PROVE IInv'
  OBVIOUS
<1>0. /\ TypeOK /\ PositionOK /\ ReportOK /\ BehindOK /\ CurrentOK /\ GpuOK
      /\ SupportedIsConfirmed /\ BlameHasACause
  BY DEF IInv
<1>1. /\ pc = "probe" /\ UNCHANGED <<probes, dtypes, step, report, file>>
      /\ Rejected \/ Faulted \/ FaultedBefore
  BY DEF Except
<1>2. /\ Len(results) < Len(probes) /\ This \in 1..Len(probes) /\ step \in Nat /\ Op \in Operation
      /\ DtypeOf(probes[This]) \in STRING \cup {NONE}
  BY <1>0, <1>1, OpType, ThisType
<1>3. seen' = seen \/ seen' = seen \cup {<<This, Op, "raised">>}
  BY <1>1 DEF Rejected, Faulted, FaultedBefore
<1>4. /\ seen \subseteq seen' /\ \A t \in seen' : t \in seen \/ t[1] = This
      /\ seen' \subseteq (1..Len(probes)) \X Operation \X Outcome
  BY <1>0, <1>2, <1>3 DEF TypeOK, Outcome
<1>5. /\ gpu' \in {"ok", "faulted", "dead"}
      /\ faults \subseteq faults' /\ faults' \subseteq faults \cup {This}
      /\ gpu' # "ok" => faults' # {}
  BY <1>0, <1>1 DEF Rejected, Faulted, FaultedBefore, TypeOK, GpuOK
<1>6. \/ \E op \in Operation, outcome \in Outcome \ {"right"} : <<This, op, outcome>> \in seen'
      \/ faults # {}
      \/ This \in faults'
  <2>1. CASE Rejected
    <3>1. <<This, Op, "raised">> \in seen' /\ "raised" \in Outcome \ {"right"}
      BY <2>1 DEF Rejected, Outcome
    <3> QED
      BY <1>2, <3>1
  <2>2. CASE Faulted
    BY <2>2 DEF Faulted
  <2>3. CASE FaultedBefore
    BY <1>0, <2>3 DEF FaultedBefore, GpuOK
  <2> QED
    BY <1>1, <2>1, <2>2, <2>3
<1>7. CASE KindOf = "fp8" /\ Op = "scale"
  <2>1. pc' = "raised" /\ results' = results
    BY <1>7 DEF Except
  <2>2. TypeOK'
    <3>1. faults' \subseteq 1..Len(probes)
      BY <1>0, <1>2, <1>5 DEF TypeOK
    <3> QED
      BY <1>0, <1>1, <1>4, <1>5, <2>1, <3>1 DEF TypeOK
  <2>3. PositionOK' /\ BehindOK' /\ CurrentOK' /\ GpuOK'
    BY <1>5, <2>1 DEF PositionOK, BehindOK, CurrentOK, GpuOK
  <2>4. ReportOK'
    BY <1>0, <1>1, <2>1 DEF ReportOK
  <2>5. SupportedIsConfirmed'
    <3> SUFFICES ASSUME NEW i \in 1..Len(results), results[i].verdict = TRUE
                 PROVE  IsConfirmed(i, probes[i].kind, seen', faults')
      BY <1>1, <2>1 DEF SupportedIsConfirmed, IsConfirmed
    <3>1. IsConfirmed(i, probes[i].kind, seen, faults)
      BY <1>0 DEF SupportedIsConfirmed, IsConfirmed
    <3>2. i # This
      BY <1>0, BehindType DEF This
    <3> QED
      BY <1>4, <1>5, <3>1, <3>2, StaysConfirmed
  <2>6. BlameHasACause'
    BY <1>0, <1>1, <1>4, <1>5, <2>1 DEF BlameHasACause
  <2> QED
    BY <2>2, <2>3, <2>4, <2>5, <2>6 DEF IInv
<1>8. CASE ~(KindOf = "fp8" /\ Op = "scale")
  <2> DEFINE verdict == IF KindOf = "fp8" /\ Op = "create" THEN NONE ELSE FALSE
  <2>1. Conclude(DtypeOf(probes[This]), verdict)
    BY <1>8 DEF Except
  <2>2. verdict \in BOOLEAN \cup {NONE} /\ verdict # TRUE
    BY MarksAssumption
  <2> HIDE DEF verdict
  <2> QED
    BY <1>1, <1>2, <1>4, <1>5, <1>6, <2>1, <2>2, ConcludeStep
<1> QED
  BY <1>7, <1>8

\* What is left once the probes are over: the report is printed and written.
LEMMA ReportStep == IInv /\ (Start \/ PrintReport \/ Open \/ Write \/ WriteFails) => IInv'
<1> SUFFICES ASSUME IInv, Start \/ PrintReport \/ Open \/ Write \/ WriteFails PROVE IInv'
  OBVIOUS
<1> USE DEF Start, PrintReport, Open, Write, WriteFails
<1>0. /\ TypeOK /\ PositionOK /\ ReportOK /\ BehindOK /\ CurrentOK /\ GpuOK
      /\ SupportedIsConfirmed /\ BlameHasACause
  BY DEF IInv
<1>1. /\ UNCHANGED <<probes, dtypes, step, seen, gpu, faults, results>>
      /\ pc # "probe" /\ pc # "raised" /\ pc' # "probe"
      /\ pc' \in {"choose", "raised", "open", "done", "write"}
  OBVIOUS
<1>2. CASE PrintReport
  <2>1. PICK id \in DetectPciDeviceId : report' = [pci_device_id |-> id, results |-> results]
    BY <1>2
  <2>2. report' \in Report /\ report'.results = results /\ Len(results) = Len(probes)
    BY <1>0, <1>2, <2>1 DEF DetectPciDeviceId, Report, TypeOK, PositionOK
  <2>3. report' # NONE /\ report = NONE /\ file = NONE /\ file' = NONE /\ pc' \in {"open", "done"}
    BY <1>0, <1>2, <2>2, MarksAssumption DEF ReportOK
  <2>4. TypeOK'
    BY <1>0, <1>1, <2>2, <2>3 DEF TypeOK
  <2>5. PositionOK'
    BY <1>1, <2>2, <2>3 DEF PositionOK
  <2>6. ReportOK'
    BY <1>1, <2>2, <2>3, MarksAssumption DEF ReportOK
  <2> QED
    BY <1>0, <1>1, <2>4, <2>5, <2>6
    DEF IInv, BehindOK, IsBehind, CurrentOK, GpuOK, SupportedIsConfirmed, BlameHasACause
<1>3. CASE Start \/ Open \/ Write \/ WriteFails
  <2>1. report' = report
    BY <1>3
  <2>2. TypeOK'
    BY <1>0, <1>1, <1>3 DEF TypeOK
  <2>3. PositionOK'
    BY <1>0, <1>1, <1>3 DEF PositionOK
  <2>4. ReportOK'
    <3>1. report # Torn
      BY <1>0, MarksAssumption DEF TypeOK
    <3> QED
      BY <1>0, <1>1, <1>3, <3>1, MarksAssumption DEF ReportOK, PositionOK
  <2> QED
    BY <1>0, <1>1, <2>2, <2>3, <2>4
    DEF IInv, BehindOK, IsBehind, CurrentOK, GpuOK, SupportedIsConfirmed, BlameHasACause
<1> QED
  BY <1>2, <1>3

\* Nothing has been asked of the GPU at first.
LEMMA IInit == Init => IInv
<1> SUFFICES ASSUME Init PROVE IInv
  OBVIOUS
<1>1. probes \in Seq([dtypes : Seq(STRING), kind : Kind]) /\ probes # <<>>
  BY ProgramsAssumption DEF Init
<1>2. Len(probes) \in Nat /\ Len(probes) # 0
  BY <1>1, EmptySeq
<1>3. DtypesOf(probes) \subseteq STRING
  <2> SUFFICES ASSUME NEW i \in 1..Len(probes), NEW n \in 1..Len(probes[i].dtypes)
               PROVE  probes[i].dtypes[n] \in STRING
    BY DEF DtypesOf
  <2>1. probes[i] \in [dtypes : Seq(STRING), kind : Kind]
    BY <1>1, ElementOfSeq
  <2> QED
    BY <2>1, ElementOfSeq
<1>4. TypeOK
  <2>1. results \in Seq(Result)
    BY DEF Init
  <2>2. dtypes \subseteq STRING
    BY <1>3 DEF Init
  <2> QED
    BY <2>1, <2>2 DEF Init, TypeOK
<1>5. Len(results) = 0 /\ pc = "start" /\ report = NONE /\ file = NONE
  BY DEF Init
<1>6. PositionOK
  BY <1>2, <1>5 DEF PositionOK
<1>7. ReportOK
  BY <1>5, MarksAssumption DEF ReportOK
<1>8. BehindOK /\ CurrentOK /\ GpuOK
  BY DEF Init, BehindOK, CurrentOK, GpuOK
<1>9. SupportedIsConfirmed /\ BlameHasACause
  BY <1>5 DEF SupportedIsConfirmed, BlameHasACause
<1> QED
  BY <1>4, <1>6, <1>7, <1>8, <1>9 DEF IInv

\* The inductive invariant is kept by every step.
LEMMA IStep == IInv /\ [Next]_vars => IInv'
<1> SUFFICES ASSUME IInv, [Next]_vars PROVE IInv'
  OBVIOUS
<1>1. CASE Choose
  BY <1>1, ChooseStep
<1>2. CASE Return
  BY <1>2, ReturnStep
<1>3. CASE Except
  BY <1>3, ExceptStep
<1>4. CASE Start \/ PrintReport \/ Open \/ Write \/ WriteFails
  BY <1>4, ReportStep
<1>5. CASE UNCHANGED vars
  <2> USE <1>5 DEF vars
  <2>1. TypeOK => TypeOK'
    BY DEF TypeOK
  <2>2. PositionOK => PositionOK'
    BY DEF PositionOK, KindOf, This
  <2>3. ReportOK => ReportOK'
    BY DEF ReportOK
  <2>4. BehindOK => BehindOK'
    BY DEF BehindOK, IsBehind, This
  <2>5. CurrentOK => CurrentOK'
    <3>1. \A op : IsOver(op) => IsOver(op)'
      BY DEF IsOver, Accepts, Values, This
    <3> QED
      BY <3>1 DEF CurrentOK, KindOf, This
  <2>6. GpuOK => GpuOK'
    BY DEF GpuOK
  <2>7. SupportedIsConfirmed => SupportedIsConfirmed'
    BY DEF SupportedIsConfirmed
  <2>8. BlameHasACause => BlameHasACause'
    BY DEF BlameHasACause
  <2> QED
    BY <2>1, <2>2, <2>3, <2>4, <2>5, <2>6, <2>7, <2>8 DEF IInv
<1> QED
  BY <1>1, <1>2, <1>3, <1>4, <1>5 DEF Next

\* A report that is printed is whole because every verdict in it has its
\* grounds: a probe with neither an operation nor a fault has none.
LEMMA WholeReport == IInv => ReportIsWhole
<1> SUFFICES ASSUME IInv PROVE ReportIsWhole
  OBVIOUS
<1>0. TypeOK /\ ReportOK /\ SupportedIsConfirmed /\ BlameHasACause
  BY DEF IInv
<1>1. ASSUME report # NONE, NEW i \in 1..Len(probes),
             \A op \in Operation, outcome \in Outcome : <<i, op, outcome>> \notin seen,
             report.results[i].verdict # NONE
      PROVE  faults \cap (1..i) # {}
  <2>1. i \in 1..Len(results) /\ results \in Seq(Result) /\ results[i].verdict # NONE
    BY <1>0, <1>1 DEF ReportOK, TypeOK
  <2>2. results[i].verdict \in BOOLEAN
    <3>1. results[i] \in Result
      BY <2>1, ElementOfSeq
    <3> QED
      BY <2>1, <3>1 DEF Result
  <2>3. results[i].verdict # TRUE
    <3> SUFFICES ASSUME results[i].verdict = TRUE PROVE FALSE
      OBVIOUS
    <3>1. IsConfirmed(i, probes[i].kind, seen, faults)
      BY <1>0, <2>1 DEF SupportedIsConfirmed, IsConfirmed
    <3>2. probes[i].kind \in Kind
      <4>1. probes \in Seq([dtypes : Seq(STRING), kind : Kind])
        BY <1>0, ProgramsAssumption DEF TypeOK
      <4>2. probes[i] \in [dtypes : Seq(STRING), kind : Kind]
        BY <4>1, ElementOfSeq
      <4> QED
        BY <4>2
    <3>3. \E op, outcome : <<i, op, outcome>> \in seen
      BY <3>1, <3>2, Kinds DEF IsConfirmed
    <3> QED
      BY <1>0, <1>1, <3>3 DEF TypeOK
  <2>4. results[i].verdict = FALSE
    BY <2>2, <2>3
  <2>5. i \in faults \/ \E j \in faults : j < i
    BY <1>0, <1>1, <2>1, <2>4 DEF BlameHasACause
  <2>6. \A j \in faults : j \in 1..Len(probes)
    BY <1>0 DEF TypeOK
  <2> QED
    BY <2>5, <2>6
<1>2. report # NONE => Len(report.results) = Len(probes)
  BY <1>0 DEF ReportOK
<1>3. file \in {NONE, Torn, report} /\ (file = Torn => report # NONE /\ pc \in {"write", "raised"})
  BY <1>0, MarksAssumption DEF ReportOK
<1> QED
  BY <1>1, <1>2, <1>3 DEF ReportIsWhole

\* The state of a program has its type, whatever it is given to probe.
THEOREM TypeCorrect == Spec => []TypeOK
<1>1. IInv => TypeOK
  BY DEF IInv
<1> QED
  BY <1>1, IInit, IStep, PTL DEF Spec

\* For any list of probes: SUPPORTED is said of a type only when the GPU was
\* waited for, has not faulted for it, and gave the values that are checked
\* (test_dtype of the Python program, run_probe of the HIP program).
THEOREM SupportedIsConfirmedHolds == Spec => []SupportedIsConfirmed
<1>1. IInv => SupportedIsConfirmed
  BY DEF IInv
<1> QED
  BY <1>1, IInit, IStep, PTL DEF Spec

\* For any list of probes: NOT SUPPORTED is said of a type only for what its
\* own operations gave, or for a fault that it or an earlier probe left.
THEOREM BlameHasACauseHolds == Spec => []BlameHasACause
<1>1. IInv => BlameHasACause
  BY DEF IInv
<1> QED
  BY <1>1, IInit, IStep, PTL DEF Spec

\* A report that is printed has every probe's result, and what is written is
\* what was printed: main().
THEOREM ReportIsWholeHolds == Spec => []ReportIsWhole
  BY WholeReport, IInit, IStep, PTL DEF Spec

=============================================================================
