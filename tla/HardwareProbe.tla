---------------------------- MODULE HardwareProbe ----------------------------
(***************************************************************************)
(* The two programs that probe a GPU for data types, one operation of a    *)
(* probe to a step: validate_precision_support.py and, as the kind "hip",  *)
(* its HIP C++ companion.  The GPU runs what is enqueued behind the        *)
(* program's back: a kernel's fault shows at a later operation, which may  *)
(* belong to another type.                                                 *)
(***************************************************************************)
EXTENDS Naturals, Sequences

CONSTANTS
    Programs,   \* the PROBES of each program: [dtypes, kind] in order
    Card,       \* PCI device ids of the GPUs
    NONE,       \* Python's None; no file
    Torn        \* the output file truncated or partly written

\* Mutant: an int probe ends before its kernels have.
StepsOfHasty ==
    [int    |-> <<"create", "add", "device">>,
     float  |-> <<"create", "add", "device", "matmul", "compare">>,
     fp8    |-> <<"create", "scale", "gemm">>,
     narrow |-> <<"create">>,
     hip    |-> <<"malloc", "launch", "sync", "copy">>]

\* The operations of each kind of probe, in order.
StepsOf ==
    [int    |-> <<"create", "add", "device", "sum", "compare">>,
     float  |-> <<"create", "add", "device", "matmul", "compare">>,
     fp8    |-> <<"create", "scale", "gemm">>,
     narrow |-> <<"create">>,
     hip    |-> <<"malloc", "launch", "sync", "copy">>]

Kind == DOMAIN StepsOf
Operation == UNION {{StepsOf[kind][n] : n \in 1..Len(StepsOf[kind])} : kind \in Kind}

\* PROBES is a literal with something in it.
ASSUME ProgramsAssumption ==
    Programs \subseteq Seq([dtypes : Seq(STRING), kind : Kind]) \ {<<>>}

\* Operations that launch kernels, and those that wait for all that were
\* launched.  The others ask the GPU for no computation.
Launches == Operation \ {"device", "malloc", "sync", "copy"}
Waits == {"sum", "matmul", "gemm", "compare", "sync", "copy"}

\* What an operation gives: right values, wrong ones, or none that are finite;
\* or it raises on its own account.
Values(op) ==
    CASE op \in {"malloc", "sync", "scale"} -> {"right"}
      [] op \in {"matmul", "gemm"}          -> {"right", "wrong", "nonfinite"}
      [] OTHER                              -> {"right", "wrong"}

Outcome == {"right", "wrong", "nonfinite", "raised"}

VARIABLES
    probes,    \* the program's PROBES
    dtypes,    \* the dtypes that this build of PyTorch has
    pc,        \* what the program does next
    step,      \* the position in the operations of the current probe
    seen,      \* <<probe, operation, outcome>> of all operations so far
    gpu,       \* "ok", "faulted" before anybody has noticed, or "dead"
    faults,    \* the probes with a kernel that faulted
    results,   \* dtype and verdict of the probes that are over
    report,    \* the report, once printed
    file       \* the --output file

vars == <<probes, dtypes, pc, step, seen, gpu, faults, results, report, file>>

Result == [dtype : STRING \cup {NONE}, verdict : BOOLEAN \cup {NONE}]
Report == [pci_device_id : Card \cup {NONE}, results : Seq(Result)]

ASSUME MarksAssumption ==
    /\ NONE \notin BOOLEAN \cup Report
    /\ Torn \notin {NONE} \cup Report

TypeOK ==
    /\ probes \in Programs
    /\ dtypes \subseteq STRING
    /\ pc \in {"start", "choose", "probe", "print", "open", "write", "done", "raised"}
    /\ step \in Nat
    /\ seen \subseteq (1..Len(probes)) \X Operation \X Outcome
    /\ gpu \in {"ok", "faulted", "dead"}
    /\ faults \subseteq 1..Len(probes)
    /\ results \in Seq(Result)
    /\ report \in Report \cup {NONE}
    /\ file \in Report \cup {NONE, Torn}

DtypesOf(program) == UNION {{program[i].dtypes[n] : n \in 1..Len(program[i].dtypes)} : i \in 1..Len(program)}

Init ==
    /\ probes \in Programs
    /\ dtypes \in SUBSET DtypesOf(probes)
    /\ pc = "start"
    /\ step = 1
    /\ seen = {}
    /\ gpu = "ok"
    /\ faults = {}
    /\ results = <<>>
    /\ report = NONE
    /\ file = NONE

This == Len(results) + 1
KindOf == probes[This].kind
Op == StepsOf[KindOf][step]

-----------------------------------------------------------------------------
\* import torch and is_available(), or hipGetDeviceProperties: there is a GPU
\* to probe, or the program says so and exits.
Start ==
    /\ pc = "start"
    /\ pc' \in {"choose", "raised"}
    /\ UNCHANGED <<probes, dtypes, step, seen, gpu, faults, results, report, file>>

Conclude(dtype, verdict) ==
    /\ results' = Append(results, [dtype |-> dtype, verdict |-> verdict])
    /\ pc' = IF This = Len(probes) THEN "print" ELSE "choose"

\* The dtypes of a probe that this build has.
Existing(spec) == {n \in 1..Len(spec.dtypes) : spec.dtypes[n] \in dtypes}

\* getattr() finds the first of them, or none.
DtypeOf(spec) ==
    IF Existing(spec) = {} THEN NONE
    ELSE spec.dtypes[CHOOSE n \in Existing(spec) : \A m \in Existing(spec) : n <= m]

Choose ==
    /\ pc = "choose"
    /\ step' = 1
    /\ IF KindOf # "hip" /\ DtypeOf(probes[This]) = NONE
         THEN Conclude(NONE, NONE)
         ELSE pc' = "probe" /\ UNCHANGED results
    /\ UNCHANGED <<probes, dtypes, seen, gpu, faults, report, file>>

\* Mutant: an operation is fine when it has not raised.
AcceptsAnything(op, given) == TRUE

\* The check behind an operation of the current probe, given what each of its
\* operations has given: a matrix product and a GEMM have to be finite, the
\* sum is compared with 136, the addition with twice the operand.
Accepts(op, given) ==
    LET right(o) == <<This, o, "right">> \in given
    IN  CASE op = "device"             -> right(op)
          [] op = "sum"                -> right("create") /\ right(op)
          [] op \in {"matmul", "gemm"} -> <<This, op, "nonfinite">> \notin given
          [] op = "compare"            -> right("add") /\ right(op)
          [] op = "copy"               -> right("launch") /\ right(op)
          [] OTHER                     -> TRUE

Verdict(accepted) ==
    IF ~accepted THEN FALSE ELSE IF KindOf = "narrow" THEN NONE ELSE TRUE

\* An operation returns.  One that waits returns only if no kernel faulted;
\* a kernel that was only launched may fault behind the program's back.
Return ==
    /\ pc = "probe"
    /\ gpu # "dead"
    /\ Op \in Waits => gpu = "ok"
    /\ \E value \in Values(Op) : seen' = seen \cup {<<This, Op, value>>}
    /\ \/ UNCHANGED <<gpu, faults>>
       \/ /\ Op \in Launches \ Waits
          /\ gpu' = "faulted"
          /\ faults' = faults \cup {This}
    /\ IF Accepts(Op, seen') /\ step < Len(StepsOf[KindOf])
         THEN step' = step + 1 /\ UNCHANGED <<pc, results>>
         ELSE UNCHANGED step /\ Conclude(DtypeOf(probes[This]), Verdict(Accepts(Op, seen')))
    /\ UNCHANGED <<probes, dtypes, report, file>>

\* Why an operation raises: this build has no such kernel, its own kernel
\* faulted, or an earlier one had.  A fault that was noticed may be over.
Rejected == gpu # "dead" /\ seen' = seen \cup {<<This, Op, "raised">>} /\ UNCHANGED <<gpu, faults>>

Faulted ==
    /\ gpu = "ok"
    /\ Op \in Launches
    /\ faults' = faults \cup {This}
    /\ gpu' \in {"ok", "dead"}
    /\ UNCHANGED seen

FaultedBefore ==
    /\ gpu # "ok"
    /\ gpu' = "dead" \/ (gpu = "faulted" /\ gpu' = "ok")
    /\ UNCHANGED <<seen, faults>>

\* Mutant: when nothing catches it, what there is is reported.
ExceptReports ==
    /\ pc = "probe"
    /\ Op # "device"
    /\ Rejected \/ Faulted \/ FaultedBefore
    /\ IF KindOf = "fp8" /\ Op = "scale"
         THEN pc' = "print" /\ UNCHANGED results
         ELSE Conclude(DtypeOf(probes[This]), IF KindOf = "fp8" /\ Op = "create" THEN NONE ELSE FALSE)
    /\ UNCHANGED <<probes, dtypes, step, report, file>>

\* In an fp8 probe a failed creation is no verdict, and the scale is created
\* outside of both try statements: nothing catches what it raises.  The HIP
\* program does not look at the code of its copy, whose failure leaves a value
\* that is not the one expected, and what it reads behind the launch may be the
\* code of an earlier call: the verdict is the same FAIL.
Except ==
    /\ pc = "probe"
    /\ Op # "device"
    /\ Rejected \/ Faulted \/ FaultedBefore
    /\ IF KindOf = "fp8" /\ Op = "scale"
         THEN pc' = "raised" /\ UNCHANGED results
         ELSE Conclude(DtypeOf(probes[This]), IF KindOf = "fp8" /\ Op = "create" THEN NONE ELSE FALSE)
    /\ UNCHANGED <<probes, dtypes, step, report, file>>

\* The id of the first GPU that amd-smi lists, which need not be the one that
\* is probed, or none on any failure.
DetectPciDeviceId == Card \cup {NONE}

\* Mutant: without an id the report has no such key.
PrintReportWithoutId ==
    /\ pc = "print"
    /\ \/ \E id \in Card : report' = [pci_device_id |-> id, results |-> results]
       \/ report' = [results |-> results]
    /\ pc' \in (IF probes[1].kind = "hip" THEN {"done"} ELSE {"open", "done"})
    /\ UNCHANGED <<probes, dtypes, step, seen, gpu, faults, results, file>>

\* The report is put together and printed.  The HIP program takes no --output;
\* it has printed each verdict already, when its probe was over, and has no id
\* to print: its report stands for those lines.
PrintReport ==
    /\ pc = "print"
    /\ \E id \in DetectPciDeviceId : report' = [pci_device_id |-> id, results |-> results]
    /\ pc' \in (IF probes[1].kind = "hip" THEN {"done"} ELSE {"open", "done"})
    /\ UNCHANGED <<probes, dtypes, step, seen, gpu, faults, results, file>>

\* write_text empties the file, and then writes.
Open ==
    /\ pc = "open"
    /\ file' = Torn
    /\ pc' = "write"
    /\ UNCHANGED <<probes, dtypes, step, seen, gpu, faults, results, report>>

Write ==
    /\ pc = "write"
    /\ file' = report
    /\ pc' = "done"
    /\ UNCHANGED <<probes, dtypes, step, seen, gpu, faults, results, report>>

\* The file cannot be opened or written.
WriteFails ==
    /\ pc \in {"open", "write"}
    /\ pc' = "raised"
    /\ UNCHANGED <<probes, dtypes, step, seen, gpu, faults, results, report, file>>

Next == Start \/ Choose \/ Return \/ Except \/ PrintReport \/ Open \/ Write \/ WriteFails

Spec == Init /\ [][Next]_vars

-----------------------------------------------------------------------------
\* SUPPORTED, or PASS, is a claim of the GPU: no operation of the probe was
\* rejected, none of its kernels faulted, then or later, its computation was
\* waited for, and its values are right where the program knows what is right
\* and finite where it does not.
SupportedIsConfirmed ==
    \A i \in 1..Len(results) :
        results[i].verdict = TRUE =>
            LET gave(op, value) == <<i, op, value>> \in seen
                kind == probes[i].kind
            IN  /\ i \notin faults
                /\ ~\E op \in Operation : gave(op, "raised")
                /\ kind \in {"int", "float"} => gave("add", "right") /\ gave("device", "right")
                /\ kind = "int" => gave("create", "right")
                /\ kind = "float" => gave("matmul", "right") \/ gave("matmul", "wrong")
                /\ kind = "fp8" => gave("gemm", "right") \/ gave("gemm", "wrong")
                /\ kind = "hip" => gave("launch", "right")
                /\ kind # "narrow"

\* NOT SUPPORTED, or FAIL, has a cause: an operation of the probe itself that
\* was rejected, was wrong or faulted; or a fault that an earlier probe left
\* behind, and then that one is not called SUPPORTED.
BlameHasACause ==
    \A i \in 1..Len(results) :
        results[i].verdict = FALSE =>
            \/ \E op \in Operation, outcome \in Outcome \ {"right"} : <<i, op, outcome>> \in seen
            \/ i \in faults
            \/ \E j \in faults : j < i /\ results[j].verdict # TRUE

\* A report has the result of every probe, and a probe that nothing could be
\* tried for says so; a run that raises on the way reports nothing, and what
\* it writes is what it has printed.
ReportIsWhole ==
    /\ report # NONE =>
          /\ Len(report.results) = Len(probes)
          /\ \A i \in 1..Len(probes) :
                (\A op \in Operation, outcome \in Outcome : <<i, op, outcome>> \notin seen) =>
                    report.results[i].verdict = NONE \/ faults \cap (1..i) # {}
    /\ file \in {NONE, Torn, report}
    /\ file = Torn => report # NONE /\ pc \in {"write", "raised"}

=============================================================================
