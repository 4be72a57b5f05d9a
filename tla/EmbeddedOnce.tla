----------------------------- MODULE EmbeddedOnce -----------------------------
(***************************************************************************)
(* embedded() of the three bindings, called by several threads: a mutex    *)
(* around a test for None (Python), a OnceLock (Rust) and a sync.Once (Go).*)
(* They share a shape: look whether it is done, wait for the owner, look   *)
(* again, parse as the owner; the differences are named below.             *)
(***************************************************************************)
EXTENDS Naturals

CONSTANTS
    Thread,
    NIL,         \* no catalog, no owner
    FAILED,      \* the call raised or panicked
    Case,        \* the bindings and whether their embedded file parses
    MaxCalls     \* bound on the calls of each thread

Bindings == {"python", "rust", "go"}

ASSUME CaseAssumption == Case \subseteq [binding : Bindings, parses : BOOLEAN]
ASSUME BoundAssumption == MaxCalls \in Nat
ASSUME MarksAssumption == NIL # FAILED /\ {NIL, FAILED} \cap Nat = {} /\ NIL \notin Thread

VARIABLES
    case,       \* the binding that runs, and whether its file parses
    cell,       \* _embedded_catalog, the OnceLock's value, embeddedCatalog
    done,       \* no call will parse any more
    owner,      \* the thread inside the lock
    pc,         \* what each thread does next
    result,     \* what each thread's last call gave
    calls,      \* the calls each thread has made
    parsed      \* how many times the file was parsed; names the catalogs

vars == <<case, cell, done, owner, pc, result, calls, parsed>>

TypeOK ==
    /\ case \in Case
    /\ cell \in Nat \cup {NIL}
    /\ done \in BOOLEAN
    /\ owner \in Thread \cup {NIL}
    /\ pc \in [Thread -> {"idle", "look", "wait", "parse"}]
    /\ result \in [Thread -> Nat \cup {NIL, FAILED}]
    /\ calls \in [Thread -> 0..MaxCalls]
    /\ parsed \in Nat

Init ==
    /\ case \in Case
    /\ cell = NIL
    /\ done = FALSE
    /\ owner = NIL
    /\ pc = [t \in Thread |-> "idle"]
    /\ result = [t \in Thread |-> NIL]
    /\ calls = [t \in Thread |-> 0]
    /\ parsed = 0

-----------------------------------------------------------------------------
\* Python takes its lock before it looks; the others look first.
LooksFirst == case.binding \in {"rust", "go"}

\* sync.Once.Do considers f done when it panics; a OnceLock stays empty, and
\* the None that Python tests is still there.
DoneOnFailure == case.binding = "go"

Call(t) ==
    /\ pc[t] = "idle"
    /\ calls[t] < MaxCalls
    /\ calls' = [calls EXCEPT ![t] = @ + 1]
    /\ pc' = [pc EXCEPT ![t] = IF LooksFirst THEN "look" ELSE "wait"]
    /\ UNCHANGED <<case, cell, done, owner, result, parsed>>

Return(t, value) ==
    /\ result' = [result EXCEPT ![t] = value]
    /\ pc' = [pc EXCEPT ![t] = "idle"]
    /\ UNCHANGED <<case, calls>>

\* Mutant: the lock-free look finds a catalog missing and gives that back.
LookReturns(t) ==
    /\ pc[t] = "look"
    /\ Return(t, cell)
    /\ UNCHANGED <<cell, done, owner, parsed>>

\* Without the lock.
Look(t) ==
    /\ pc[t] = "look"
    /\ IF done
         THEN Return(t, cell)
         ELSE pc' = [pc EXCEPT ![t] = "wait"] /\ UNCHANGED <<case, result, calls>>
    /\ UNCHANGED <<cell, done, owner, parsed>>

\* With the lock: somebody has parsed it meanwhile, and the lock is given back.
LookAgain(t) ==
    /\ pc[t] = "wait"
    /\ owner = NIL
    /\ done
    /\ Return(t, cell)
    /\ UNCHANGED <<cell, done, owner, parsed>>

\* Mutant: who gets the lock does not look again.
BeginAnyway(t) ==
    /\ pc[t] = "wait"
    /\ owner = NIL
    /\ owner' = t
    /\ pc' = [pc EXCEPT ![t] = "parse"]
    /\ UNCHANGED <<case, cell, done, result, calls, parsed>>

\* Mutant: the test for None is made outside the lock.
BeginUnlocked(t) ==
    /\ pc[t] = "wait"
    /\ ~done
    /\ owner' = t
    /\ pc' = [pc EXCEPT ![t] = "parse"]
    /\ UNCHANGED <<case, cell, done, result, calls, parsed>>

\* With the lock: nobody has parsed it, and the thread is the owner.
Begin(t) ==
    /\ pc[t] = "wait"
    /\ owner = NIL
    /\ ~done
    /\ owner' = t
    /\ pc' = [pc EXCEPT ![t] = "parse"]
    /\ UNCHANGED <<case, cell, done, result, calls, parsed>>

\* Mutant: the owner returns its catalog before it is stored.
ParseUnstored(t) ==
    /\ pc[t] = "parse"
    /\ case.parses
    /\ parsed' = parsed + 1
    /\ done' = TRUE
    /\ owner' = NIL
    /\ Return(t, parsed')
    /\ UNCHANGED cell

\* from_json gave a catalog: it is stored, and the lock released.
Parse(t) ==
    /\ pc[t] = "parse"
    /\ case.parses
    /\ parsed' = parsed + 1
    /\ cell' = parsed'
    /\ done' = TRUE
    /\ owner' = NIL
    /\ Return(t, parsed')

\* Mutant: the exception leaves the lock taken.
ParseFailsLocked(t) ==
    /\ pc[t] = "parse"
    /\ ~case.parses
    /\ done' = DoneOnFailure
    /\ Return(t, FAILED)
    /\ UNCHANGED <<cell, owner, parsed>>

\* Mutant: a failed parse leaves its mark in the cell.
ParseFailsMarked(t) ==
    /\ pc[t] = "parse"
    /\ ~case.parses
    /\ done' = TRUE
    /\ cell' = FAILED
    /\ owner' = NIL
    /\ Return(t, FAILED)
    /\ UNCHANGED parsed

\* It raised or panicked: the lock is released on the way out.
ParseFails(t) ==
    /\ pc[t] = "parse"
    /\ ~case.parses
    /\ done' = DoneOnFailure
    /\ owner' = NIL
    /\ Return(t, FAILED)
    /\ UNCHANGED <<cell, parsed>>

Step(t) == Look(t) \/ LookAgain(t) \/ Begin(t) \/ Parse(t) \/ ParseFails(t)

Next == \E t \in Thread : Call(t) \/ Step(t)

\* A thread that can go on does in the end.  That a waiting thread finds the
\* lock free needs no more while the other threads' calls are bounded, and
\* nobody has to call.
Spec == Init /\ [][Next]_vars /\ \A t \in Thread : WF_vars(Step(t))

-----------------------------------------------------------------------------
Once == INSTANCE OnceCell
            WITH parses <- case.parses, outcome <- result, Catalog <- Nat \ {0}

\* However the threads interleave, every call looks like one step that returns
\* the process's one catalog, or fails because the file does not parse.
ImplementsOnceCell == Once!Init /\ [][Once!Next]_Once!vars

\* "Parsed once": no schedule parses the file a second time.
ParsedOnce == parsed <= 1

\* All callers hold the same catalog object, the one the cell still holds.
OneCatalog == \A t \in Thread : result[t] \in Nat => result[t] = cell

\* No call blocks for ever, a failed parse in another thread included.
EveryCallReturns == \A t \in Thread : (pc[t] # "idle") ~> (pc[t] = "idle")

\* catalog.go:127 says that Embedded panics if the embedded file does not
\* parse: a call that has ended without a panic has a catalog.
NeverNothing ==
    \A t \in Thread : (pc[t] = "idle" /\ calls[t] > 0) => result[t] # NIL

=============================================================================
