-------------------------- MODULE EmbeddedOnceProofs --------------------------
(***************************************************************************)
(* What holds of embedded() for any number of threads and calls: the locks *)
(* of the three bindings make every call one step of OnceCell.             *)
(***************************************************************************)
EXTENDS EmbeddedOnce, TLAPS

\* The lock: who parses owns it, nobody else does, and never once it is done.
LockOK ==
    /\ \A t \in Thread : pc[t] = "parse" <=> owner = t
    /\ owner # NIL => ~done

\* The cell is filled by the first parse, which is the only one, and only by a
\* file that parses; done then says so.
CellOK ==
    /\ cell = NIL => parsed = 0
    /\ cell # NIL => cell = 1 /\ parsed = 1 /\ done /\ case.parses

\* What the calls gave: the cell's catalog, or a failure of a file that does
\* not parse.
ResultOK ==
    /\ OneCatalog
    /\ \A t \in Thread : result[t] = FAILED => ~case.parses

IInv == TypeOK /\ LockOK /\ CellOK /\ ResultOK

\* The first state.
LEMMA IInit == Init => IInv
<1> SUFFICES ASSUME Init PROVE IInv
  OBVIOUS
<1> USE DEF Init
<1>1. TypeOK
  <2>1. calls \in [Thread -> 0..MaxCalls]
    BY BoundAssumption
  <2>2. case \in Case /\ cell = NIL /\ owner = NIL /\ done \in BOOLEAN /\ parsed \in Nat
    OBVIOUS
  <2>3. pc \in [Thread -> {"idle", "look", "wait", "parse"}] /\ result \in [Thread -> Nat \cup {NIL, FAILED}]
    OBVIOUS
  <2> QED
    BY <2>1, <2>2, <2>3 DEF TypeOK
<1>2. LockOK
  BY MarksAssumption DEF LockOK
<1>3. CellOK
  BY DEF CellOK
<1>4. ResultOK
  <2>1. NIL \notin Nat /\ NIL # FAILED
    BY MarksAssumption
  <2> QED
    BY <2>1 DEF ResultOK, OneCatalog
<1> QED
  BY <1>1, <1>2, <1>3, <1>4 DEF IInv

\* Every step keeps the types.
LEMMA TypeStep == TypeOK /\ [Next]_vars => TypeOK'
<1> SUFFICES ASSUME TypeOK, [Next]_vars PROVE TypeOK'
  OBVIOUS
<1> USE DEF TypeOK
<1>1. ASSUME NEW t \in Thread, Call(t) PROVE TypeOK'
  BY <1>1, BoundAssumption DEF Call
<1>2. ASSUME NEW t \in Thread, Look(t) PROVE TypeOK'
  BY <1>2 DEF Look, Return
<1>3. ASSUME NEW t \in Thread, LookAgain(t) PROVE TypeOK'
  BY <1>3 DEF LookAgain, Return
<1>4. ASSUME NEW t \in Thread, Begin(t) PROVE TypeOK'
  BY <1>4 DEF Begin
<1>5. ASSUME NEW t \in Thread, Parse(t) PROVE TypeOK'
  BY <1>5 DEF Parse, Return
<1>6. ASSUME NEW t \in Thread, ParseFails(t) PROVE TypeOK'
  BY <1>6 DEF ParseFails, Return, DoneOnFailure
<1>7. CASE UNCHANGED vars
  BY <1>7 DEF vars
<1> QED
  BY <1>1, <1>2, <1>3, <1>4, <1>5, <1>6, <1>7 DEF Next, Step

\* Every step keeps the lock: a thread takes it when it is free, and its
\* parse, good or bad, gives it back.
LEMMA LockStep == TypeOK /\ LockOK /\ [Next]_vars => LockOK'
<1> SUFFICES ASSUME TypeOK, LockOK, [Next]_vars PROVE LockOK'
  OBVIOUS
<1> USE MarksAssumption DEF TypeOK, LockOK
<1>1. ASSUME NEW t \in Thread, Call(t) PROVE LockOK'
  BY <1>1 DEF Call
<1>2. ASSUME NEW t \in Thread, Look(t) PROVE LockOK'
  BY <1>2 DEF Look, Return
<1>3. ASSUME NEW t \in Thread, LookAgain(t) PROVE LockOK'
  BY <1>3 DEF LookAgain, Return
<1>4. ASSUME NEW t \in Thread, Begin(t) PROVE LockOK'
  BY <1>4 DEF Begin
<1>5. ASSUME NEW t \in Thread, Parse(t) PROVE LockOK'
  BY <1>5 DEF Parse, Return
<1>6. ASSUME NEW t \in Thread, ParseFails(t) PROVE LockOK'
  BY <1>6 DEF ParseFails, Return
<1>7. CASE UNCHANGED vars
  BY <1>7 DEF vars
<1> QED
  BY <1>1, <1>2, <1>3, <1>4, <1>5, <1>6, <1>7 DEF Next, Step

\* Every step keeps the cell: who parses finds it empty, because whoever owns
\* the lock has looked after taking it.
LEMMA CellStep == TypeOK /\ LockOK /\ CellOK /\ [Next]_vars => CellOK'
<1> SUFFICES ASSUME TypeOK, LockOK, CellOK, [Next]_vars PROVE CellOK'
  OBVIOUS
<1> USE MarksAssumption DEF TypeOK, CellOK
<1>1. ASSUME NEW t \in Thread, Parse(t) PROVE CellOK'
  <2>1. cell = NIL /\ parsed = 0
    BY <1>1 DEF Parse, LockOK
  <2> QED
    BY <1>1, <2>1 DEF Parse, Return
<1>2. ASSUME NEW t \in Thread, ParseFails(t) PROVE CellOK'
  BY <1>2 DEF ParseFails, Return
<1>3. ASSUME NEW t \in Thread, Call(t) \/ Look(t) \/ LookAgain(t) \/ Begin(t)
      PROVE  CellOK'
  BY <1>3 DEF Call, Look, LookAgain, Begin, Return
<1>4. CASE UNCHANGED vars
  BY <1>4 DEF vars
<1> QED
  BY <1>1, <1>2, <1>3, <1>4 DEF Next, Step

\* Every step keeps what the calls gave: the cell is not overwritten while a
\* result refers to it, and what is returned is the cell's.
LEMMA ResultStep == IInv /\ [Next]_vars => ResultOK'
<1> SUFFICES ASSUME IInv, [Next]_vars PROVE ResultOK'
  OBVIOUS
<1> USE MarksAssumption DEF IInv, TypeOK, ResultOK, OneCatalog
<1>1. ASSUME NEW t \in Thread, Parse(t) PROVE ResultOK'
  <2>1. \A u \in Thread : result[u] \notin Nat
    BY <1>1 DEF Parse, LockOK, CellOK
  <2> QED
    BY <1>1, <2>1 DEF Parse, Return
<1>2. ASSUME NEW t \in Thread, ParseFails(t) PROVE ResultOK'
  BY <1>2 DEF ParseFails, Return
<1>3. ASSUME NEW t \in Thread, Look(t) \/ LookAgain(t) PROVE ResultOK'
  BY <1>3 DEF Look, LookAgain, Return
<1>4. ASSUME NEW t \in Thread, Call(t) \/ Begin(t) PROVE ResultOK'
  BY <1>4 DEF Call, Begin
<1>5. CASE UNCHANGED vars
  BY <1>5 DEF vars
<1> QED
  BY <1>1, <1>2, <1>3, <1>4, <1>5 DEF Next, Step

\* The invariant is inductive.
LEMMA IStep == IInv /\ [Next]_vars => IInv'
  BY TypeStep, LockStep, CellStep, ResultStep DEF IInv

LEMMA Invariance == Spec => []IInv
  BY IInit, IStep, PTL DEF Spec

-----------------------------------------------------------------------------
\* Every variable of the protocol keeps its type: no call leaves anything but
\* a catalog, a failure or nothing behind.
THEOREM TypeCorrect == Spec => []TypeOK
<1>1. IInv => TypeOK
  BY DEF IInv
<1> QED
  BY <1>1, Invariance, PTL

\* However many threads call embedded() at once, for the first time or later,
\* the file is parsed into a catalog once at most, in each of the bindings.
THEOREM ParsedOnceHolds == Spec => []ParsedOnce
<1>1. IInv => ParsedOnce
  BY DEF IInv, CellOK, ParsedOnce
<1> QED
  BY <1>1, Invariance, PTL

\* All callers of embedded() that were given a catalog hold the one that the
\* cell still holds.
THEOREM OneCatalogHolds == Spec => []OneCatalog
<1>1. IInv => OneCatalog
  BY DEF IInv, ResultOK
<1> QED
  BY <1>1, Invariance, PTL

-----------------------------------------------------------------------------
\* Go's promise, that Embedded panics when its file does not parse, is broken
\* by the second call: the bindings are held to theirs with files that parse in
\* Go, as in the run MCEmbeddedOnce.
GoParses == \A c \in Case : c.binding = "go" => c.parses

\* With them, done means that there is a catalog.
DoneOK == done => cell # NIL

LEMMA DoneStep == GoParses /\ IInv /\ DoneOK /\ [Next]_vars => DoneOK'
<1> SUFFICES ASSUME GoParses, IInv, DoneOK, [Next]_vars PROVE DoneOK'
  OBVIOUS
<1> USE MarksAssumption DEF IInv, TypeOK, DoneOK
<1>1. ASSUME NEW t \in Thread, Parse(t) PROVE DoneOK'
  BY <1>1 DEF Parse
<1>2. ASSUME NEW t \in Thread, ParseFails(t) PROVE DoneOK'
  BY <1>2 DEF ParseFails, DoneOnFailure, GoParses
<1>3. ASSUME NEW t \in Thread, Call(t) \/ Look(t) \/ LookAgain(t) \/ Begin(t)
      PROVE  DoneOK'
  BY <1>3 DEF Call, Look, LookAgain, Begin, Return
<1>4. CASE UNCHANGED vars
  BY <1>4 DEF vars
<1> QED
  BY <1>1, <1>2, <1>3, <1>4 DEF Next, Step

\* A call returns the cell when done, its own parse, or a failure.
LEMMA NeverNothingStep == IInv /\ DoneOK /\ NeverNothing /\ [Next]_vars => NeverNothing'
<1> SUFFICES ASSUME IInv, DoneOK, NeverNothing, [Next]_vars PROVE NeverNothing'
  OBVIOUS
<1> USE MarksAssumption DEF IInv, TypeOK, NeverNothing
<1>1. ASSUME NEW t \in Thread, Parse(t) PROVE NeverNothing'
  BY <1>1 DEF Parse, Return
<1>2. ASSUME NEW t \in Thread, ParseFails(t) PROVE NeverNothing'
  BY <1>2 DEF ParseFails, Return
<1>3. ASSUME NEW t \in Thread, Look(t) PROVE NeverNothing'
  BY <1>3 DEF Look, Return, DoneOK
<1>4. ASSUME NEW t \in Thread, LookAgain(t) PROVE NeverNothing'
  BY <1>4 DEF LookAgain, Return, DoneOK
<1>5. ASSUME NEW t \in Thread, Begin(t) PROVE NeverNothing'
  BY <1>5 DEF Begin
<1>6. ASSUME NEW t \in Thread, Call(t) PROVE NeverNothing'
  BY <1>6 DEF Call
<1>7. CASE UNCHANGED vars
  BY <1>7 DEF vars
<1> QED
  BY <1>1, <1>2, <1>3, <1>4, <1>5, <1>6, <1>7 DEF Next, Step

LEMMA DoneInvariance ==
    ASSUME GoParses
    PROVE  Spec => [](DoneOK /\ NeverNothing)
<1>1. Init => DoneOK /\ NeverNothing
  BY DEF Init, DoneOK, NeverNothing
<1>2. IInv /\ (DoneOK /\ NeverNothing) /\ [Next]_vars => (DoneOK /\ NeverNothing)'
  BY GoParses, DoneStep, NeverNothingStep
<1> QED
  BY <1>1, <1>2, Invariance, PTL DEF Spec

\* A call of embedded() that has ended has a catalog or has failed, in Python
\* and Rust whatever the file is, and in Go with a file that parses.
THEOREM NeverNothingHolds ==
    ASSUME GoParses
    PROVE  Spec => []NeverNothing
  BY GoParses, DoneInvariance, PTL

-----------------------------------------------------------------------------
\* Every step of the protocol is a step of OnceCell or changes nothing there:
\* a call takes effect when it returns.
LEMMA OnceStep == IInv /\ DoneOK /\ [Next]_vars => [Once!Next]_Once!vars
<1> SUFFICES ASSUME IInv, DoneOK, [Next]_vars PROVE [Once!Next]_Once!vars
  OBVIOUS
<1> USE MarksAssumption DEF IInv, TypeOK
<1>1. ASSUME NEW t \in Thread, Parse(t) PROVE Once!Return(t)
  <2>1. cell = NIL /\ parsed = 0 /\ case.parses
    BY <1>1 DEF Parse, LockOK, CellOK
  <2>2. cell' = 1 /\ 1 \in Nat \ {0}
    BY <1>1, <2>1 DEF Parse
  <2>3. result' = [result EXCEPT ![t] = cell'] /\ UNCHANGED case
    BY <1>1 DEF Parse, Return
  <2> QED
    BY <2>1, <2>2, <2>3 DEF Once!Return
<1>2. ASSUME NEW t \in Thread, ParseFails(t) PROVE Once!Fail(t)
  BY <1>2 DEF ParseFails, Return, Once!Fail
<1>3. ASSUME NEW t \in Thread, Look(t) \/ LookAgain(t), done PROVE Once!Return(t)
  BY <1>3 DEF Look, LookAgain, Return, Once!Return, CellOK, DoneOK
<1>4. ASSUME NEW t \in Thread, Look(t) \/ LookAgain(t), ~done PROVE UNCHANGED Once!vars
  BY <1>4 DEF Look, LookAgain, Once!vars
<1>5. ASSUME NEW t \in Thread, Call(t) \/ Begin(t) PROVE UNCHANGED Once!vars
  BY <1>5 DEF Call, Begin, Once!vars
<1>6. CASE UNCHANGED vars
  BY <1>6 DEF vars, Once!vars
<1> QED
  BY <1>1, <1>2, <1>3, <1>4, <1>5, <1>6 DEF Next, Step, Once!Next

\* The locks of the bindings implement calls that are one step each, for any
\* number of threads and calls: the process has one catalog, which every call
\* returns, or every call fails because the file does not parse.
THEOREM Implementation ==
    ASSUME GoParses
    PROVE  Spec => ImplementsOnceCell
<1>1. Init => Once!Init
  BY CaseAssumption DEF Init, Once!Init
<1>2. IInv /\ (DoneOK /\ NeverNothing) /\ [Next]_vars => [Once!Next]_Once!vars
  BY OnceStep
<1> QED
  BY <1>1, <1>2, Invariance, GoParses, DoneInvariance, PTL DEF Spec, ImplementsOnceCell

-----------------------------------------------------------------------------
(***************************************************************************)
(* That every call returns rests on two facts about its steps, of which    *)
(* the fairness of the scheduler makes an end: no call goes back, and who  *)
(* waits does so for a thread that waits for nobody.                       *)
(***************************************************************************)
\* The steps a call may still have to take: look, take the lock, parse.
StepsLeft(t) ==
    CASE pc[t] = "look"  -> 3
      [] pc[t] = "wait"  -> 2
      [] pc[t] = "parse" -> 1
      [] OTHER           -> 0

\* No thread holds the lock without parsing.
LockIsInUse == owner # NIL => owner \in Thread /\ pc[owner] = "parse"

\* A call of embedded() takes three steps at most, a failed parse and lost races
\* included, and no other thread's step sends it back.
THEOREM CallsCountDown ==
    Spec => [][\A t \in Thread : /\ Step(t) => StepsLeft(t)' < StepsLeft(t)
                                 /\ ~Step(t) => StepsLeft(t)' = StepsLeft(t) \/ Call(t)]_vars
<1>1. /\ IInv /\ [Next]_vars
      => [\A t \in Thread : /\ Step(t) => StepsLeft(t)' < StepsLeft(t)
                            /\ ~Step(t) => StepsLeft(t)' = StepsLeft(t) \/ Call(t)]_vars
  <2> SUFFICES ASSUME IInv, Next, NEW t \in Thread
               PROVE  /\ Step(t) => StepsLeft(t)' < StepsLeft(t)
                      /\ ~Step(t) => StepsLeft(t)' = StepsLeft(t) \/ Call(t)
    BY DEF vars
  <2>1. pc \in [Thread -> {"idle", "look", "wait", "parse"}]
    BY DEF IInv, TypeOK
  <2>2. ASSUME Step(t) PROVE StepsLeft(t)' < StepsLeft(t)
    <3>1. \/ pc[t] \in {"look", "wait", "parse"} /\ pc'[t] = "idle"
          \/ pc[t] = "look" /\ pc'[t] = "wait"
          \/ pc[t] = "wait" /\ pc'[t] = "parse"
      BY <2>1, <2>2 DEF Step, Look, LookAgain, Begin, Parse, ParseFails, Return
    <3> QED
      BY <3>1 DEF StepsLeft
  <2>3. ASSUME ~Step(t), ~Call(t) PROVE StepsLeft(t)' = StepsLeft(t)
    <3>1. PICK u \in Thread : u # t /\ (Call(u) \/ Step(u))
      BY <2>3 DEF Next
    <3>2. pc'[t] = pc[t]
      BY <2>1, <3>1 DEF Call, Step, Look, LookAgain, Begin, Parse, ParseFails, Return
    <3> QED
      BY <3>2 DEF StepsLeft
  <2> QED
    BY <2>2, <2>3
<1> QED
  BY <1>1, Invariance, PTL DEF Spec

\* A thread that finds the lock taken waits for one that is parsing, and so
\* for nobody: the lock is given back on every way out, the exception included.
THEOREM LockIsInUseHolds == Spec => []LockIsInUse
<1>1. IInv => LockIsInUse
  BY DEF IInv, TypeOK, LockOK, LockIsInUse
<1> QED
  BY <1>1, Invariance, PTL

=============================================================================
