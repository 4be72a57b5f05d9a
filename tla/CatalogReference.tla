--------------------------- MODULE CatalogReference ---------------------------
(***************************************************************************)
(* What build_catalog() promises: from the ingested documents it publishes *)
(* at once one catalog and one set of warnings, each a function of the     *)
(* documents alone; or it publishes nothing.  No loop, index or report.    *)
(***************************************************************************)
EXTENDS CatalogInputs

VARIABLES src, catalog, printed

vars == <<src, catalog, printed>>

\* The device ids of the amdgpu.ids rows that carry this name.
IdsNamed(s, name) ==
    {d \in DeviceId : \E j \in 1..Len(s.ids) :
        /\ s.ids[j].device_id = d
        /\ \E alias \in s.ids[j].names : Normalize(alias) = Normalize(name)}

\* A device id is given only where the name leads to exactly one.
DeviceIdOf(s, i) ==
    LET ids == IdsNamed(s, CandidateName(s.gpus[i]))
    IN  IF \E d \in DeviceId : ids = {d}
          THEN CHOOSE d \in DeviceId : ids = {d}
          ELSE NONE

SteppingOf(s, i) ==
    IF HasSubarch(s, s.gpus[i].gfx_target) THEN Stepping(LlvmRowOf(s, s.gpus[i].gfx_target).subarch) ELSE NONE

EntryOf(s, i) ==
    [row         |-> s.gpus[i],
     device_id   |-> DeviceIdOf(s, i),
     revision_id |-> NONE,
     precision   |-> PrecisionBlock(s, s.gpus[i].generation),
     stepping    |-> SteppingOf(s, i)]

CatalogOf(s) ==
    [gpus  |-> [i \in 1..Len(s.gpus) |-> EntryOf(s, i)],
     npus  |-> s.npus,
     notes |-> s.notes]

IsNewTarget(s, j) ==
    /\ s.llvm[j].generation # NONE
    /\ \A i \in 1..Len(s.gpus) : s.gpus[i].gfx_target # s.llvm[j].gfx_target

Unmatched(s, i) == IdsNamed(s, CandidateName(s.gpus[i])) = {}

Ambiguous(s, i) == ~Unmatched(s, i) /\ DeviceIdOf(s, i) = NONE

Warned(kind, positions) == {[kind |-> kind, at |-> k] : k \in positions}

WarningsOf(s) ==
    LET products == 1..Len(s.gpus)
    IN  UNION {Warned("unmatched", {i \in products : Unmatched(s, i)}),
               Warned("ambiguous", {i \in products : Ambiguous(s, i)}),
               Warned("precision", {i \in products : EntryOf(s, i).precision = {}}),
               Warned("mismatch",  {i \in products : Mismatch(s, s.gpus[i].gfx_target, s.gpus[i].generation)}),
               Warned("newTarget", {j \in 1..Len(s.llvm) : IsNewTarget(s, j)}),
               Warned("stepping",  {i \in products : HasSubarch(s, s.gpus[i].gfx_target) /\ SteppingOf(s, i) = NONE})}

\* Every product needs a name, whichever column the match goes by.
Buildable(s) == s.parses /\ \A i \in 1..Len(s.gpus) : s.gpus[i].product_name # NONE

-----------------------------------------------------------------------------
Init == src \in SourceRecord /\ catalog = NONE /\ printed = {}

Publish ==
    /\ Buildable(src)
    /\ catalog = NONE
    /\ catalog' = CatalogOf(src)
    /\ printed' = WarningsOf(src)
    /\ UNCHANGED src

Spec == Init /\ [][Publish]_vars

=============================================================================
