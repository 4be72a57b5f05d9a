----------------------------- MODULE SkillCommand -----------------------------
(***************************************************************************)
(* main() of catalog_lookup.py: one process reads a command line, loads    *)
(* the catalog, asks one lookup, prints one JSON value and exits.  The     *)
(* bindings have no command line; their callers go on as they are.         *)
(***************************************************************************)
EXTENDS BindingLookup

CONSTANT Commands    \* command lines

\* An option that is not given is NONE; one may be given the empty string.
Command == [command    : {"gpu", "resolve", "gpus", "npu", "notes", "sources"},
            device_id  : Id \cup {NONE},
            gfx_target : Name \cup {NONE},
            generation : Name \cup {NONE},
            revision   : Id \cup {NONE}]

ASSUME CommandsAssumption == Commands \subseteq Command

VARIABLES
    command,   \* the command line, NONE before
    printed,   \* the rows printed, and the value of "found" if there is one
    status     \* the exit status, NONE before

commandVars == <<command, printed, status>>

\* Their types.
CommandTypeOK ==
    /\ command \in Command \cup {NONE}
    /\ printed \in [found : BOOLEAN \cup {NONE}, rows : Seq([row : Nat, specs : Specs])] \cup {NONE}
    /\ status \in 0..2 \cup {NONE}

CommandInit ==
    /\ Init
    /\ command = NONE
    /\ printed = NONE
    /\ status = NONE

Given(option) == option \notin {NONE, ""}

\* argparse: gpus takes exactly one of its options, the others their device.
Parses(c) ==
    CASE c.command = "gpus"    -> (c.gfx_target = NONE) # (c.generation = NONE)
      [] c.command = "sources" -> TRUE
      [] OTHER                 -> c.device_id # NONE

Invoke(c) ==
    /\ command = NONE
    /\ command' = c
    /\ status' = IF Parses(c) THEN NONE ELSE 2
    /\ UNCHANGED <<vars, printed>>

Running == command # NONE /\ status = NONE

\* load_catalog.
LoadCatalog == Running /\ Load /\ UNCHANGED commandVars

\* The lookup that a command comes to: an empty option counts as none.
QuestionOf(c) ==
    CASE c.command \in {"gpu", "resolve", "notes"}  -> [verb |-> c.command, of |-> c.device_id, revision |-> NONE]
      [] c.command = "gpus" /\ Given(c.gfx_target)  -> [verb |-> "target", of |-> c.gfx_target, revision |-> NONE]
      [] c.command = "gpus" /\ ~Given(c.gfx_target) -> [verb |-> "generation", of |-> c.generation, revision |-> NONE]
      [] c.command = "npu" /\ Given(c.revision)     -> [verb |-> "npu", of |-> c.device_id, revision |-> c.revision]
      [] c.command = "npu" /\ ~Given(c.revision)    -> [verb |-> "npus", of |-> c.device_id, revision |-> NONE]

Dispatch(t) ==
    /\ Running
    /\ command.command # "sources"
    /\ \A u \in Thread : question[u] = NONE
    /\ Ask(t, QuestionOf(command))
    /\ UNCHANGED commandVars

LookUp(t) == Running /\ Step(t) /\ UNCHANGED commandVars

PrintSources ==
    /\ Running
    /\ loaded = "yes"
    /\ command.command = "sources"
    /\ printed' = [found |-> NONE, rows |-> <<>>]
    /\ status' = 0
    /\ UNCHANGED <<vars, command>>

Lists == {"gpus", "notes"}

\* Mutant: an NPU listing is printed with its count, found or not.
PrintAnswerCounts(t) ==
    /\ Running
    /\ answer[t] \notin {NONE, RAISED}
    /\ LET nothing == answer[t] = <<>> /\ command.command \notin Lists \cup {"npu"}
       IN  /\ printed' = [found |-> IF command.command \in Lists THEN NONE ELSE ~nothing, rows |-> Seen(answer[t])]
           /\ status' = IF nothing THEN 1 ELSE 0
    /\ UNCHANGED <<vars, command>>

\* _print_json of the answer, or _not_found; the two lists have a count.
PrintAnswer(t) ==
    /\ Running
    /\ answer[t] \notin {NONE, RAISED}
    /\ LET nothing == answer[t] = <<>> /\ command.command \notin Lists
       IN  /\ printed' = [found |-> IF command.command \in Lists THEN NONE ELSE ~nothing, rows |-> Seen(answer[t])]
           /\ status' = IF nothing THEN 1 ELSE 0
    /\ UNCHANGED <<vars, command>>

\* A KeyError ends the process with a traceback.
Traceback(t) ==
    /\ Running
    /\ answer[t] = RAISED
    /\ status' = 1
    /\ UNCHANGED <<vars, command, printed>>

CommandNext ==
    \/ binding # "skill" /\ Next /\ UNCHANGED commandVars
    \/ /\ binding = "skill"
       /\ \/ \E c \in Commands : Invoke(c)
          \/ LoadCatalog
          \/ \E t \in Thread : Dispatch(t) \/ LookUp(t) \/ PrintAnswer(t) \/ Traceback(t)
          \/ PrintSources

CommandSpec == CommandInit /\ [][CommandNext]_<<vars, commandVars>>

-----------------------------------------------------------------------------
\* "Never guesses: an unknown device_id is reported plainly" and "lookups that
\* find nothing exit 1": a lookup of one device that succeeds prints its rows
\* and no others, of the revision alone if one is named (an empty one counts as
\* none, as in the code); it fails only when the catalog has no such row.
ExitTellsFound ==
    (status \in {0, 1} /\ command.command \in {"gpu", "resolve", "npu"}) =>
        LET list == IF command.command = "npu" THEN text.npus ELSE text.gpus
            asked == {i \in 1..Len(list) :
                        /\ list[i].device_id # NONE
                        /\ Same(list[i].device_id, command.device_id)
                        /\ command.command = "npu" /\ Given(command.revision) =>
                              list[i].revision_id # NONE /\ Same(list[i].revision_id, command.revision)}
        IN  IF status = 0
              THEN /\ printed.rows # <<>>
                   /\ {printed.rows[k].row : k \in 1..Len(printed.rows)} \subseteq asked
                   /\ printed.found
              ELSE asked = {}

=============================================================================
