---------------------------- MODULE MCSkillCommand ----------------------------
(***************************************************************************)
(* The catalogs of MCBindingLookup, asked by callers of the bindings or by *)
(* a command line whose options may be absent or empty.                    *)
(***************************************************************************)
EXTENDS MCBindingLookup, SkillCommand

Options(S) == S \cup {"", NONE}

Line(verb, device, target, generation, revision) ==
    [command |-> verb, device_id |-> device, gfx_target |-> target, generation |-> generation, revision |-> revision]

MCCommands ==
    {Line(verb, device, NONE, NONE, NONE) :
        verb \in {"gpu", "resolve", "notes", "sources"}, device \in Options({"744c", "744C", "17f0"})}
    \cup {Line("gpus", NONE, target, generation, NONE) :
             target \in Options({"gfx1100"}), generation \in Options({"RDNA3"})}
    \cup {Line("npu", device, NONE, NONE, revision) :
             device \in {"17f0", "744c"}, revision \in Options({"744C", "17f0"})}

=============================================================================
