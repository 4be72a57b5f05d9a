---------------------------- MODULE MCHardwareProbe ----------------------------
(***************************************************************************)
(* Two probes of any two kinds, or one between two narrow ones.            *)
(***************************************************************************)
EXTENDS HardwareProbe

ProbeSpec(dtypes_, kind) == [dtypes |-> dtypes_, kind |-> kind]

MCTorch ==
    {ProbeSpec(<<"int8">>, "int"), ProbeSpec(<<"float16">>, "float"), ProbeSpec(<<"float8_e4m3fn">>, "fp8"),
     ProbeSpec(<<"float4_e2m1fn_x2", "float4_e2m1fn">>, "narrow")}

MCHip == ProbeSpec(<<>>, "hip")
MCNarrow == ProbeSpec(<<"float6_e2m3fn">>, "narrow")

MCPrograms ==
    {<<first, second>> : first \in MCTorch, second \in MCTorch}
    \cup {<<MCNarrow, probe, MCNarrow>> : probe \in MCTorch}
    \cup {<<MCHip, MCHip, MCHip>>}

=============================================================================
