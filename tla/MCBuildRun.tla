------------------------------ MODULE MCBuildRun ------------------------------
(***************************************************************************)
(* One source of each kind: a file whose ref is asked for by path, and two *)
(* files under one ref, each source in a repository of its own.            *)
(***************************************************************************)
EXTENDS BuildRun

CONSTANTS rocm, xdna, specs, npus, specsFile, drvFile, regsFile

MCOrder == <<specs, npus>>
MCRepoOf == [d \in Doc |-> IF d = specs THEN rocm ELSE xdna]
MCFilesOf == [d \in Doc |-> IF d = specs THEN <<specsFile>> ELSE <<drvFile, regsFile>>]
MCUnparsable == {<<drvFile, 1>>}

=============================================================================
