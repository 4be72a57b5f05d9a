---------------------------- MODULE MCEmbeddedOnce ----------------------------
(***************************************************************************)
(* Three threads, two calls each; the bindings that keep their promise in  *)
(* one run, Go with a file that does not parse in the other.               *)
(***************************************************************************)
EXTENDS EmbeddedOnce

GoBroken == {[binding |-> "go", parses |-> FALSE]}

Sound == [binding : Bindings, parses : BOOLEAN] \ GoBroken

=============================================================================
