------------------------------ MODULE NameMatch ------------------------------
(***************************************************************************)
(* The marketing-name normalisation of match_gpu_device_ids.py.            *)
(*                                                                         *)
(* A name is the sequence of its lower-case words: white space and letter  *)
(* case are exactly what the code's case-insensitive patterns, split() and *)
(* lower() make irrelevant.  A pattern that ends in \s+ needs a word after *)
(* it, and one that starts with \s+ needs a word before it, since the      *)
(* name has been stripped.                                                 *)
(***************************************************************************)
EXTENDS Naturals, Sequences

Name == Seq(STRING)

DropFirst(k, name) == SubSeq(name, k + 1, Len(name))

\* _INSTINCT_PREFIX_RE: "AMD Instinct " or "AMD Radeon Instinct ".
StripInstinct(name) ==
    IF Len(name) > 2 /\ name[1] = "amd" /\ name[2] = "instinct"
      THEN DropFirst(2, name)
    ELSE IF Len(name) > 3 /\ name[1] = "amd" /\ name[2] = "radeon" /\ name[3] = "instinct"
      THEN DropFirst(3, name)
    ELSE name

\* _AMD_PREFIX_RE: "AMD ".
StripAmd(name) ==
    IF Len(name) > 1 /\ name[1] = "amd" THEN DropFirst(1, name) ELSE name

\* Mutant: the pattern strips the last word, whatever it is.
StripLastWord(name) == IF Len(name) > 1 THEN SubSeq(name, 1, Len(name) - 1) ELSE name

\* _GRAPHICS_SUFFIX_RE: " Graphics" at the end.
StripGraphics(name) ==
    IF Len(name) > 1 /\ name[Len(name)] = "graphics"
      THEN SubSeq(name, 1, Len(name) - 1)
    ELSE name

Normalize(name) == StripGraphics(StripAmd(StripInstinct(name)))

-----------------------------------------------------------------------------
\* The words that AMD's naming decorates a product's name with.
Decorations == {"amd", "radeon", "instinct", "graphics"}

\* What is left of a name without some decorations at either end.
Undecorated(name) ==
    {SubSeq(name, ends[1], ends[2]) :
        ends \in {e \in (1..(Len(name) + 1)) \X (0..Len(name)) :
                     \A k \in 1..Len(name) : k \in e[1]..e[2] \/ name[k] \in Decorations}}

=============================================================================
