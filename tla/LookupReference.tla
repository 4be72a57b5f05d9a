---------------------------- MODULE LookupReference ----------------------------
(***************************************************************************)
(* What the bindings promise their callers: each answer is, in one step, a *)
(* function of the catalog's text and of the question, whatever the        *)
(* binding and whatever the other callers do.                              *)
(***************************************************************************)
EXTENDS CatalogQueries

CONSTANTS
    RAISED,     \* the lookup raised
    Thread      \* callers

VARIABLES
    text,      \* the catalog
    refused,   \* the binding could not load it
    question,  \* per caller, its question: NONE before
    answer     \* per caller, the answer to it: NONE before

vars == <<text, refused, question, answer>>

Init ==
    /\ text \in Text
    /\ refused = FALSE
    /\ question = [t \in Thread |-> NONE]
    /\ answer = [t \in Thread |-> NONE]

\* Only for a text that the schema refuses, or that has NaN in it.
Refuse ==
    /\ ~Readable(text)
    /\ refused' = TRUE
    /\ UNCHANGED <<text, question, answer>>

Ask(t, q) ==
    /\ ~refused
    /\ question[t] = NONE
    /\ question' = [question EXCEPT ![t] = q]
    /\ UNCHANGED <<text, refused, answer>>

Reply(t) ==
    /\ question[t] # NONE
    /\ answer[t] = NONE
    /\ answer' = [answer EXCEPT ![t] = AnswerOf(text, question[t])]
    /\ UNCHANGED <<text, refused, question>>

\* Only for a text that the schema refuses.
Raise(t) ==
    /\ question[t] # NONE
    /\ answer[t] = NONE
    /\ ~SchemaAccepts(text)
    /\ answer' = [answer EXCEPT ![t] = RAISED]
    /\ UNCHANGED <<text, refused, question>>

Answered(t) == answer[t] \notin {NONE, RAISED, <<>>}

\* The caller writes into the specs of a resolved answer, which is its own.
Scribble(t, key, value) ==
    /\ question[t] # NONE
    /\ question[t].verb = "resolve"
    /\ Answered(t)
    /\ key \in DOMAIN answer[t][1].specs
    /\ answer' = [answer EXCEPT ![t][1].specs[key] = value]
    /\ UNCHANGED <<text, refused, question>>

Next ==
    \/ Refuse
    \/ \E t \in Thread :
          \/ \E q \in Question : Ask(t, q)
          \/ Reply(t)
          \/ Raise(t)
          \/ \E key \in SpecKey, value \in SpecValue : Scribble(t, key, value)

Spec == Init /\ [][Next]_vars

=============================================================================
