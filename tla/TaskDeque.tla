------------------------------ MODULE TaskDeque ------------------------------
(***************************************************************************)
(* What a deque promises: a sequence of tasks.  Producers append at the    *)
(* bottom, thieves take the oldest from the top, the owner takes the       *)
(* newest from the bottom, and each of these is a single step.  It may be  *)
(* spoiled, and promises nothing from then on.                             *)
(***************************************************************************)
EXTENDS Sequences, SequencesExt

CONSTANT Tasks

VARIABLES items,   \* what is queued
          used,    \* every task ever appended
          spoiled  \* it is no sequence any more

Init == items = <<>> /\ used = {} /\ spoiled = FALSE

Append1 ==
    /\ \E t \in Tasks \ used : items' = Append(items, t) /\ used' = used \cup {t}
    /\ UNCHANGED spoiled

TakeTop == items # <<>> /\ items' = Tail(items) /\ UNCHANGED <<used, spoiled>>

TakeBottom == items # <<>> /\ items' = Front(items) /\ UNCHANGED <<used, spoiled>>

Spoil == spoiled' = TRUE

Next == Append1 \/ TakeTop \/ TakeBottom \/ Spoil

Spec == Init /\ [][Next]_<<items, used, spoiled>>
=============================================================================
