------------------------------- MODULE MCQueue --------------------------------
(***************************************************************************)
(* Small instances of the queue runner for TLC: the files the server finds *)
(* when the run begins, and the symmetry of the callers.                   *)
(***************************************************************************)
EXTENDS QueueSafety, TLC

CONSTANTS p1, p2, t1, t2, c1, c2, c3

TabOf(order, thread, desired, onFailure) ==
    [thread |-> thread, ready |-> TRUE, order |-> order,
     prompts |-> [p \in Prompts |-> IF p \in ToSet(order) THEN NewPrompt
                                    ELSE [NewPrompt EXCEPT !.status = "unused"]],
     answers |-> [t \in TurnIds |-> NoAnswer],
     runner |-> [desired |-> desired, state |-> "paused", activePrompt |-> NoPrompt,
                 activeTurn |-> NoTurn, error |-> FALSE],
     onFailure |-> onFailure, clients |-> 0]

TwoPending == TabOf(<<p1, p2>>, t1, "paused", "pause")
NoConversation == TabOf(<<p1>>, NoThread, "armed", "pause")

CallerSymmetry == Permutations(Callers)
=============================================================================
