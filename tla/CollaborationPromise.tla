------------------------ MODULE CollaborationPromise ------------------------
(***************************************************************************)
(* What a user is promised of his collaborations (docs/AGENT_TO_AGENT.md   *)
(* 5.1 and 5.2): each begins once, accepts messages up to a limit until    *)
(* somebody asks for its end, may take the wish to end back, and stays     *)
(* ended.  Collaboration implements it.                                    *)
(***************************************************************************)
EXTENDS Integers

CONSTANTS Roots, Limit

VARIABLES stage, taken   \* where each is, and the messages it has paid for

promiseVars == <<stage, taken>>
Move(r, from, to) == stage[r] \in from /\ stage' = [stage EXCEPT ![r] = to]
Pay(r, n) == taken' = [taken EXCEPT ![r] = @ + n]

Begin(r)    == Move(r, {"none"}, "pending") /\ Pay(r, 1)
Start(r)    == Move(r, {"pending"}, "running") /\ UNCHANGED taken
Take(r)     == stage[r] \in {"pending", "running"} /\ taken[r] < Limit /\ Pay(r, 1) /\ UNCHANGED stage
\* A message that could not be delivered is paid back, whatever became of the rest.
PayBack(r)  == stage[r] # "none" /\ taken[r] > 1 /\ Pay(r, -1) /\ UNCHANGED stage
AskEnd(r)   == Move(r, {"pending", "running"}, "ending") /\ UNCHANGED taken
TakeBack(r) == Move(r, {"ending"}, "running") /\ UNCHANGED taken
End(r)      == /\ \E to \in {"completed", "stopped"} : Move(r, {"pending", "running", "ending"}, to)
               /\ UNCHANGED taken

PromiseInit == stage = [r \in Roots |-> "none"] /\ taken = [r \in Roots |-> 0]
PromiseNext == \E r \in Roots :
  Begin(r) \/ Start(r) \/ Take(r) \/ PayBack(r) \/ AskEnd(r) \/ TakeBack(r) \/ End(r)
PromiseSpec == PromiseInit /\ [][PromiseNext]_promiseVars
=============================================================================
