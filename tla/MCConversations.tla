----------------------------- MODULE MCConversations -----------------------------
(***************************************************************************)
(* A conversation from its opening to its end: a behaviour is one of its   *)
(* life, of the turns its provider takes, of the threads its terminal      *)
(* selects, or of the server that ends when nobody uses it.                *)
(***************************************************************************)
EXTENDS Conversation, ProviderTurns, ThreadTrail, IdleExit

VARIABLE part
allVars == <<part, convVars, turnVars, trailVars, idleVars>>

Talk(mode, calm) ==
  [mode |-> mode, calm |-> calm, open |-> 1, reopen |-> 1, close |-> 1, delete |-> 0, switches |-> 1,
   failures |-> 1, questions |-> 0, exits |-> 0, crashes |-> 0, stops |-> 0]
Talks ==
  { [Talk("claude", TRUE) EXCEPT !.crashes = 2, !.stops = 1],
    [Talk("codex", TRUE) EXCEPT !.questions = 1, !.stops = 1, !.delete = 1, !.crashes = 1],
    [Talk("server", TRUE) EXCEPT !.exits = 1, !.crashes = 1, !.stops = 1, !.delete = 1] }

Load(p, looks, lag, thread, n) ==
  [provider |-> p, looks |-> looks, lag |-> lag, thread |-> thread, calls |-> n, hooks |-> 0, enters |-> 0,
   users |-> 0, switches |-> 0, stops |-> 0, steers |-> 0, pauses |-> 0, exits |-> 0]
TurnLoads ==
  { [Load("codex", TRUE, TRUE, 1, 1) EXCEPT !.hooks = 1, !.enters = 1, !.pauses = 1],
    [Load("codex", FALSE, TRUE, 0, 1) EXCEPT !.stops = 1, !.exits = 1],
    [Load("codex", TRUE, FALSE, 0, 1) EXCEPT !.hooks = 1, !.pauses = 1],
    [Load("codex", TRUE, FALSE, 1, 1) EXCEPT !.hooks = 1, !.steers = 1],
    [Load("codex", FALSE, FALSE, 1, 1) EXCEPT !.users = 1, !.switches = 1, !.exits = 1],
    [Load("codex", FALSE, FALSE, 1, 2) EXCEPT !.pauses = 1],
    [Load("claude", TRUE, TRUE, 1, 1) EXCEPT !.hooks = 1, !.enters = 1, !.pauses = 1],
    [Load("claude", FALSE, FALSE, 1, 1) EXCEPT !.switches = 1, !.steers = 1],
    [Load("claude", TRUE, FALSE, 1, 1) EXCEPT !.users = 1, !.stops = 1],
    [Load("cursor", TRUE, FALSE, 1, 1) EXCEPT !.hooks = 1, !.stops = 1],
    [Load("cursor", FALSE, FALSE, 1, 1) EXCEPT !.stops = 1, !.exits = 1] }

Trail(calm) ==
  [calm |-> calm, opens |-> 0, saved |-> 0, reopens |-> 0, restarts |-> 0, asks |-> 2, errors |-> 0,
   prompts |-> 0, breaks |-> 0, starts |-> 0, pauses |-> 0]
Trails ==
  { [Trail(TRUE) EXCEPT !.opens = 1, !.asks = 3, !.errors = 1],
    [Trail(TRUE) EXCEPT !.saved = 1, !.prompts = 1, !.starts = 1, !.pauses = 1, !.errors = 1],
    [Trail(TRUE) EXCEPT !.saved = 1, !.asks = 3, !.prompts = 1, !.restarts = 1, !.reopens = 1],
    [Trail(TRUE) EXCEPT !.opens = 1, !.prompts = 1, !.starts = 1, !.restarts = 1, !.reopens = 1],
    [Trail(FALSE) EXCEPT !.opens = 1, !.saved = 1, !.breaks = 1, !.reopens = 1] }

Visits == { [pages |-> 3, holds |-> 2, modes |-> 2, signals |-> 1] }

Init ==
  /\ part \in {"talk", "turns", "trail", "server"}
  /\ ConversationInit /\ (part # "talk" => stock.mode = "claude")
  /\ TurnInit /\ (part # "turns" => provider = "codex" /\ spare.steers = 1)
  /\ TrailInit /\ (part # "trail" => left = [Trail(TRUE) EXCEPT !.opens = 1, !.asks = 3, !.errors = 1])
  /\ IdleInit
Next ==
  \/ part = "talk" /\ ConversationNext /\ UNCHANGED <<part, turnVars, trailVars, idleVars>>
  \/ part = "turns" /\ TurnNext /\ UNCHANGED <<part, convVars, trailVars, idleVars>>
  \/ part = "trail" /\ TrailNext /\ UNCHANGED <<part, convVars, turnVars, idleVars>>
  \/ part = "server" /\ IdleNext /\ UNCHANGED <<part, convVars, turnVars, trailVars>>
Spec == Init /\ [][Next]_allVars
FairSpec == Spec /\ ConversationFairness /\ TurnFairness /\ IdleFairness

-----------------------------------------------------------------------------
\* A prompt the agent takes is acknowledged, and a turn that ends is noticed, whatever hooks are lost.
TurnsSettle == TakenIsAcknowledged /\ EndIsNoticed

\* Nothing hangs: a launch ends, and so does a server that everybody has left (ui-lifecycle.ts).
LaunchesAndServersEnd == ConnectingEnds /\ AbandonedStops
=============================================================================
