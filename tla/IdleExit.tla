-------------------------------- MODULE IdleExit --------------------------------
(***************************************************************************)
(* The end of a server that nobody uses (ui-lifecycle.ts, main.ts; the      *)
(* connections of app.ts).  Pages come and go, the timers hold the server,  *)
(* and a machine of a federation stays.                                     *)
(***************************************************************************)
EXTENDS Integers

CONSTANTS Grace,      \* ticks of the grace period
          IdleLoads   \* bounds: pages, holds, modes, signals, ticks with nothing to wait for

ASSUME GraceAssumption == Grace \in Nat \ {0}

VARIABLES
  use,      \* activeClients, backgroundHolds, armed and whether the machine is in a federation
  timer,    \* idleTimer: the ticks left, or Off
  quiet,    \* ticks since the server was used last, up to Grace
  gone,     \* why the server has stopped, or "no"
  store     \* what is left of the load

idleVars == <<use, timer, quiet, gone, store>>

Off == -1
Costs(what) == store[what] > 0 /\ store' = [store EXCEPT ![what] = @ - 1]
Unused == use.clients = 0 /\ ~ use.held
\* Eligible, and no timer runs yet; the mutant starts none.
Scheduled == IF use'.armed /\ use'.clients = 0 /\ ~ use'.held /\ timer = Off THEN Grace ELSE timer
ScheduledNot == timer
OnDisconnect == Scheduled
OnRelease == Scheduled
\* The timer goes when the server is used; the mutant leaves it.
CancelledNot == timer
Cancelled == Off

Connect ==
  /\ gone = "no" /\ Costs("pages")
  /\ use' = [use EXCEPT !.clients = @ + 1, !.armed = TRUE]
  /\ timer' = Cancelled /\ quiet' = 0 /\ UNCHANGED gone
Disconnect ==
  /\ gone = "no" /\ use.clients > 0
  /\ use' = [use EXCEPT !.clients = @ - 1]
  /\ timer' = OnDisconnect /\ quiet' = 0 /\ UNCHANGED <<gone, store>>
\* Timers are enabled, or run, and end.
Hold ==
  /\ gone = "no" /\ ~ use.held /\ Costs("holds")
  /\ use' = [use EXCEPT !.held = TRUE]
  /\ timer' = Cancelled /\ quiet' = 0 /\ UNCHANGED gone
Release ==
  /\ gone = "no" /\ use.held
  /\ use' = [use EXCEPT !.held = FALSE]
  /\ timer' = OnRelease /\ quiet' = 0 /\ UNCHANGED <<gone, store>>
\* A page changes the federation's mode.
Mode ==
  /\ gone = "no" /\ use.clients > 0 /\ Costs("modes")
  /\ use' = [use EXCEPT !.federated = ~ @]
  /\ UNCHANGED <<timer, quiet, gone>>
Signal == gone = "no" /\ Costs("signals") /\ gone' = "signal" /\ timer' = Off /\ UNCHANGED <<use, quiet>>

\* Time passes.  The timer looks again before it says idle.
Fires == IF use.armed /\ Unused /\ ~ use.federated THEN "idle" ELSE "no"
Tick ==
  /\ gone = "no" /\ (timer > 0 \/ (Unused /\ quiet < Grace))
  /\ quiet' = IF Unused /\ quiet < Grace THEN quiet + 1 ELSE quiet
  /\ timer' = CASE timer = Off -> Off [] timer = 1 -> Off [] OTHER -> timer - 1
  /\ gone' = IF timer = 1 THEN Fires ELSE gone
  /\ UNCHANGED <<use, store>>

IdleInit ==
  /\ store \in IdleLoads
  /\ use = [clients |-> 0, held |-> FALSE, armed |-> FALSE, federated |-> FALSE]
  /\ timer = Off /\ quiet = Grace /\ gone = "no"
IdleNext == Connect \/ Disconnect \/ Hold \/ Release \/ Mode \/ Signal \/ Tick
IdleSpec == IdleInit /\ [][IdleNext]_idleVars
IdleFairness == WF_idleVars(Tick)

\* A reload, or a timer that runs, costs the server nothing: it stops of itself only after a whole
\* grace period with no page and no hold, and never before a page has come (connect, cancelIdleTimer).
GraceIsWhole == gone = "idle" => use.armed /\ quiet = Grace

\* A server a page has used stops when everybody has left, whoever left last (scheduleIdleIfEligible).
AbandonedStops == (use.armed /\ Unused /\ ~ use.federated) ~> (gone # "no" \/ ~ Unused \/ use.federated)

\* A timer runs only while the server may go.
IdleTypes ==
  /\ use.clients \in Nat /\ timer \in {Off} \cup 1..Grace /\ quiet \in 0..Grace
  /\ gone \in {"no", "idle", "signal"}
  /\ timer # Off => use.armed /\ Unused

\* What a server that goes, or is about to, has waited for.
IdleSafe == IdleTypes /\ GraceIsWhole
=============================================================================
