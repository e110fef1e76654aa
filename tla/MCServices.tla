------------------------------ MODULE MCServices ------------------------------
(***************************************************************************)
(* Agents, timers and timer rules, side by side: a behaviour is one of a   *)
(* collaboration, of the timers of a tab, or one input of the rules.       *)
(***************************************************************************)
EXTENDS CollaborationSafety, TimerService

VARIABLES part, rule

servicesVars == <<part, rule, collabVars, timerVars>>

\* What the agents and their users may do: calls, acts, kinds of both, restarts.
Load(calls, acts, kinds, restarts) ==
  [calls |-> calls, acts |-> acts, kinds |-> kinds, restarts |-> restarts]
AgentLoads ==
  { Load(2, 1, {"write", "send"}, 0),
    Load(1, 2, {"write", "send", "stop", "complete", "minute"}, 0),
    Load(1, 2, {"write", "finish", "stop", "complete", "retry", "switch"}, 0),
    Load(1, 2, {"write", "send", "retry", "switch"}, 0),
    Load(1, 1, {"write", "send", "finish"}, 1),
    Load(1, 2, {"first", "write", "send"}, 0),
    Load(0, 3, {"write", "plain", "delete"}, 0) }

FewLoads == { Load(1, 2, {"write", "finish", "stop"}, 0), Load(0, 2, {"write", "complete"}, 0) }

Once(n) == [kind |-> "once", at |-> n]
Every(a, k, e) == [kind |-> "interval", anchor |-> a, every |-> k, end |-> e]
TwoSchedules == {Once(1), Every(1, 1, 2)}
Asked(n, kinds, restarts) == [n |-> n, kinds |-> kinds, restarts |-> restarts]
TimerAsks ==
  { Asked(1, {"save"}, 1), Asked(3, {"save", "run"}, 0), Asked(2, {"save", "read", "drop"}, 0),
    Asked(2, {"save", "remove"}, 0), Asked(2, {"save", "delete", "pause"}, 0),
    Asked(2, {"save", "session"}, 0) }

FewAsks == { Asked(1, {"save"}, 1), Asked(2, {"save", "delete", "session"}, 0) }

\* Inputs of the rules; the clock on the wall jumps by two units at moment 9.
Jump == 9
Size == 2
DayLength == 2
NoRule == [kind |-> "none"]
RuleInputs ==
  [kind : {"interval"}, zone : Zones, anchor : {2, 4, 7}, every : 1..5, end : {Never, 9}, now : 0..20]
  \cup [kind : {"weekly"}, days : {{1}, {3}, {1, 4}, {2, 6, 7}, {7}}, hour : 0..1,
        start : {Never, 3, 12}, end : {Never, 6, 13}, now : 0..33]

\* "Advance any rule to the first occurrence strictly later than now"
\* (timer-rules.ts:91), whatever the clock on the wall does meanwhile and however the
\* estimate of the index is off.
FirstAfterNow ==
  LET At(i) == Moment(rule.zone, Jump, Size, rule.anchor + i * rule.every)
      Within(S) == {x \in S : x > rule.now /\ (rule.end # Never => x <= rule.end)}
  IN  CASE rule.kind = "interval" ->
             NextInterval(rule.zone, Jump, Size, rule.anchor, rule.every, rule.end, rule.now)
               = Least(Within({At(i) : i \in 0..(rule.now + 2 * Size + 2)}))
        [] rule.kind = "weekly" ->
             NextWeekly(rule.days, rule.hour, rule.start, rule.end, rule.now, DayLength)
               = LET Days == {d \in 0..(rule.now + rule.start + 22) :
                                /\ Weekday(d) \in rule.days /\ d >= rule.start
                                /\ rule.end # Never => d <= rule.end}
                 IN  Least({x \in {d * DayLength + rule.hour : d \in Days} : x > rule.now})
        [] OTHER -> TRUE

ServicesInit ==
  /\ part \in {"agents", "timers", "rules"}
  /\ CollabInit /\ (part # "agents" => spent.calls = 1 /\ spent.restarts = 0 /\ "finish" \in spent.kinds)
  /\ TimerInit /\ (part # "timers" => asked.restarts = 1)
  /\ IF part = "rules" THEN rule \in RuleInputs ELSE rule = NoRule

AgentsStep(A) == part = "agents" /\ A /\ UNCHANGED <<part, rule, timerVars>>
TimersStep(A) == part = "timers" /\ A /\ UNCHANGED <<part, rule, collabVars>>

ServicesNext == AgentsStep(CollabNext) \/ TimersStep(TimerNext)
ServicesSpec == ServicesInit /\ [][ServicesNext]_servicesVars

\* What awaits, timers, turns and agents owe takes its next step; users owe nothing.
ServicesFair ==
  /\ ServicesSpec
  /\ WF_servicesVars(AgentsStep(CollabSystem)) /\ WF_servicesVars(TimersStep(TimerSystem))

\* What is due is triggered, and what a trigger filed is run or let go (check, recoverAutoRuns).
TimersGo == DueIsTriggered /\ AutoRunsGo
=============================================================================
