------------------------------ MODULE TimerRules ------------------------------
(***************************************************************************)
(* When a timer runs next (server/timer-rules.ts): the first occurrence    *)
(* strictly after now.  Time is counted in one unit; Zone gives the moment *)
(* at which the clock on the wall first shows a local time, as Date does   *)
(* ("compatible": a time the clock skips is read with the old offset).     *)
(***************************************************************************)
EXTENDS Integers, FiniteSets, FiniteSetsExt

Never == -1
NoSchedule == [kind |-> "none"]

\* The wall clock jumps at moment T by S units: no change, forwards, backwards.
Zones == {"plain", "spring", "autumn"}
Moment(zone, T, S, local) ==
  CASE zone = "spring" -> IF local < T + S THEN local ELSE local - S
    [] zone = "autumn" -> IF local < T + S THEN local - S ELSE local
    [] OTHER -> local

Least(set) == IF set = {} THEN Never ELSE Min(set)

-----------------------------------------------------------------------------
\* nextIntervalRun: an estimate of the index from the time gone by, then steps
\* forwards to the future, then back to the first.  At(i) is occurrence i.

Estimate(elapsed, every) == IF elapsed < 0 THEN 0 ELSE (elapsed \div every) + 1

NextInterval(zone, jump, size, anchor, every, end, now) ==
  LET At(i) == Moment(zone, jump, size, anchor + i * every)
      from == Estimate(now - At(0), every)
      forward == CHOOSE i \in from..(from + 2 * size + 1) : At(i) > now /\ \A k \in from..(i-1) : At(k) <= now
      back == CHOOSE j \in 0..forward : /\ \A k \in j..(forward-1) : At(k) > now
                                        /\ j = 0 \/ At(j-1) <= now
      run == At(back)
  IN  IF end # Never /\ run > end THEN Never ELSE run

\* nextWeeklyRun: the days from today, or from the start date, fourteen of them.
Weekday(day) == (day % 7) + 1
\* The mutant looks at one week only.
NextWeeklyShort(days, hour, start, end, now, dayLength) ==
  LET today == now \div dayLength
      cursor == IF start > today THEN start ELSE today
  IN  Least({d * dayLength + hour : d \in
        {x \in cursor..(cursor + 6) : Weekday(x) \in days /\ x * dayLength + hour > now
                                      /\ (end # Never => x <= end)}})

NextWeekly(days, hour, start, end, now, dayLength) ==
  LET today == now \div dayLength
      cursor == IF start > today THEN start ELSE today
  IN  Least({d * dayLength + hour : d \in
        {x \in cursor..(cursor + 13) : Weekday(x) \in days /\ x * dayLength + hour > now
                                       /\ (end # Never => x <= end)}})

\* normalizeTimerRule for the schedules of TimerService, where no clock jumps.
NextRun(s, now) ==
  CASE s.kind = "once" -> IF s.at > now THEN s.at ELSE Never
    [] s.kind = "interval" ->
         NextInterval("plain", 0, 0, s.anchor, s.every, s.end, now)
    [] OTHER -> Never
=============================================================================
