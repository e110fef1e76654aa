-------------------------------- MODULE MCRecords --------------------------------
(***************************************************************************)
(* The end of a turn in the records of a tab: noticed while the queue      *)
(* waits, read from the provider's transcript, or recovered after a crash. *)
(* A behaviour is one of the three.                                        *)
(***************************************************************************)
EXTENDS TurnWatch, TabHistory, Recovery

VARIABLE part
recordsVars == <<part, watchVars, histVars, recoveryVars>>

Watch(stuck, joined) == [stuck |-> stuck, joined |-> joined, prompts |-> 1, typed |-> 0, works |-> 1, lost |-> 1, cuts |-> 0, fails |-> 0]
Watches ==
  { [Watch(TRUE, TRUE) EXCEPT !.prompts = 2, !.works = 0, !.lost = 2],
    [Watch(TRUE, FALSE) EXCEPT !.cuts = 1],
    [Watch(FALSE, TRUE) EXCEPT !.typed = 1, !.works = 0],
    [Watch(FALSE, FALSE) EXCEPT !.works = 0, !.fails = 1] }

HistoryLoad(mode, ids, queue, types) ==
  [mode |-> mode, overlap |-> FALSE, ids |-> ids, again |-> FALSE, queue |-> queue, types |-> types, steers |-> 0,
   losses |-> 0, switches |-> 0, syncs |-> 1]
HistoryRuns ==
  UNION { { [HistoryLoad(mode, FALSE, 2, 0) EXCEPT !.losses = 1],
            [HistoryLoad(mode, TRUE, 1, 1) EXCEPT !.losses = 1],
            [HistoryLoad(mode, TRUE, 2, 0) EXCEPT !.steers = 1],
            [HistoryLoad(mode, FALSE, 1, 1) EXCEPT !.switches = 2] } : mode \in {"merge", "authoritative"} }
  \cup { [HistoryLoad("merge", FALSE, 1, 1) EXCEPT !.losses = 1, !.overlap = TRUE] }
\* The same text is sent again after a submission that never reached the provider.
Resubmitted == { [HistoryLoad("merge", FALSE, 2, 0) EXCEPT !.losses = 1, !.again = TRUE] }

CrashLoads == { [crashes |-> 2, settings |-> 2] }

RecordsInit ==
  /\ part \in {"watch", "history", "recovery"}
  /\ WatchInit /\ (part # "watch" => load.cuts = 1)
  /\ HistoryInit /\ (part # "history" => quota.mode = "merge" /\ quota.overlap /\ quota.losses = 1)
  /\ RecoveryInit
RecordsNext ==
  \/ part = "watch" /\ WatchNext /\ UNCHANGED <<part, histVars, recoveryVars>>
  \/ part = "history" /\ HistoryNext /\ UNCHANGED <<part, watchVars, recoveryVars>>
  \/ part = "recovery" /\ RecoveryNext /\ UNCHANGED <<part, watchVars, histVars>>
RecordsSpec == RecordsInit /\ [][RecordsNext]_recordsVars
FairRecordsSpec == RecordsSpec /\ WatchFairness

-----------------------------------------------------------------------------
\* A queue neither misses the end of its turn nor waits for a thread that is idle (waitForTurn, waitForThreadIdle).
TurnEndsAreHeard == EndIsHeard /\ IdleIsFound

\* The records show every turn once, and no sync loses an answer, what waits or what runs (syncHistory, recordTurn).
HistoryIsWhole == ShownOnce /\ NothingLost

\* After a recovery nothing is in flight, and answers agree with prompts (recoverTerminalRuntime).
RecoveredAgrees == RecoveryTypes /\ RecoveredIsIdle /\ AnswersFollowPrompts
=============================================================================
