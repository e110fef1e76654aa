------------------------- MODULE CollaborationSafety -------------------------
(***************************************************************************)
(* What a collaboration promises to its user and its agents                *)
(* (docs/AGENT_TO_AGENT.md 5.1-5.3), over the steps of Collaboration.      *)
(***************************************************************************)
EXTENDS Collaboration

\* Type correctness of the files and of the requests in flight.
CollabTypes ==
  /\ \A r \in RootIds :
       /\ roots[r].status \in {"none", "pending", "running", "ending"} \cup Ended
       /\ roots[r].used \in 0..Messages
       /\ roots[r].status = "ending" <=> roots[r].finish # NoFinish
       /\ \A i, j \in DOMAIN roots[r].members :
            roots[r].members[i].tab = roots[r].members[j].tab => i = j
  /\ \A p \in Ids : /\ posts[p].tab \in Tabs \cup {NoTab}
                    /\ posts[p].status \in Unfinished \cup
                         {"unused", "completed", "failed", "deleted"}
                    /\ posts[p].root \in 0..MaxRoots /\ posts[p].depth \in 0..Depth
  /\ \A x \in contexts : roots[x.root].status # "none"
  /\ due \subseteq (Tabs \cup {NoTab}) \X RootIds

Sent(r) == {p \in Ids : posts[p].root = r /\ posts[p].from # 0}
Reserved(r) == {c \in Procs : procs[c].root = r /\ procs[c].pc \in {"deliver", "refund"}}

\* The budget of a root is what was delivered plus what is being delivered, with
\* refunds, refusals and requests in parallel; a restart may only lose a reservation,
\* never give one away (opSend and replyForLeaf against the lock of the root).
BudgetHolds ==
  \A r \in RootIds : roots[r].status # "none" =>
    LET n == 1 + Cardinality(Sent(r)) + Cardinality(Reserved(r))
    IN  /\ n <= roots[r].used /\ roots[r].used <= Messages
        /\ ~ spent.restarted => roots[r].used = n

\* The files and the requests keep their types, and the budget of a collaboration is
\* what it spent.
BudgetKept == CollabTypes /\ BudgetHolds

\* Collaborations implement their promise: each begins once, takes no
\* message beyond its limit or after somebody asked for its end, and an end is settled
\* once, whatever scans, turns and requests were on their way.
Promise == INSTANCE CollaborationPromise
             WITH Roots <- RootIds, Limit <- Messages,
                  stage <- [r \in RootIds |-> roots[r].status],
                  taken <- [r \in RootIds |-> roots[r].used]
PromiseKept == Promise!PromiseSpec

\* A receipt is the truth: it names a message that is in the queue of its target, of
\* this root and from this turn, and no two receipts name the same one.
ReceiptTellsTruth ==
  \A r \in RootIds : \A x \in roots[r].receipts :
    /\ posts[x.msg].root = r /\ posts[x.msg].from = x.post /\ posts[x.msg].tab = x.to
    /\ x.rid # 0 => IsMember(roots[r], x.to)
    /\ \A y \in roots[r].receipts : y.msg = x.msg => y = x

\* A collaboration that waits for its last turn does not wait for ever: once the turn has
\* landed, the collaboration ends or goes on, whoever else scans or stops it meanwhile.
\* (After a restart nobody looks until the queue of that tab moves again.)
EndingSettles ==
  \A r \in RootIds : roots[r].status = "ending" /\ Waiting(roots[r].finish)
    ~> roots[r].status # "ending" \/ spent.restarted
=============================================================================
