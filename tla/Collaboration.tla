---------------------------- MODULE Collaboration ----------------------------
(***************************************************************************)
(* Agents that post to each other (server/a2a-service.ts, a2a-store.ts and *)
(* the routes of app.ts that lead to them).  A collaboration is a root     *)
(* file: who joined, how many messages it has used, whether it is ending.  *)
(* The messages themselves are prompts in the queues of the participants.  *)
(*                                                                         *)
(* A root is written under the lock of the root, a queue under the lock of *)
(* its tab; reads take no lock.  A request is a process whose pc names the *)
(* next stretch of code between two awaits.                                *)
(***************************************************************************)
EXTENDS Integers, Sequences, FiniteSets, SequencesExt

CONSTANTS
  Tabs,         \* conversations
  Origin,       \* the one whose user writes @@
  Leaves,       \* those that cannot call back (the web app)
  MaxPrompts,   \* bound: prompts in all queues
  MaxRoots,     \* bound: roots one @@ prompt begins, one after another
  Messages,     \* limits.messages
  Depth,        \* limits.depth
  Inbound,      \* limits.inboundPerMinute
  RequestIds,   \* requestIds the agents use
  Procs,        \* bound: requests and scans in flight at once, numbers
  MaxAttempts,  \* bound: dispatches of one prompt
  Loads,        \* bounds of a behaviour: calls of agents, acts of the user and their kinds, restarts
  Rolling       \* the queue may roll while the @@ prompt is being added

ASSUME CollabAssumption ==
  /\ Origin \in Tabs /\ Leaves \subseteq Tabs \ {Origin}
  /\ {MaxPrompts, MaxRoots, Messages, Depth, Inbound, MaxAttempts} \subseteq Nat \ {0}
  /\ \A load \in Loads : {load.calls, load.acts, load.restarts} \subseteq Nat
  /\ IsFiniteSet(Procs)
  /\ Rolling \in BOOLEAN

VARIABLES
  roots,      \* data/a2a/<root>.json
  posts,      \* the prompts of every queue
  thread,     \* the conversation a tab shows, 0 when closed
  preparing,  \* the dispatch that holds a tab's lock
  contexts,   \* A2aService.contexts
  inbound,    \* A2aService.inbound, messages of the last minute
  procs,      \* requests and scans in flight
  due,        \* queue events no scan has picked up: <<tab, root>>
  leafDue,    \* completed turns whose answer event is being handled
  spent       \* the load that is left, and whether the server has restarted

collabVars == <<roots, posts, thread, preparing, contexts, inbound, procs, due, leafDue, spent>>

Ids     == 1..MaxPrompts
RootIds == 1..MaxRoots
NoTab   == "none"
Ended   == {"completed", "stopped"}
Unfinished == {"pending", "running"}   \* "running" stands for "dispatching" too

NoFinish == [intent |-> "none", by |-> NoTab, post |-> 0, attempt |-> 0]
NoRoot   == [status |-> "none", used |-> 0, members |-> <<>>, finish |-> NoFinish, receipts |-> {}]
NoPost   == [tab |-> NoTab, status |-> "unused", root |-> 0, depth |-> 0, from |-> 0,
             attempt |-> 0, thread |-> 0]
NoPrep   == [post |-> 0, root |-> 0, depth |-> 0, pc |-> "none"]
NoProc   == [kind |-> "idle", pc |-> "idle", root |-> 0, post |-> 0, attempt |-> 0, depth |-> 0,
             to |-> NoTab, rid |-> 0, members |-> <<>>, todo |-> <<>>, found |-> <<>>]

-----------------------------------------------------------------------------
\* The root file.

\* beginRoot: the prompt that begins a root counts as its first message.
Begun == [NoRoot EXCEPT !.status = "pending", !.used = 1]

IsMember(root, t) == \E i \in DOMAIN root.members : root.members[i].tab = t
Level(root, t) == root.members[CHOOSE i \in DOMAIN root.members : root.members[i].tab = t].level

Join(root, t, level) ==
  IF IsMember(root, t) THEN root
  ELSE [root EXCEPT !.members = Append(@, [tab |-> t, level |-> level])]

AcceptsWork(root) == root.status \in {"pending", "running"}

\* The mutant forgets to clear what was to be finished.
ClosedKeepsFinish(root, status) == [root EXCEPT !.status = status]
Closed(root, status) == [root EXCEPT !.status = status, !.finish = NoFinish]

Receipt(c, msg) ==
  [post |-> procs[c].post, attempt |-> procs[c].attempt, rid |-> procs[c].rid,
   to |-> procs[c].to, msg |-> msg]

\* recordReceipt replaces the receipt with the same key.
SameKey(r, s) == r.post = s.post /\ r.attempt = s.attempt /\ r.rid = s.rid
Recorded(root, receipt) ==
  [root EXCEPT !.receipts = {r \in @ : ~ SameKey(r, receipt)} \cup {receipt}]

\* The mutant forgets to look at the root again under its lock.
ReservableStale(root, kind, depth) == root.status # "none"
Reservable(root, kind, depth) ==
  /\ IF kind = "leaf" THEN root.status = "running" /\ depth <= Depth ELSE AcceptsWork(root)
  /\ root.used < Messages

-----------------------------------------------------------------------------
\* The queues.

QueueOf(t) == {p \in Ids : posts[p].tab = t /\ posts[p].status # "deleted"}

\* outstandingWork for one member.
Outstanding(t, r, except) ==
  {p \in QueueOf(t) : posts[p].root = r /\ p # except /\ posts[p].status \in Unfinished}

\* Every event of a queue reaches the roots its tab has joined.
EventsIn(rs, t) == {<<t, r>> : r \in {x \in RootIds : IsMember(rs[x], t)}}

\* The first prompt of a queue among S, as a stop remembers it.
First(S) ==
  LET p == CHOOSE x \in S : \A y \in S : x <= y
  IN  [post |-> p, attempt |-> posts[p].attempt, by |-> posts[p].tab]

\* continuationMeta: the latest root the tab has joined that has not ended; its
\* depth is that of the last post of that root in the tab.
Continues(t) == {r \in RootIds : IsMember(roots[r], t) /\ roots[r].status \in {"running", "ending"}}
Latest(S) == CHOOSE x \in S : \A y \in S : y <= x
LastDepth(t, r) ==
  LET S == {p \in QueueOf(t) : posts[p].root = r} IN IF S = {} THEN 0 ELSE posts[Latest(S)].depth

Requested(p) ==
  LET t == posts[p].tab
  IN  IF posts[p].root # 0 THEN [root |-> posts[p].root, depth |-> posts[p].depth]
      ELSE IF Continues(t) = {} THEN [root |-> 0, depth |-> 0]
      ELSE LET r == Latest(Continues(t)) IN [root |-> r, depth |-> LastDepth(t, r)]

\* rootForDispatch: a post of an ended root is plain text, except the prompt that
\* began it, which begins another root.  nextRootId names a root no other prompt names.
FreeRoots == {r \in RootIds \ {1} : roots[r].status = "none" /\ \A t \in Tabs : preparing[t].root # r}
RootForDispatch(p, meta) ==
  IF meta.root = 0 THEN 0
  ELSE IF roots[meta.root].status \notin Ended THEN meta.root
  ELSE IF posts[p].from # 0 \/ meta.depth # 0 \/ FreeRoots = {} THEN 0
  ELSE CHOOSE r \in FreeRoots : \A s \in FreeRoots : r <= s

\* resolveContext: the attempt is the one its conversation is executing.
ContextHolds(x) ==
  /\ posts[x.post].status = "running"
  /\ posts[x.post].attempt = x.attempt
  /\ thread[posts[x.post].tab] # 0 /\ thread[posts[x.post].tab] = x.thread

\* Slots are alike: the first free one is taken.
Idle(c) == procs[c] = NoProc /\ \A d \in Procs : procs[d] = NoProc => c <= d
Step(c, rec) == procs' = [procs EXCEPT ![c] = rec]
Done(c) == Step(c, NoProc)
WriteRoot(r, value) == roots' = [roots EXCEPT ![r] = value]
Acts(kind) == kind \in spent.kinds /\ spent.acts > 0 /\ spent' = [spent EXCEPT !.acts = @ - 1]
Calls == spent.calls > 0 /\ spent' = [spent EXCEPT !.calls = @ - 1]

-----------------------------------------------------------------------------
\* The user writes @@: a new prompt, or an edit of a waiting one.  The prompt is
\* filed under the lock of its tab, its root is begun after that.
WriteCollaboration(c) ==
  /\ Idle(c)
  /\ posts[1].status \in {"unused", "pending", "failed"} /\ posts[1].root = 0
  /\ preparing[Origin] = NoPrep
  /\ Acts("write")
  /\ posts' = [posts EXCEPT ![1] =
       IF @.status = "unused" THEN [NoPost EXCEPT !.tab = Origin, !.status = "pending", !.root = 1]
       ELSE [@ EXCEPT !.root = 1]]
  /\ Step(c, [NoProc EXCEPT !.kind = "begin", !.pc = "begin", !.root = 1])
  /\ UNCHANGED <<roots, thread, preparing, contexts, inbound, due, leafDue>>

BeginRoot(c) ==
  /\ procs[c].pc = "begin"
  /\ WriteRoot(1, Begun)
  /\ Done(c)
  /\ UNCHANGED <<posts, thread, preparing, contexts, inbound, due, leafDue, spent>>

WriteFirst ==
  /\ posts[1].status = "unused" /\ Acts("first")
  /\ posts' = [posts EXCEPT ![1] = [NoPost EXCEPT !.tab = Origin, !.status = "pending"]]
  /\ UNCHANGED <<roots, thread, preparing, contexts, inbound, procs, due, leafDue>>

\* An ordinary prompt of the user, the retry of one that failed, a deleted one.
WritePlain(t, p) ==
  /\ posts[p].status = "unused" /\ p # 1 /\ \A q \in 2..(p-1) : posts[q].status # "unused"
  /\ preparing[t] = NoPrep
  /\ Acts("plain")
  /\ posts' = [posts EXCEPT ![p] = [NoPost EXCEPT !.tab = t, !.status = "pending"]]
  /\ UNCHANGED <<roots, thread, preparing, contexts, inbound, procs, due, leafDue>>

Retry(p) ==
  /\ posts[p].status = "failed" /\ posts[p].attempt < MaxAttempts
  /\ preparing[posts[p].tab] = NoPrep
  /\ Acts("retry")
  /\ posts' = [posts EXCEPT ![p].status = "pending"]
  /\ due' = due \cup EventsIn(roots, posts[p].tab)
  /\ UNCHANGED <<roots, thread, preparing, contexts, inbound, procs, leafDue>>

DeletePost(p) ==
  /\ posts[p].status \in {"pending", "failed"}
  /\ preparing[posts[p].tab] = NoPrep
  /\ Acts("delete")
  /\ posts' = [posts EXCEPT ![p].status = "deleted"]
  /\ UNCHANGED <<roots, thread, preparing, contexts, inbound, procs, due, leafDue>>

\* The conversation of a tab is closed, opened again, or another one is shown.  What
\* was running there is interrupted.
SwitchThread(t, k) ==
  /\ k # thread[t]
  /\ preparing[t] = NoPrep
  /\ Acts("switch")
  /\ thread' = [thread EXCEPT ![t] = k]
  /\ posts' = [p \in Ids |->
       IF posts[p].tab = t /\ posts[p].status = "running"
       THEN [posts[p] EXCEPT !.status = "failed"] ELSE posts[p]]
  /\ due' = due \cup EventsIn(roots, t)
  /\ UNCHANGED <<roots, preparing, contexts, inbound, procs, leafDue>>

-----------------------------------------------------------------------------
\* Dispatch: prepareDispatch runs while the queue holds the lock of the tab.

Beginning == \E c \in Procs : procs[c].pc = "begin"

PrepareRead(t, p) ==
  /\ preparing[t] = NoPrep /\ thread[t] # 0
  /\ p \in QueueOf(t) /\ posts[p].status = "pending" /\ posts[p].attempt < MaxAttempts
  /\ posts[p].thread \in {0, thread[t]}
  /\ \A q \in QueueOf(t) : posts[q].status # "running"
  /\ p = 1 => Rolling \/ ~ Beginning
  /\ LET meta == Requested(p)
         r    == RootForDispatch(p, meta)
     IN  preparing' = [preparing EXCEPT ![t] =
           [post |-> p, root |-> r, depth |-> meta.depth,
            pc |-> IF r = 0 THEN "plain" ELSE IF roots[r].status = "none" THEN "begin" ELSE "join"]]
  /\ UNCHANGED <<roots, posts, thread, contexts, inbound, procs, due, leafDue, spent>>

PrepareBegin(t) ==
  /\ preparing[t].pc = "begin"
  /\ WriteRoot(preparing[t].root, Begun)
  /\ preparing' = [preparing EXCEPT ![t].pc = "join"]
  /\ UNCHANGED <<posts, thread, contexts, inbound, procs, due, leafDue, spent>>

\* The section under the root's lock, the context, and the record of the attempt.
Started(root, p) ==
  LET joined == Join(root, posts[p].tab, IF p = 1 THEN 0 ELSE 1)
  IN  IF joined.status = "pending" THEN [joined EXCEPT !.status = "running"] ELSE joined

PrepareJoin(t) ==
  LET x == preparing[t]
  IN  /\ x.pc \in {"join", "plain"}
      /\ preparing' = [preparing EXCEPT ![t] = NoPrep]
      /\ IF x.pc = "join"
         THEN /\ WriteRoot(x.root, Started(roots[x.root], x.post))
              /\ contexts' = contexts \cup
                   {[post |-> x.post, attempt |-> posts[x.post].attempt + 1, root |-> x.root,
                     depth |-> x.depth, thread |-> thread[t]]}
         ELSE UNCHANGED <<roots, contexts>>
      /\ posts' = [posts EXCEPT ![x.post] =
           [@ EXCEPT !.status = "running", !.attempt = posts[x.post].attempt + 1, !.thread = thread[t],
                     !.root  = IF x.pc = "join" THEN x.root ELSE posts[x.post].root,
                     !.depth = IF x.pc = "join" THEN x.depth ELSE posts[x.post].depth]]
      /\ due' = due \cup EventsIn(roots', t)
      /\ UNCHANGED <<thread, inbound, procs, leafDue, spent>>

\* A turn ends, or the submission fails (an interrupted turn counts as failed); its
\* answer and the runner's events follow.  The answer of a leaf is returned for it.
TurnEnds(p, outcome) ==
  /\ posts[p].status = "running"
  /\ preparing[posts[p].tab] = NoPrep
  /\ posts' = [posts EXCEPT ![p].status = outcome]
  /\ due' = due \cup EventsIn(roots, posts[p].tab)
  /\ leafDue' = IF outcome = "completed" /\ posts[p].tab \in Leaves /\ posts[p].root # 0 /\ posts[p].from # 0
                THEN leafDue \cup {p} ELSE leafDue
  /\ UNCHANGED <<roots, thread, preparing, contexts, inbound, procs, spent>>

-----------------------------------------------------------------------------
\* Posting: look, reserve, deliver, record.

\* handle() with resolveContext and the checks of opSend up to the lock.  A call
\* whose turn is over forgets its context.
CallExpired(x) ==
  /\ "finish" \in spent.kinds
  /\ Calls
  /\ ~ ContextHolds(x)
  /\ contexts' = contexts \ {x}
  /\ UNCHANGED <<roots, posts, thread, preparing, inbound, procs, due, leafDue>>

AgentCalls(c, x, op) ==
  /\ op \in spent.kinds
  /\ Idle(c) /\ posts[x.post].tab \notin Leaves
  /\ Calls
  /\ ContextHolds(x)
  /\ UNCHANGED <<roots, posts, thread, preparing, contexts, inbound, due, leafDue>>

CallSend(c, x, to, rid) ==
  /\ to # posts[x.post].tab
  /\ ~ \E r \in roots[x.root].receipts : r.post = x.post /\ r.attempt = x.attempt /\ r.rid = rid
  /\ x.depth + 1 <= Depth /\ inbound[to] < Inbound
  /\ AgentCalls(c, x, "send")
  /\ Step(c, [NoProc EXCEPT !.kind = "send", !.pc = "reserve", !.root = x.root, !.post = x.post,
                            !.attempt = x.attempt, !.depth = x.depth + 1, !.to = to, !.rid = rid])

\* replyForLeaf.
LeafReplies(c, p) ==
  LET r == posts[p].root
      t == posts[p].tab
  IN  /\ p \in leafDue /\ leafDue' = leafDue \ {p}
      /\ IF /\ roots[r].status = "running"
            /\ ~ \E x \in roots[r].receipts : x.post = p /\ x.rid = 0
         THEN /\ Idle(c)
              /\ Step(c, [NoProc EXCEPT !.kind = "leaf", !.pc = "reserve", !.root = r, !.post = p,
                   !.depth = 1 + (IF IsMember(roots[r], t) THEN Level(roots[r], t) ELSE posts[p].depth),
                   !.to = posts[posts[p].from].tab])
         ELSE UNCHANGED procs
      /\ UNCHANGED <<roots, posts, thread, preparing, contexts, inbound, due, spent>>

Reserve(c) ==
  /\ procs[c].pc = "reserve"
  /\ LET r == procs[c].root
     IN  IF Reservable(roots[r], procs[c].kind, procs[c].depth)
         THEN WriteRoot(r, [roots[r] EXCEPT !.used = @ + 1]) /\ Step(c, [procs[c] EXCEPT !.pc = "deliver"])
         ELSE Done(c) /\ UNCHANGED roots
  /\ UNCHANGED <<posts, thread, preparing, contexts, inbound, due, leafDue, spent>>

\* enqueueA2aPrompt: a closed conversation refuses, and a tab that was deleted throws.
Deliver(c) ==
  LET x == procs[c]
  IN  /\ x.pc = "deliver" /\ preparing[x.to] = NoPrep
      /\ IF thread[x.to] = 0
         THEN Step(c, [x EXCEPT !.pc = "refund"]) /\ UNCHANGED <<posts, due>>
         ELSE \E p \in Ids \ {1} :
                /\ posts[p].status = "unused" /\ \A q \in 2..(p-1) : posts[q].status # "unused"
                /\ posts' = [posts EXCEPT ![p] =
                     [NoPost EXCEPT !.tab = x.to, !.status = "pending", !.root = x.root,
                        !.depth = x.depth, !.from = x.post, !.thread = thread[x.to]]]
                /\ Step(c, [x EXCEPT !.pc = "record", !.found = <<p>>])
                /\ due' = due \cup EventsIn(roots, x.to)
      /\ UNCHANGED <<roots, thread, preparing, contexts, inbound, leafDue, spent>>

\* The receipt; a post also makes its target a member, and counts for the minute.  The mutant
\* writes the receipt alone.
PostedAlone(c) == Recorded(roots[procs[c].root], Receipt(c, procs[c].found[1]))
Posted(c) ==
  LET x == procs[c]
      r == roots[x.root]
      from == posts[x.post].tab
  IN  Recorded(IF x.kind = "leaf" THEN r
               ELSE Join(r, x.to, IF IsMember(r, from) THEN Level(r, from) + 1 ELSE 1),
               Receipt(c, x.found[1]))

Record(c) ==
  LET x == procs[c]
  IN  /\ x.pc = "record"
      /\ WriteRoot(x.root, Posted(c))
      /\ inbound' = IF x.kind = "leaf" THEN inbound ELSE [inbound EXCEPT ![x.to] = @ + 1]
      /\ Done(c)
      /\ UNCHANGED <<posts, thread, preparing, contexts, due, leafDue, spent>>

\* A mutant that keeps the reservation of a message that was not delivered.
RefundNothing(c) == roots
Refunded(c) == [roots EXCEPT ![procs[c].root].used = IF @ > 0 THEN @ - 1 ELSE 0]

Refund(c) ==
  /\ procs[c].pc = "refund"
  /\ roots' = Refunded(c)
  /\ Done(c)
  /\ UNCHANGED <<posts, thread, preparing, contexts, inbound, due, leafDue, spent>>

MinutePasses(t) ==
  /\ "minute" \in spent.kinds /\ inbound[t] # 0
  /\ inbound' = [inbound EXCEPT ![t] = 0]
  /\ UNCHANGED <<roots, posts, thread, preparing, contexts, procs, due, leafDue, spent>>

-----------------------------------------------------------------------------
\* Ending: an agent finishes, the user ends or stops, a quiet root is closed.  All
\* read the queues of the members first, one after another, from the root as it was.

Scan(kind, r) == [NoProc EXCEPT !.kind = kind, !.pc = "scan", !.root = r,
                                !.members = roots[r].members, !.todo = roots[r].members]

CallFinish(c, x) ==
  /\ posts[x.post].tab = Origin
  /\ AgentCalls(c, x, "finish")
  /\ Step(c, [Scan("finish", x.root) EXCEPT !.post = x.post, !.attempt = x.attempt])

UserEnds(c, r, kind) ==
  /\ Idle(c) /\ roots[r].status # "none"
  /\ Acts(kind)
  /\ Step(c, IF kind = "stop" THEN [Scan(kind, r) EXCEPT !.pc = "cancel"] ELSE Scan(kind, r))
  /\ UNCHANGED <<roots, posts, thread, preparing, contexts, inbound, due, leafDue>>

\* cancelPendingWork, one member's queue under its lock.
CancelPending(c) ==
  LET x == procs[c]
  IN  /\ x.pc = "cancel"
      /\ IF x.todo = <<>>
         THEN Step(c, [x EXCEPT !.pc = "scan", !.todo = x.members]) /\ UNCHANGED posts
         ELSE LET t == Head(x.todo).tab
              IN  /\ preparing[t] = NoPrep
                  /\ posts' = [p \in Ids |->
                       IF posts[p].tab = t /\ posts[p].root = x.root /\ posts[p].status = "pending"
                       THEN [posts[p] EXCEPT !.status = "deleted"] ELSE posts[p]]
                  /\ Step(c, [x EXCEPT !.todo = Tail(@)])
      /\ UNCHANGED <<roots, thread, preparing, contexts, inbound, due, leafDue, spent>>

\* outstandingWork reads one queue.  A stop waits for what has an attempt only; the
\* others give up as soon as there is anything.
ReadQueue(c) ==
  LET x == procs[c]
      S == {p \in Outstanding(Head(x.todo).tab, x.root, x.post) :
              x.kind = "stop" => posts[p].status # "pending" /\ posts[p].attempt > 0}
  IN  /\ x.pc = "scan" /\ x.todo # <<>>
      /\ IF S # {} /\ x.kind # "stop" THEN Done(c)
         ELSE Step(c, [x EXCEPT !.todo = Tail(@), !.found = IF S = {} \/ @ # <<>> THEN @ ELSE <<First(S)>>])
      /\ UNCHANGED <<roots, posts, thread, preparing, contexts, inbound, due, leafDue, spent>>

Ending(root, intent, by, post, attempt) ==
  [root EXCEPT !.status = "ending",
               !.finish = [intent |-> intent, by |-> by, post |-> post, attempt |-> attempt]]

\* The section of opFinish, of endRootFromUser and of settleQuietRoots.
Finished(root, x) ==
  IF root.status \in Ended \cup {"ending"} THEN root
  ELSE Ending(root, "complete", Origin, x.post, x.attempt)

UserEnded(root, x) ==
  IF root.status \in Ended THEN root
  ELSE IF x.found = <<>> \/ (x.kind = "stop" /\ root.status = "ending")
       THEN Closed(root, IF x.kind = "stop" THEN "stopped" ELSE "completed")
  ELSE Ending(root, "stop", x.found[1].by, x.found[1].post, x.found[1].attempt)

QuietClosed(root, x) == IF root.status # "running" THEN root ELSE Closed(root, "completed")

Settle(c) ==
  LET x == procs[c]
      root == roots[x.root]
  IN  /\ x.pc = "scan" /\ x.todo = <<>>
      /\ WriteRoot(x.root, CASE x.kind = "finish" -> Finished(root, x)
                             [] x.kind = "quiet"  -> QuietClosed(root, x)
                             [] OTHER             -> UserEnded(root, x))
      /\ Done(c)
      /\ UNCHANGED <<posts, thread, preparing, contexts, inbound, due, leafDue, spent>>

\* onQueueEvent for one root: a root that is ending looks at the turn it waits for, a
\* running one is scanned.  At startup (NoTab) only the running ones are.
Waiting(f) ==
  /\ posts[f.post].status \in Unfinished
  /\ posts[f.post].attempt >= f.attempt

QueueEvent(c, e) ==
  LET r == e[2]
      root == roots[r]
      f == root.finish
  IN  /\ Idle(c) /\ e \in due /\ due' = due \ {e}
      /\ IF root.status = "ending" /\ f.by = e[1] /\ ~ Waiting(f)
         THEN Step(c, [NoProc EXCEPT !.kind = "confirm", !.pc = "confirm", !.root = r,
                         !.post = f.post, !.attempt = f.attempt,
                         !.found = <<posts[f.post].status>>])
         ELSE IF root.status = "running" THEN Step(c, Scan("quiet", r))
         ELSE UNCHANGED procs
      /\ UNCHANGED <<roots, posts, thread, preparing, contexts, inbound, leafDue, spent>>

\* A stop settles however its turn ended, a completion only if the turn completed
\* or its prompt is gone.  The mutant does nothing after a turn that failed.
ConfirmedOnlySuccess(root, x) ==
  IF root.status = "ending" /\ root.finish.post = x.post /\ x.found[1] \in {"completed", "deleted"}
  THEN Closed(root, IF root.finish.intent = "stop" THEN "stopped" ELSE "completed") ELSE root
Confirmed(root, x) ==
  IF root.status # "ending" \/ root.finish.post # x.post \/ root.finish.attempt # x.attempt THEN root
  ELSE IF root.finish.intent = "stop" THEN Closed(root, "stopped")
  ELSE IF x.found[1] \in {"completed", "deleted"} THEN Closed(root, "completed")
  ELSE [root EXCEPT !.status = "running", !.finish = NoFinish]

Confirm(c) ==
  /\ procs[c].pc = "confirm"
  /\ WriteRoot(procs[c].root, Confirmed(roots[procs[c].root], procs[c]))
  /\ Done(c)
  /\ UNCHANGED <<posts, thread, preparing, contexts, inbound, due, leafDue, spent>>

-----------------------------------------------------------------------------
\* A restart: what is in memory is gone; the startup recovery settles the prompts
\* that were in flight, and running roots are swept once.
Restart ==
  /\ spent.restarts > 0 /\ spent' = [spent EXCEPT !.restarts = @ - 1, !.restarted = TRUE]
  /\ \E outcome \in {"completed", "failed"} :
       posts' = [p \in Ids |-> IF posts[p].status = "running"
                               THEN [posts[p] EXCEPT !.status = outcome] ELSE posts[p]]
  /\ preparing' = [t \in Tabs |-> NoPrep]
  /\ contexts' = {}
  /\ inbound' = [t \in Tabs |-> 0]
  /\ procs' = [c \in Procs |-> NoProc]
  /\ due' = {<<NoTab, r>> : r \in {x \in RootIds : roots[x].status # "none"}}
  /\ leafDue' = {}
  /\ UNCHANGED <<roots, thread>>

CollabInit ==
  /\ roots = [r \in RootIds |-> NoRoot]
  /\ posts = [p \in Ids |-> NoPost]
  /\ thread = [t \in Tabs |-> 1]
  /\ preparing = [t \in Tabs |-> NoPrep]
  /\ contexts = {} /\ inbound = [t \in Tabs |-> 0]
  /\ procs = [c \in Procs |-> NoProc]
  /\ due = {} /\ leafDue = {}
  /\ \E load \in Loads : spent = [calls |-> load.calls, acts |-> load.acts, kinds |-> load.kinds,
                                 restarts |-> load.restarts, restarted |-> FALSE]

\* Steps nobody has to ask for: they follow from awaits, timers and agents.  An event
\* is handled before anything else happens, as long as a slot is free.
Events == \E c \in Procs, e \in due : QueueEvent(c, e)
Handled == due = {} \/ \A c \in Procs : procs[c] # NoProc

CollabSystem ==
  \/ Events
  \/ /\ Handled
     /\ \/ \E c \in Procs : \/ BeginRoot(c) \/ Reserve(c) \/ Deliver(c) \/ Record(c) \/ Refund(c)
                            \/ CancelPending(c) \/ ReadQueue(c) \/ Settle(c) \/ Confirm(c)
                            \/ \E p \in leafDue : LeafReplies(c, p)
        \/ \E t \in Tabs : PrepareBegin(t) \/ PrepareJoin(t) \/ (\E p \in Ids : PrepareRead(t, p))
        \/ \E p \in Ids : \E o \in {"completed", "failed"} : TurnEnds(p, o)

CollabUser ==
  /\ Handled
  /\ \/ \E c \in Procs : \/ WriteCollaboration(c)
                         \/ \E r \in RootIds, k \in {"complete", "stop"} : UserEnds(c, r, k)
                         \/ \E x \in contexts : \/ CallFinish(c, x)
                                                \/ \E to \in Tabs, rid \in RequestIds : CallSend(c, x, to, rid)
     \/ \E x \in contexts : CallExpired(x)
     \/ \E t \in Tabs : (\E p \in Ids : WritePlain(t, p)) \/ (\E k \in 0..2 : SwitchThread(t, k)) \/ MinutePasses(t)
     \/ \E p \in Ids : Retry(p) \/ DeletePost(p)
     \/ WriteFirst
     \/ Restart

CollabNext == CollabSystem \/ CollabUser
CollabSpec == CollabInit /\ [][CollabNext]_collabVars
=============================================================================
