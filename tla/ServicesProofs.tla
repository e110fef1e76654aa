---------------------------- MODULE ServicesProofs ----------------------------
(***************************************************************************)
(* What collaborations keep for any number of prompts, roots, requests and *)
(* messages: the budget, the receipts, and the promise they implement; and *)
(* what the timers of a conversation keep for any timers, schedules and    *)
(* clock.                                                                  *)
(*                                                                         *)
(* The collaborations under the hypothesis that the queue does not roll    *)
(* while the @@ prompt is being added (Rolling): a queue that does may     *)
(* begin the root of that prompt twice, and the second beginning gives its *)
(* budget anew.  The background hold of the timers under the hypothesis    *)
(* that no page reads or writes timers while the service reads them        *)
(* without the lock (Races).                                               *)
(***************************************************************************)
EXTENDS CollaborationSafety, TimerService, FiniteSetTheorems, SequenceTheorems,
        WellFoundedInduction, TLAPS

Statuses     == {"none", "pending", "running", "ending"} \cup Ended
PostStatuses == Unfinished \cup {"unused", "completed", "failed", "deleted"}
SomeTab      == Tabs \cup {NoTab}
Member       == [tab : SomeTab, level : Nat]
FirstT       == [post : Ids, attempt : Nat, by : SomeTab]
FinishT      == [intent : {"none", "complete", "stop"}, by : SomeTab, post : 0..MaxPrompts,
                 attempt : Nat]
ReceiptT     == [post : Ids, attempt : Nat, rid : RequestIds \cup {0}, to : SomeTab, msg : Ids]
RootT        == [status : Statuses, used : 0..Messages, members : Seq(Member), finish : FinishT,
                 receipts : SUBSET ReceiptT]
PostT        == [tab : SomeTab, status : PostStatuses, root : 0..MaxRoots, depth : 0..Depth,
                 from : 0..MaxPrompts, attempt : Nat, thread : Nat]
PrepT        == [post : 0..MaxPrompts, root : 0..MaxRoots, depth : 0..Depth,
                 pc : {"none", "plain", "begin", "join"}]
ContextT     == [post : Ids, attempt : Nat, root : RootIds, depth : 0..Depth, thread : Nat]

PostingPcs  == {"reserve", "deliver", "refund", "record"}
ScanningPcs == {"scan", "cancel"}
Kinds       == {"idle", "begin", "send", "leaf", "finish", "stop", "complete", "quiet", "confirm"}
Pcs         == {"idle", "begin", "confirm"} \cup PostingPcs \cup ScanningPcs
\* What a request has found is of another type for every kind.
ProcT(found) == [kind : Kinds, pc : Pcs, root : 0..MaxRoots, post : 0..MaxPrompts, attempt : Nat,
                 depth : Nat, to : SomeTab, rid : RequestIds \cup {0}, members : Seq(Member),
                 todo : Seq(Member), found : {found}]
ProcTyped(x) ==
  /\ x \in ProcT(x.found)
  /\ x.pc \in PostingPcs => x.kind \in {"send", "leaf"} /\ x.post \in Ids /\ x.to \in Tabs
  /\ x.kind = "leaf" => x.rid = 0
  /\ x.pc \in PostingPcs \ {"reserve"} => x.depth <= Depth
  /\ x.kind = "send" => x.depth <= Depth
  /\ x.pc = "record" => x.found[1] \in Ids
  /\ x.pc \in ScanningPcs => x.found \in Seq(FirstT)

Typed ==
  /\ roots \in [RootIds -> RootT]
  /\ posts \in [Ids -> PostT]
  /\ thread \in [Tabs -> Nat]
  /\ preparing \in [Tabs -> PrepT]
  /\ contexts \subseteq ContextT
  /\ procs = [c \in Procs |-> procs[c]] /\ \A c \in Procs : ProcTyped(procs[c])
  /\ due \subseteq SomeTab \X RootIds
  /\ leafDue \subseteq Ids
  /\ spent \in [calls : Nat, acts : Nat, restarts : Nat, kinds : {spent.kinds}, restarted : BOOLEAN]

\* A root that was not begun has no trace but the prompt that will begin it; the first
\* root is that of the @@ prompt and every other one follows it.
Lives ==
  /\ \A r \in RootIds :
       /\ roots[r].status = "none" => roots[r] = NoRoot
       /\ roots[r].status # "none" => roots[1].status # "none" /\ posts[1].root # 0
  /\ \A p \in Ids :
       /\ posts[p].status = "unused" => posts[p] = NoPost
       /\ posts[p].status # "unused" => posts[p].tab \in Tabs
       /\ posts[p].from # 0 =>
            p # 1 /\ posts[p].root # 0 /\ posts[posts[p].from].status # "unused"
       /\ posts[p].root # 0 =>
            roots[posts[p].root].status # "none" \/ (p = 1 /\ posts[p].root = 1)
  /\ posts[1].status # "unused" => posts[1].tab = Origin
  /\ \A x \in contexts : roots[x.root].status # "none"
  /\ \A p \in leafDue : posts[p].root # 0 /\ posts[p].from # 0
  /\ \A c \in Procs : procs[c].pc \notin {"idle", "begin"} =>
       procs[c].root \in RootIds /\ roots[procs[c].root].status # "none"
  /\ \A c \in Procs : procs[c].pc \in PostingPcs => posts[procs[c].post].status # "unused"

\* A dispatch and the write of the @@ prompt never begin the same root.
PrepRight(t) ==
  LET x == preparing[t]
  IN  /\ x.pc \in {"begin", "join"} <=> x.root # 0
      /\ x.pc # "none" =>
           /\ x.post \in Ids /\ posts[x.post].tab = t /\ posts[x.post].status # "unused"
           /\ posts[x.post].from # 0 => x.root \in {0, posts[x.post].root}
      /\ x.root # 0 => posts[1].root # 0
      /\ x.pc = "join" => roots[x.root].status # "none"
      /\ x.pc = "begin" =>
           /\ roots[x.root].status = "none"
           /\ \A u \in Tabs \ {t} : preparing[u].root # x.root
           /\ IF x.root = 1 THEN x.post = 1 ELSE roots[1].status # "none"

BeginRight(c) ==
  procs[c].pc = "begin" =>
    /\ procs[c].root = 1 /\ posts[1].root = 1 /\ roots[1].status = "none"
    /\ \A d \in Procs \ {c} : procs[d].pc # "begin"
    /\ \A t \in Tabs : preparing[t].root = 0

Beginnings == (\A t \in Tabs : PrepRight(t)) /\ (\A c \in Procs : BeginRight(c))

\* A request about to write its receipt names a message of its own.
RecordRight(c) ==
  procs[c].pc = "record" =>
    LET x == procs[c]
        p == x.found[1]
    IN  /\ p \in Ids /\ posts[p].root = x.root /\ posts[p].from = x.post /\ posts[p].tab = x.to
        /\ \A y \in roots[x.root].receipts : y.msg # p
        /\ \A d \in Procs \ {c} : procs[d].pc = "record" => procs[d].found[1] # p
ReceiptsInv == ReceiptTellsTruth /\ \A c \in Procs : RecordRight(c)

RootsKeepTypes ==
  \A r \in RootIds :
    /\ roots[r].status = "ending" <=> roots[r].finish # NoFinish
    /\ \A i, j \in DOMAIN roots[r].members :
         roots[r].members[i].tab = roots[r].members[j].tab => i = j

CollabInv == Typed /\ Lives /\ Beginnings /\ RootsKeepTypes

-----------------------------------------------------------------------------
(* Choices of the least and of the latest. *)

\* A non-empty set of naturals has a least element.
LEMMA SmallestExists ==
    ASSUME NEW S, S \subseteq Nat, S # {}
    PROVE  \E x \in S : \A y \in S : x <= y
<1> DEFINE less == OpToRel(<, Nat)
<1>1. less = {ss \in Nat \X Nat : ss[1] < ss[2]}
  BY DEF OpToRel
<1>2. IsWellFoundedOn(less, Nat)
  BY NatLessThanWellFounded
<1> HIDE DEF less
<1>3. PICK x \in S : \A y \in S : ~(<<y, x>> \in less)
  BY <1>2, WFMin
<1>4. ASSUME NEW y \in S PROVE x <= y
  <2>1. x \in Nat /\ y \in Nat /\ <<y, x>> \in Nat \X Nat
    BY <1>3
  <2>2. ~(y < x)
    BY <1>1, <1>3, <2>1
  <2> QED
    BY <2>1, <2>2
<1> QED
  BY <1>3, <1>4

\* A non-empty set of numbers up to a bound has a latest one.
LEMMA LatestIsChosen ==
    ASSUME NEW n \in Nat, NEW S, S \subseteq 1..n, S # {}
    PROVE  Latest(S) \in S
<1> DEFINE D == {n - x : x \in S}
<1>1. \A x \in S : x \in Nat /\ x <= n /\ n - x \in Nat
  OBVIOUS
<1>2. D \subseteq Nat /\ D # {}
  BY <1>1
<1>3. PICK d \in D : \A e \in D : d <= e
  BY <1>2, SmallestExists
<1>4. PICK x \in S : d = n - x
  BY <1>3
<1>5. ASSUME NEW y \in S PROVE y <= x
  <2>1. d <= n - y /\ x \in Nat /\ y \in Nat
    BY <1>1, <1>3
  <2> QED
    BY <1>4, <2>1
<1> QED
  BY <1>5, Zenon DEF Latest

-----------------------------------------------------------------------------
(* The operators of the root file and of the queues. *)

LEMMA Bounds == /\ MaxPrompts \in Nat \ {0} /\ MaxRoots \in Nat \ {0} /\ Messages \in Nat \ {0}
                /\ Depth \in Nat \ {0} /\ Origin \in Tabs
BY CollabAssumption

LEMMA BeginsTyped == Begun \in RootT /\ Begun.status = "pending" /\ Begun.used = 1
                       /\ Begun.finish = NoFinish /\ Begun.members = <<>> /\ Begun.receipts = {}
<1>1. NoFinish \in FinishT /\ 1 \in 0..Messages /\ <<>> \in Seq(Member)
  BY Bounds DEF FinishT, NoFinish, SomeTab
<1> QED
  BY <1>1 DEF Begun, NoRoot, RootT, Statuses

\* Joining adds at most one member, and changes nothing else.
LEMMA JoinAdds ==
    ASSUME NEW root \in RootT, NEW t \in SomeTab, NEW level \in Nat
    PROVE  /\ Join(root, t, level) \in RootT
           /\ Join(root, t, level) = [root EXCEPT !.members = Join(root, t, level).members]
           /\ IsMember(Join(root, t, level), t)
           /\ \A u : IsMember(root, u) => IsMember(Join(root, t, level), u)
           /\ (\A i, j \in DOMAIN root.members :
                 root.members[i].tab = root.members[j].tab => i = j)
              => \A i, j \in DOMAIN Join(root, t, level).members :
                   Join(root, t, level).members[i].tab = Join(root, t, level).members[j].tab => i = j
<1> DEFINE m == [tab |-> t, level |-> level]
           old == root.members
           new == Append(old, m)
<1>1. m \in Member /\ old \in Seq(Member)
  BY DEF Member, RootT
<1>2. /\ new \in Seq(Member) /\ Len(new) = Len(old) + 1
      /\ \A i \in 1..Len(old) : new[i] = old[i]
      /\ new[Len(old) + 1] = m
  BY <1>1, AppendProperties
<1>3. Len(old) \in Nat /\ DOMAIN old = 1..Len(old) /\ DOMAIN new = 1..Len(old)+1
  BY <1>1, <1>2, LenProperties
<1>4. CASE IsMember(root, t)
  <2>1. Join(root, t, level) = root
    BY <1>4 DEF Join
  <2> QED
    BY <2>1, <1>4 DEF RootT
<1>5. CASE ~ IsMember(root, t)
  <2> DEFINE J == Join(root, t, level)
  <2>1. J = [root EXCEPT !.members = new]
    BY <1>5 DEF Join
  <2>2. J \in RootT /\ J.members = new /\ J = [root EXCEPT !.members = J.members]
    BY <2>1, <1>2 DEF RootT
  <2> HIDE DEF J
  <2>3. IsMember(J, t)
    <3>1. Len(old) + 1 \in DOMAIN J.members /\ J.members[Len(old) + 1].tab = t
      BY <2>2, <1>2, <1>3
    <3> QED
      BY <3>1 DEF IsMember
  <2>4. ASSUME NEW u, IsMember(root, u) PROVE IsMember(J, u)
    <3>1. PICK i \in DOMAIN old : old[i].tab = u
      BY <2>4 DEF IsMember
    <3>2. i \in DOMAIN J.members /\ J.members[i].tab = u
      BY <3>1, <2>2, <1>2, <1>3
    <3> QED
      BY <3>2 DEF IsMember
  <2>5. ASSUME \A i, j \in DOMAIN old : old[i].tab = old[j].tab => i = j,
               NEW i \in DOMAIN new, NEW j \in DOMAIN new, new[i].tab = new[j].tab
        PROVE  i = j
    <3>1. \A k \in DOMAIN old : old[k].tab # t
      BY <1>5 DEF IsMember
    <3>2. CASE i \in 1..Len(old) /\ j \in 1..Len(old)
      BY <3>2, <2>5, <1>2, <1>3
    <3>3. CASE i = Len(old) + 1 /\ j \in 1..Len(old)
      BY <3>3, <3>1, <2>5, <1>2, <1>3
    <3>4. CASE j = Len(old) + 1 /\ i \in 1..Len(old)
      BY <3>4, <3>1, <2>5, <1>2, <1>3
    <3> QED
      BY <3>2, <3>3, <3>4, <1>3
  <2> QED
    BY <2>2, <2>3, <2>4, <2>5 DEF J
<1> QED
  BY <1>4, <1>5

\* The level of a member is one a member has.
LEMMA LevelIsNat ==
    ASSUME NEW root \in RootT, NEW t, IsMember(root, t)
    PROVE  Level(root, t) \in Nat
<1> DEFINE i == CHOOSE i \in DOMAIN root.members : root.members[i].tab = t
<1>1. root.members \in Seq(Member)
  BY DEF RootT
<1>2. i \in DOMAIN root.members
  BY Zenon DEF IsMember
<1>3. root.members[i] \in Member
  BY <1>1, <1>2, ElementOfSeq, LenProperties
<1> QED
  BY <1>3 DEF Level, Member

\* A turn that starts in a root joins it, and starts it.
LEMMA StartsRunning ==
    ASSUME NEW root \in RootT, NEW p \in Ids, posts[p].tab \in SomeTab
    PROVE  LET s == Started(root, p) IN
           /\ s \in RootT /\ s.used = root.used /\ s.finish = root.finish
           /\ s.receipts = root.receipts
           /\ s.status = IF root.status = "pending" THEN "running" ELSE root.status
           /\ \A u : IsMember(root, u) => IsMember(s, u)
           /\ (\A i, j \in DOMAIN root.members :
                 root.members[i].tab = root.members[j].tab => i = j)
              => \A i, j \in DOMAIN s.members : s.members[i].tab = s.members[j].tab => i = j
<1> DEFINE J == Join(root, posts[p].tab, IF p = 1 THEN 0 ELSE 1)
           s == Started(root, p)
<1>1. (IF p = 1 THEN 0 ELSE 1) \in Nat
  OBVIOUS
<1>2. /\ J \in RootT /\ J = [root EXCEPT !.members = J.members]
      /\ \A u : IsMember(root, u) => IsMember(J, u)
      /\ (\A i, j \in DOMAIN root.members :
            root.members[i].tab = root.members[j].tab => i = j)
         => \A i, j \in DOMAIN J.members : J.members[i].tab = J.members[j].tab => i = j
  BY <1>1, JoinAdds
<1> HIDE DEF J
<1>3. /\ J.status = root.status /\ J.used = root.used /\ J.finish = root.finish
      /\ J.receipts = root.receipts
  BY <1>2 DEF RootT
<1>4. s = IF J.status = "pending" THEN [J EXCEPT !.status = "running"] ELSE J
  BY DEF Started, J
<1>5. /\ s \in RootT /\ s.members = J.members /\ s.used = J.used /\ s.finish = J.finish
      /\ s.receipts = J.receipts
      /\ s.status = IF J.status = "pending" THEN "running" ELSE J.status
  <2>1. J \in RootT /\ "running" \in Statuses
    BY <1>2 DEF Statuses
  <2>2. CASE J.status = "pending"
    <3>1. s = [J EXCEPT !.status = "running"]
      BY <1>4, <2>2
    <3> HIDE DEF s
    <3> QED
      BY <2>1, <2>2, <3>1 DEF RootT
  <2>3. CASE J.status # "pending"
    BY <1>4, <2>1, <2>3
  <2> QED
    BY <2>2, <2>3
<1> HIDE DEF s
<1>6. \A u : IsMember(J, u) => IsMember(s, u)
  BY <1>5 DEF IsMember
<1> QED
  BY <1>2, <1>3, <1>5, <1>6 DEF s

\* The first prompt of a queue that is outstanding, as a stop remembers it.
LEMMA FirstTyped ==
    ASSUME Typed, NEW S, S \subseteq Ids, S # {}
    PROVE  First(S) \in FirstT
<1> DEFINE p == CHOOSE x \in S : \A y \in S : x <= y
<1>1. S \subseteq Nat
  BY DEF Ids
<1>2. p \in S
  BY <1>1, SmallestExists, Zenon
<1>3. First(S) = [post |-> p, attempt |-> posts[p].attempt, by |-> posts[p].tab]
  BY DEF First
<1> HIDE DEF p
<1> QED
  BY <1>2, <1>3 DEF Typed, PostT, FirstT

\* A prompt continues the root it names, or the latest one its tab is working in.
LEMMA RequestedRoot ==
    ASSUME Typed, NEW p \in Ids
    PROVE  LET meta == Requested(p) IN
           /\ meta.root \in 0..MaxRoots /\ meta.depth \in 0..Depth
           /\ posts[p].root # 0 => meta.root = posts[p].root
           /\ posts[p].root = 0 /\ meta.root # 0 => roots[meta.root].status \in {"running", "ending"}
<1> DEFINE t == posts[p].tab
           r == Latest(Continues(t))
           S == {q \in QueueOf(t) : posts[q].root = r}
<1>0. MaxPrompts \in Nat /\ MaxRoots \in Nat /\ Depth \in Nat
  BY Bounds
<1>1. CASE posts[p].root # 0
  <2>1. Requested(p) = [root |-> posts[p].root, depth |-> posts[p].depth]
    BY <1>1 DEF Requested
  <2> QED
    BY <2>1, <1>1 DEF Typed, PostT
<1>2. CASE posts[p].root = 0 /\ Continues(t) = {}
  <2>1. Requested(p) = [root |-> 0, depth |-> 0]
    BY <1>2 DEF Requested
  <2> QED
    BY <2>1, <1>0, <1>2
<1>3. CASE posts[p].root = 0 /\ Continues(t) # {}
  <2>1. Requested(p) = [root |-> r, depth |-> LastDepth(t, r)]
    BY <1>3 DEF Requested
  <2>2. r \in Continues(t)
    BY <1>0, <1>3, LatestIsChosen DEF Continues, RootIds
  <2>3. r \in RootIds /\ roots[r].status \in {"running", "ending"}
    BY <2>2 DEF Continues
  <2>4. LastDepth(t, r) \in 0..Depth
    <3>1. CASE S = {}
      BY <3>1, <1>0 DEF LastDepth
    <3>2. CASE S # {}
      <4>1. Latest(S) \in S
        BY <1>0, <3>2, LatestIsChosen DEF QueueOf, Ids
      <4>2. LastDepth(t, r) = posts[Latest(S)].depth /\ Latest(S) \in Ids
        BY <3>2, <4>1 DEF LastDepth, QueueOf
      <4> QED
        BY <4>2 DEF Typed, PostT
    <3> QED
      BY <3>1, <3>2
  <2> QED
    BY <2>1, <2>3, <2>4, <1>3 DEF RootIds
<1> QED
  BY <1>1, <1>2, <1>3

\* A dispatch works for the root that was requested, or for one nobody has begun.
LEMMA DispatchedRoot ==
    ASSUME Typed, NEW p \in Ids
    PROVE  LET meta == Requested(p)
               r    == RootForDispatch(p, meta)
           IN  /\ r \in 0..MaxRoots
               /\ r # 0 => \/ r = meta.root /\ roots[r].status \notin Ended
                           \/ /\ r \in FreeRoots /\ posts[p].from = 0 /\ meta.root # 0
                              /\ roots[meta.root].status \in Ended
<1> DEFINE meta == Requested(p)
<1>1. meta.root \in 0..MaxRoots
  BY RequestedRoot
<1>2. FreeRoots # {} => (CHOOSE r \in FreeRoots : \A s \in FreeRoots : r <= s) \in FreeRoots
  <2>1. FreeRoots \subseteq Nat
    BY DEF FreeRoots, RootIds
  <2> QED
    BY <2>1, SmallestExists, Zenon
<1>3. FreeRoots \subseteq 0..MaxRoots /\ 0 \in 0..MaxRoots
  BY Bounds DEF FreeRoots, RootIds
<1> HIDE DEF meta
<1> QED
  BY <1>1, <1>2, <1>3 DEF RootForDispatch, meta

\* The receipt of a message, and the member a post makes of its target.
LEMMA PostedRoot ==
    ASSUME Typed, NEW c \in Procs, procs[c].pc = "record", procs[c].root \in RootIds,
           procs[c].found[1] \in Ids
    PROVE  LET x == procs[c]
               r == roots[x.root]
               v == Posted(c)
           IN  /\ v \in RootT /\ v.status = r.status /\ v.used = r.used /\ v.finish = r.finish
               /\ v.receipts = {y \in r.receipts : ~ SameKey(y, Receipt(c, x.found[1]))}
                                 \cup {Receipt(c, x.found[1])}
               /\ Receipt(c, x.found[1]) \in ReceiptT
               /\ \A u : IsMember(r, u) => IsMember(v, u)
               /\ x.rid # 0 => IsMember(v, x.to)
               /\ (\A i, j \in DOMAIN r.members : r.members[i].tab = r.members[j].tab => i = j)
                  => \A i, j \in DOMAIN v.members : v.members[i].tab = v.members[j].tab => i = j
<1> DEFINE x == procs[c]
           r == roots[x.root]
           from == posts[x.post].tab
           level == IF IsMember(r, from) THEN Level(r, from) + 1 ELSE 1
           J == IF x.kind = "leaf" THEN r ELSE Join(r, x.to, level)
           z == Receipt(c, x.found[1])
           v == Posted(c)
<1>1. r \in RootT
  BY DEF Typed
<1>2. /\ x.kind \in {"send", "leaf"} /\ x.post \in Ids /\ x.to \in SomeTab /\ x.attempt \in Nat
      /\ x.rid \in RequestIds \cup {0}
      /\ x.kind = "leaf" => x.rid = 0
  BY DEF Typed, ProcTyped, ProcT, PostingPcs
<1>3. level \in Nat
  BY <1>1, LevelIsNat
<1>4. /\ J \in RootT /\ J = [r EXCEPT !.members = J.members]
      /\ x.kind # "leaf" => IsMember(J, x.to)
      /\ \A u : IsMember(r, u) => IsMember(J, u)
      /\ (\A i, j \in DOMAIN r.members : r.members[i].tab = r.members[j].tab => i = j)
         => \A i, j \in DOMAIN J.members : J.members[i].tab = J.members[j].tab => i = j
  <2>1. CASE x.kind = "leaf"
    BY <2>1, <1>1 DEF RootT
  <2>2. CASE x.kind # "leaf"
    <3> HIDE DEF level
    <3>1. J = Join(r, x.to, level) /\ r \in RootT /\ x.to \in SomeTab /\ level \in Nat
      BY <1>1, <1>2, <1>3, <2>2
    <3> HIDE DEF J, r
    <3> QED
      BY <3>1, JoinAdds
  <2> QED
    BY <2>1, <2>2
<1>5. z \in ReceiptT
  BY <1>2 DEF Receipt, ReceiptT
<1>6. v = [J EXCEPT !.receipts = {y \in @ : ~ SameKey(y, z)} \cup {z}]
  BY DEF Posted, Recorded
<1> HIDE DEF J, z, level
<1>7. /\ J.status = r.status /\ J.used = r.used /\ J.finish = r.finish /\ J.receipts = r.receipts
  BY <1>1, <1>4 DEF RootT
<1>8. {y \in J.receipts : ~ SameKey(y, z)} \cup {z} \subseteq ReceiptT
  BY <1>4, <1>5 DEF RootT
<1>9. /\ v \in RootT /\ v.status = J.status /\ v.used = J.used /\ v.finish = J.finish
      /\ v.members = J.members /\ v.receipts = {y \in J.receipts : ~ SameKey(y, z)} \cup {z}
  BY <1>4, <1>6, <1>8 DEF RootT
<1> HIDE DEF v
<1>10. \A u : IsMember(J, u) => IsMember(v, u)
  BY <1>9 DEF IsMember
<1> QED
  BY <1>2, <1>4, <1>5, <1>7, <1>9, <1>10 DEF J, z, v

\* What a scan or a confirmation may write: the root as it was, its end, or an end
\* that is asked for or taken back.
Settles(root, v) ==
  /\ v \in RootT /\ v.used = root.used /\ v.members = root.members /\ v.receipts = root.receipts
  /\ v.status = "ending" <=> v.finish # NoFinish
  /\ \/ v.status = root.status
     \/ root.status \in {"pending", "running"} /\ v.status = "ending"
     \/ root.status = "ending" /\ v.status = "running"
     \/ root.status \in {"pending", "running", "ending"} /\ v.status \in Ended

LEMMA ClosedSettles ==
    ASSUME NEW root \in RootT, root.status = "ending" <=> root.finish # NoFinish,
           root.status \in {"pending", "running", "ending"}, NEW status \in Ended
    PROVE  Settles(root, Closed(root, status))
<1>1. NoFinish \in FinishT
  BY Bounds DEF FinishT, NoFinish, SomeTab
<1> QED
  BY <1>1 DEF Settles, Closed, RootT, Statuses, Ended

LEMMA EndingSettlesRoot ==
    ASSUME NEW root \in RootT, root.status \in {"pending", "running", "ending"},
           NEW intent \in {"complete", "stop"}, NEW by \in SomeTab, NEW post \in 0..MaxPrompts,
           NEW attempt \in Nat
    PROVE  Settles(root, Ending(root, intent, by, post, attempt))
<1> DEFINE f == [intent |-> intent, by |-> by, post |-> post, attempt |-> attempt]
<1>1. f \in FinishT /\ f # NoFinish
  BY DEF FinishT, NoFinish
<1> HIDE DEF f
<1>2. Ending(root, intent, by, post, attempt) = [root EXCEPT !.status = "ending", !.finish = f]
  BY DEF Ending, f
<1> QED
  BY <1>1, <1>2 DEF Settles, RootT, Statuses

\* The end of a scan.
SettledRoot(c) ==
  LET x == procs[c]
      root == roots[x.root]
  IN  CASE x.kind = "finish" -> Finished(root, x)
        [] x.kind = "quiet"  -> QuietClosed(root, x)
        [] OTHER             -> UserEnded(root, x)

LEMMA KeepingSettles ==
    ASSUME NEW root \in RootT, root.status = "ending" <=> root.finish # NoFinish
    PROVE  Settles(root, root)
BY DEF Settles

LEMMA ScanSettles ==
    ASSUME Typed, Lives, RootsKeepTypes, NEW c \in Procs, procs[c].pc = "scan"
    PROVE  Settles(roots[procs[c].root], SettledRoot(c))
<1> DEFINE x == procs[c]
           root == roots[x.root]
<1>1. x.root \in RootIds /\ root.status # "none"
  BY DEF Lives
<1>2. root \in RootT /\ (root.status = "ending" <=> root.finish # NoFinish)
  BY <1>1 DEF Typed, RootsKeepTypes
<1>3. root.status \in {"pending", "running", "ending"} \cup Ended
  BY <1>1, <1>2 DEF RootT, Statuses
<1>4. x.found \in Seq(FirstT) /\ x.post \in 0..MaxPrompts /\ x.attempt \in Nat
  BY DEF Typed, ProcTyped, ProcT, ScanningPcs
<1>5. Settles(root, Finished(root, x))
  <2>1. CASE root.status \in Ended \cup {"ending"}
    BY <2>1, <1>2, KeepingSettles DEF Finished
  <2>2. CASE root.status \notin Ended \cup {"ending"}
    <3>1. Origin \in SomeTab
      BY Bounds DEF SomeTab
    <3>2. Settles(root, Ending(root, "complete", Origin, x.post, x.attempt))
      BY <1>2, <1>3, <1>4, <2>2, <3>1, EndingSettlesRoot
    <3> QED
      BY <2>2, <3>2 DEF Finished
  <2> QED
    BY <2>1, <2>2
<1>6. Settles(root, QuietClosed(root, x))
  <2>1. CASE root.status # "running"
    BY <2>1, <1>2, KeepingSettles DEF QuietClosed
  <2>2. CASE root.status = "running"
    <3>1. Settles(root, Closed(root, "completed"))
      BY <1>2, <2>2, ClosedSettles DEF Ended
    <3> QED
      BY <2>2, <3>1 DEF QuietClosed
  <2> QED
    BY <2>1, <2>2
<1>7. Settles(root, UserEnded(root, x))
  <2>1. CASE root.status \in Ended
    BY <2>1, <1>2, KeepingSettles DEF UserEnded
  <2>2. CASE root.status \notin Ended /\ (x.found = <<>> \/ (x.kind = "stop" /\ root.status = "ending"))
    <3>1. \A s \in Ended : Settles(root, Closed(root, s))
      BY <1>2, <1>3, <2>2, ClosedSettles
    <3>2. UserEnded(root, x) = Closed(root, IF x.kind = "stop" THEN "stopped" ELSE "completed")
      BY <2>2 DEF UserEnded
    <3> QED
      BY <3>1, <3>2 DEF Ended
  <2>3. CASE root.status \notin Ended /\ ~(x.found = <<>> \/ (x.kind = "stop" /\ root.status = "ending"))
    <3>1. x.found[1] \in FirstT
      <4>1. Len(x.found) \in Nat /\ Len(x.found) # 0
        BY <1>4, <2>3, EmptySeq, LenProperties
      <4> QED
        BY <1>4, <4>1, ElementOfSeq
    <3>2. x.found[1].by \in SomeTab /\ x.found[1].post \in 0..MaxPrompts /\ x.found[1].attempt \in Nat
      BY <3>1, Bounds DEF FirstT, Ids
    <3>3. Settles(root, Ending(root, "stop", x.found[1].by, x.found[1].post, x.found[1].attempt))
      BY <1>2, <1>3, <2>3, <3>2, EndingSettlesRoot
    <3> QED
      BY <2>3, <3>3 DEF UserEnded
  <2> QED
    BY <2>1, <2>2, <2>3
<1> QED
  BY <1>5, <1>6, <1>7 DEF SettledRoot

LEMMA ConfirmSettles ==
    ASSUME Typed, Lives, RootsKeepTypes, NEW c \in Procs, procs[c].pc = "confirm"
    PROVE  Settles(roots[procs[c].root], Confirmed(roots[procs[c].root], procs[c]))
<1> DEFINE x == procs[c]
           root == roots[x.root]
<1>1. x.root \in RootIds /\ root.status # "none"
  BY DEF Lives
<1>2. root \in RootT /\ (root.status = "ending" <=> root.finish # NoFinish)
  BY <1>1 DEF Typed, RootsKeepTypes
<1>3. Settles(root, root)
  BY <1>2, KeepingSettles
<1>4. CASE root.status = "ending"
  <2>1. Settles(root, Closed(root, "stopped")) /\ Settles(root, Closed(root, "completed"))
    BY <1>2, <1>4, ClosedSettles DEF Ended
  <2>2. Settles(root, [root EXCEPT !.status = "running", !.finish = NoFinish])
    <3>1. NoFinish \in FinishT
      BY Bounds DEF FinishT, NoFinish, SomeTab
    <3> QED
      BY <3>1, <1>2, <1>4 DEF Settles, RootT, Statuses
  <2> QED
    BY <1>3, <2>1, <2>2 DEF Confirmed
<1> QED
  BY <1>3, <1>4 DEF Confirmed

-----------------------------------------------------------------------------
(* Most steps move what there is: they write a root that has been begun, change  *)
(* the status of prompts or add one, let a request go on, and drop dispatches.   *)

RootMoves(r) ==
  \/ roots'[r] = roots[r]
  \/ /\ roots[r].status # "none" /\ roots'[r].status # "none" /\ roots'[r] \in RootT
     /\ roots'[r].status = "ending" <=> roots'[r].finish # NoFinish
     /\ \A i, j \in DOMAIN roots'[r].members :
          roots'[r].members[i].tab = roots'[r].members[j].tab => i = j

PostMoves(p) ==
  \/ /\ posts'[p].status = "unused" <=> posts[p].status = "unused"
     /\ posts'[p] = [posts[p] EXCEPT !.status = posts'[p].status]
  \/ /\ posts[p].status = "unused" /\ posts'[p].status = "pending"
     /\ p = 1 => posts'[p].tab = Origin /\ posts'[p].root = 0
     /\ posts'[p].tab \in Tabs
     /\ posts'[p].from # 0 =>
          p # 1 /\ posts'[p].root # 0 /\ posts[posts'[p].from].status # "unused"
     /\ posts'[p].root # 0 => roots[posts'[p].root].status # "none"

Begins(x) == x.pc \in {"idle", "begin"}
ProcMoves(c) ==
  \/ procs'[c] = procs[c]
  \/ /\ ProcTyped(procs'[c])
     /\ procs'[c].pc # "begin"
     /\ procs'[c].pc # "idle" =>
          procs'[c].root \in RootIds /\ roots[procs'[c].root].status # "none"
     /\ procs'[c].pc \in PostingPcs => posts[procs'[c].post].status # "unused"

RootsMove == roots' = [r \in RootIds |-> roots'[r]] /\ \A r \in RootIds : RootMoves(r)
PostsMove == posts' \in [Ids -> PostT] /\ \A p \in Ids : PostMoves(p)
ProcsMove == procs' = [c \in Procs |-> procs'[c]] /\ \A c \in Procs : ProcMoves(c)
PrepMove  == /\ preparing' = [t \in Tabs |-> preparing'[t]]
             /\ \A t \in Tabs : preparing'[t] \in {preparing[t], NoPrep}
RestMoves ==
  /\ thread' \in [Tabs -> Nat]
  /\ contexts' \subseteq contexts
  /\ due' \subseteq SomeTab \X RootIds
  /\ leafDue' \subseteq Ids
  /\ \A p \in leafDue' \ leafDue : posts[p].root # 0 /\ posts[p].from # 0
  /\ spent' \in [calls : Nat, acts : Nat, restarts : Nat, kinds : {spent'.kinds}, restarted : BOOLEAN]

Moves == RootsMove /\ PostsMove /\ ProcsMove /\ PrepMove /\ RestMoves

LEMMA OneIsId == 1 \in Ids /\ 1 \in RootIds
BY Bounds DEF Ids, RootIds

LEMMA MovesKeepTypes ==
    ASSUME CollabInv, Moves
    PROVE  Typed'
<1>1. Typed
  BY DEF CollabInv
<1>2. roots' \in [RootIds -> RootT]
  <2>1. ASSUME NEW r \in RootIds PROVE roots'[r] \in RootT
    BY <1>1 DEF Moves, RootsMove, RootMoves, Typed
  <2> QED
    BY <2>1 DEF Moves, RootsMove
<1>3. NoPrep \in PrepT
  BY Bounds DEF NoPrep, PrepT
<1>4. preparing' \in [Tabs -> PrepT]
  <2>1. ASSUME NEW t \in Tabs PROVE preparing'[t] \in PrepT
    BY <1>1, <1>3 DEF Moves, PrepMove, Typed
  <2> QED
    BY <2>1 DEF Moves, PrepMove
<1>5. \A c \in Procs : ProcTyped(procs'[c])
  BY <1>1 DEF Moves, ProcsMove, ProcMoves, Typed
<1>6. contexts' \subseteq ContextT
  BY <1>1 DEF Moves, RestMoves, Typed
<1> QED
  BY <1>2, <1>4, <1>5, <1>6 DEF Moves, PostsMove, ProcsMove, RestMoves, Typed, ProcTyped

LEMMA MovesKeepRoots ==
    ASSUME CollabInv, Moves
    PROVE  /\ \A r \in RootIds : (roots'[r].status = "none") = (roots[r].status = "none")
           /\ RootsKeepTypes'
<1>1. \A r \in RootIds : RootMoves(r)
  BY DEF Moves, RootsMove
<1> QED
  BY <1>1 DEF RootMoves, RootsKeepTypes, CollabInv

LEMMA MovesKeepPosts ==
    ASSUME CollabInv, Moves, NEW p \in Ids
    PROVE  /\ posts[p].status # "unused" => /\ posts'[p].status # "unused"
                                            /\ posts'[p].tab = posts[p].tab
                                            /\ posts'[p].root = posts[p].root
                                            /\ posts'[p].from = posts[p].from
           /\ posts[p].status = "unused" => posts[p] = NoPost
           /\ posts'[p].status = "unused" => posts'[p] = NoPost
           /\ posts'[p].status # "unused" => posts'[p].tab \in Tabs
           /\ posts'[p].from # 0 =>
                p # 1 /\ posts'[p].root # 0 /\ posts[posts'[p].from].status # "unused"
           /\ posts'[p].root # 0 =>
                posts'[p].root \in RootIds
                /\ (roots[posts'[p].root].status # "none" \/ (p = 1 /\ posts'[p].root = 1))
           /\ p = 1 => posts'[p].root = posts[p].root
<1>1. PostMoves(p) /\ posts[p] \in PostT /\ posts'[p] \in PostT
  BY DEF Moves, PostsMove, CollabInv, Typed
<1>2. /\ posts[p].status = "unused" => posts[p] = NoPost
      /\ posts[p].status # "unused" => posts[p].tab \in Tabs
      /\ posts[p].from # 0 =>
           p # 1 /\ posts[p].root # 0 /\ posts[posts[p].from].status # "unused"
      /\ posts[p].root # 0 =>
           roots[posts[p].root].status # "none" \/ (p = 1 /\ posts[p].root = 1)
  BY DEF CollabInv, Lives
<1>3. NoPost.root = 0 /\ NoPost.from = 0 /\ NoPost.status = "unused"
  BY DEF NoPost
<1>4. posts'[p].root # 0 => posts'[p].root \in RootIds
  BY <1>1, Bounds DEF PostT, RootIds
<1>5. CASE /\ posts'[p].status = "unused" <=> posts[p].status = "unused"
           /\ posts'[p] = [posts[p] EXCEPT !.status = posts'[p].status]
  <2>1. /\ posts'[p].tab = posts[p].tab /\ posts'[p].root = posts[p].root
        /\ posts'[p].from = posts[p].from
    BY <1>1, <1>5 DEF PostT
  <2>2. posts'[p].status = "unused" => posts'[p] = NoPost
    BY <1>1, <1>2, <1>5 DEF NoPost
  <2> QED
    BY <2>1, <2>2, <1>2, <1>4, <1>5
<1>6. CASE ~ (/\ posts'[p].status = "unused" <=> posts[p].status = "unused"
              /\ posts'[p] = [posts[p] EXCEPT !.status = posts'[p].status])
  BY <1>1, <1>2, <1>3, <1>4, <1>6 DEF PostMoves
<1> QED
  BY <1>5, <1>6

LEMMA MovesKeepLives ==
    ASSUME CollabInv, Moves
    PROVE  Lives'
<1>1. /\ \A r \in RootIds : (roots'[r].status = "none") = (roots[r].status = "none")
      /\ \A r \in RootIds : roots'[r].status = "none" => roots'[r] = roots[r]
  BY MovesKeepRoots DEF Moves, RootsMove, RootMoves
<1>2. \A r \in RootIds :
        /\ roots[r].status = "none" => roots[r] = NoRoot
        /\ roots[r].status # "none" => roots[1].status # "none" /\ posts[1].root # 0
  BY DEF CollabInv, Lives
<1>3. posts'[1].root = posts[1].root
  BY MovesKeepPosts, OneIsId
<1>4. posts'[1].status # "unused" => posts'[1].tab = Origin
  <2>1. PostMoves(1) /\ (posts[1].status # "unused" => posts[1].tab = Origin)
    BY OneIsId DEF Moves, PostsMove, CollabInv, Lives
  <2>2. posts[1].status # "unused" => posts'[1].tab = posts[1].tab
    BY OneIsId, MovesKeepPosts
  <2> QED
    BY <2>1, <2>2 DEF PostMoves
<1>5. \A p \in Ids :
       /\ posts'[p].status = "unused" => posts'[p] = NoPost
       /\ posts'[p].status # "unused" => posts'[p].tab \in Tabs
       /\ posts'[p].from # 0 =>
            p # 1 /\ posts'[p].root # 0 /\ posts'[posts'[p].from].status # "unused"
       /\ posts'[p].root # 0 =>
            roots'[posts'[p].root].status # "none" \/ (p = 1 /\ posts'[p].root = 1)
  <2> TAKE p \in Ids
  <2>1. posts'[p].from # 0 => posts'[p].from \in Ids
    <3>1. posts'[p] \in PostT
      BY DEF Moves, PostsMove
    <3>2. posts'[p].from \in 0..MaxPrompts
      BY <3>1 DEF PostT
    <3> QED
      BY <3>2, Bounds DEF Ids
  <2>2. posts'[p].from # 0 => posts'[posts'[p].from].status # "unused"
    BY <2>1, MovesKeepPosts
  <2> QED
    BY <1>1, <2>2, MovesKeepPosts
<1>6. \A x \in contexts' : roots'[x.root].status # "none"
  <2>1. \A x \in contexts' : x \in contexts /\ x.root \in RootIds /\ roots[x.root].status # "none"
    BY DEF Moves, RestMoves, CollabInv, Lives, Typed, ContextT
  <2> QED
    BY <2>1, <1>1
<1>7. \A c \in Procs : procs'[c].pc \notin {"idle", "begin"} =>
        procs'[c].root \in RootIds /\ roots'[procs'[c].root].status # "none"
  <2>1. \A c \in Procs : ProcMoves(c)
    BY DEF Moves, ProcsMove
  <2>2. \A c \in Procs : procs[c].pc \notin {"idle", "begin"} =>
        procs[c].root \in RootIds /\ roots[procs[c].root].status # "none"
    BY DEF CollabInv, Lives
  <2> QED
    BY <1>1, <2>1, <2>2 DEF ProcMoves
<1>8. \A p \in leafDue' : posts'[p].root # 0 /\ posts'[p].from # 0
  <2>1. \A p \in leafDue' : p \in Ids /\ posts[p].root # 0 /\ posts[p].from # 0
    BY DEF Moves, RestMoves, CollabInv, Lives
  <2>2. \A p \in leafDue' : posts[p].status # "unused"
    BY <2>1 DEF CollabInv, Lives, NoPost
  <2> QED
    BY <2>1, <2>2, MovesKeepPosts
<1>9. \A c \in Procs : procs'[c].pc \in PostingPcs => posts'[procs'[c].post].status # "unused"
  <2> TAKE c \in Procs
  <2>1. procs'[c].pc \in PostingPcs => /\ procs'[c].post \in Ids
                                       /\ posts[procs'[c].post].status # "unused"
    BY DEF Moves, ProcsMove, ProcMoves, CollabInv, Typed, Lives, ProcTyped
  <2> QED
    BY <2>1, MovesKeepPosts
<1> QED
  BY <1>1, <1>2, <1>3, <1>4, <1>5, <1>6, <1>7, <1>8, <1>9, OneIsId DEF Lives

LEMMA MovesKeepBeginnings ==
    ASSUME CollabInv, Moves
    PROVE  Beginnings'
<1>1. \A r \in RootIds : (roots'[r].status = "none") = (roots[r].status = "none")
  BY MovesKeepRoots
<1>2. ASSUME NEW t \in Tabs PROVE PrepRight(t)'
  <2>1. PrepRight(t) /\ preparing[t] \in PrepT
    BY DEF CollabInv, Beginnings, Typed
  <2>2. CASE preparing'[t] = NoPrep
    BY <2>2 DEF PrepRight, NoPrep
  <2>3. CASE preparing'[t] = preparing[t] /\ preparing[t] # NoPrep
    <3> DEFINE x == preparing[t]
    <3>1. x.root # 0 => x.root \in RootIds
      BY <2>1, Bounds DEF PrepT, RootIds
    <3>2. x.pc # "none" => /\ x.post \in Ids
                           /\ posts'[x.post].tab = posts[x.post].tab
                           /\ posts'[x.post].status # "unused"
                           /\ posts'[x.post].from = posts[x.post].from
                           /\ posts'[x.post].root = posts[x.post].root
      BY <2>1, MovesKeepPosts DEF PrepRight
    <3>3. posts'[1].root = posts[1].root
      BY MovesKeepPosts, OneIsId
    <3>4. ASSUME NEW u \in Tabs, preparing[u].root # x.root, x.root # 0
          PROVE  preparing'[u].root # x.root
      BY <3>4 DEF Moves, PrepMove, NoPrep
    <3> QED
      BY <2>1, <2>3, <3>1, <3>2, <3>3, <3>4, <1>1, OneIsId DEF PrepRight
  <2> QED
    BY <2>2, <2>3 DEF Moves, PrepMove
<1>3. ASSUME NEW c \in Procs PROVE BeginRight(c)'
  <2>1. \A d \in Procs : procs'[d].pc = "begin" => procs'[d] = procs[d]
    BY DEF Moves, ProcsMove, ProcMoves
  <2>2. BeginRight(c)
    BY DEF CollabInv, Beginnings
  <2>3. posts'[1].root = posts[1].root
    BY MovesKeepPosts, OneIsId
  <2>4. ASSUME NEW t \in Tabs, preparing[t].root = 0 PROVE preparing'[t].root = 0
    BY <2>4 DEF Moves, PrepMove, NoPrep
  <2> QED
    BY <2>1, <2>2, <2>3, <2>4, <1>1, OneIsId DEF BeginRight
<1> QED
  BY <1>2, <1>3 DEF Beginnings

\* What moves keeps the invariant.
LEMMA MovesKeep ==
    ASSUME CollabInv, Moves
    PROVE  CollabInv'
BY MovesKeepTypes, MovesKeepRoots, MovesKeepLives, MovesKeepBeginnings DEF CollabInv

-----------------------------------------------------------------------------
(* What each part of a step is worth to Moves. *)

LEMMA RootsStay == ASSUME CollabInv, roots' = roots PROVE RootsMove
BY DEF CollabInv, Typed, RootsMove, RootMoves

LEMMA PostsStay == ASSUME CollabInv, posts' = posts PROVE PostsMove
BY DEF CollabInv, Typed, PostsMove, PostMoves, PostT

LEMMA ProcsStay == ASSUME CollabInv, procs' = procs PROVE ProcsMove
BY DEF CollabInv, Typed, ProcsMove, ProcMoves

LEMMA PrepStays == ASSUME CollabInv, preparing' = preparing PROVE PrepMove
BY DEF CollabInv, Typed, PrepMove

\* What an act of the user or a call of an agent takes from the load.
LEMMA LoadTaken ==
    ASSUME CollabInv
    PROVE  /\ UNCHANGED spent => spent' \in [calls : Nat, acts : Nat, restarts : Nat,
                                             kinds : {spent'.kinds}, restarted : BOOLEAN]
           /\ Calls => spent' \in [calls : Nat, acts : Nat, restarts : Nat,
                                   kinds : {spent'.kinds}, restarted : BOOLEAN]
           /\ \A kind : Acts(kind) => spent' \in [calls : Nat, acts : Nat, restarts : Nat,
                                                  kinds : {spent'.kinds}, restarted : BOOLEAN]
<1>1. spent \in [calls : Nat, acts : Nat, restarts : Nat, kinds : {spent.kinds}, restarted : BOOLEAN]
  BY DEF CollabInv, Typed
<1>2. ASSUME Calls PROVE spent' \in [calls : Nat, acts : Nat, restarts : Nat,
                                     kinds : {spent'.kinds}, restarted : BOOLEAN]
  BY <1>1, <1>2 DEF Calls
<1>3. ASSUME NEW kind, Acts(kind)
      PROVE spent' \in [calls : Nat, acts : Nat, restarts : Nat,
                        kinds : {spent'.kinds}, restarted : BOOLEAN]
  BY <1>1, <1>3 DEF Acts
<1> QED
  BY <1>1, <1>2, <1>3

LEMMA RestStays ==
    ASSUME CollabInv, thread' = thread, contexts' = contexts, due' = due, leafDue' = leafDue,
           spent' = spent
    PROVE  RestMoves
BY LoadTaken DEF CollabInv, Typed, RestMoves

LEMMA EventsTyped ==
    ASSUME NEW rs, NEW t \in SomeTab
    PROVE  EventsIn(rs, t) \subseteq SomeTab \X RootIds
BY DEF EventsIn

LEMMA NoProcTyped == ProcTyped(NoProc) /\ NoProc.pc = "idle"
<1>1. <<>> \in Seq(Member)
  OBVIOUS
<1> QED
  BY <1>1, Bounds DEF ProcTyped, ProcT, NoProc, Kinds, Pcs, PostingPcs, ScanningPcs, SomeTab

\* One request takes a step.
LEMMA StepsOne ==
    ASSUME CollabInv, NEW c \in Procs, NEW rec, Step(c, rec)
    PROVE  /\ procs' = [d \in Procs |-> procs'[d]] /\ procs'[c] = rec
           /\ \A d \in Procs \ {c} : procs'[d] = procs[d]
<1>1. procs = [d \in Procs |-> procs[d]]
  BY DEF CollabInv, Typed
<1> QED
  BY <1>1 DEF Step

LEMMA StepMoves ==
    ASSUME CollabInv, NEW c \in Procs, NEW rec, Step(c, rec), ProcTyped(rec),
           rec.pc # "begin",
           rec.pc # "idle" => rec.root \in RootIds /\ roots[rec.root].status # "none",
           rec.pc \in PostingPcs => posts[rec.post].status # "unused"
    PROVE  ProcsMove
BY StepsOne DEF ProcsMove, ProcMoves

LEMMA DoneMoves == ASSUME CollabInv, NEW c \in Procs, Done(c) PROVE ProcsMove
BY NoProcTyped, StepMoves DEF Done, PostingPcs

\* One root is written.
LEMMA WriteMoves ==
    ASSUME CollabInv, NEW r \in RootIds, NEW v \in RootT, WriteRoot(r, v),
           roots[r].status # "none", v.status # "none",
           v.status = "ending" <=> v.finish # NoFinish,
           \A i, j \in DOMAIN v.members : v.members[i].tab = v.members[j].tab => i = j
    PROVE  /\ RootsMove
           /\ roots'[r] = v /\ \A s \in RootIds \ {r} : roots'[s] = roots[s]
<1>1. roots \in [RootIds -> RootT]
  BY DEF CollabInv, Typed
<1>2. /\ roots' = [s \in RootIds |-> roots'[s]] /\ roots'[r] = v
      /\ \A s \in RootIds \ {r} : roots'[s] = roots[s]
  BY <1>1 DEF WriteRoot
<1>3. \A s \in RootIds : RootMoves(s)
  BY <1>2 DEF RootMoves
<1> QED
  BY <1>2, <1>3 DEF RootsMove

\* Prompts change their status alone.
LEMMA StatusMoves ==
    ASSUME CollabInv, NEW S \in [Ids -> PostStatuses],
           posts' = [p \in Ids |-> [posts[p] EXCEPT !.status = S[p]]],
           \A p \in Ids : S[p] = "unused" <=> posts[p].status = "unused"
    PROVE  PostsMove
<1>1. posts \in [Ids -> PostT]
  BY DEF CollabInv, Typed
<1>2. ASSUME NEW p \in Ids PROVE PostMoves(p) /\ posts'[p] \in PostT
  <2>1. posts'[p] = [posts[p] EXCEPT !.status = S[p]] /\ posts[p] \in PostT
    BY <1>1
  <2>2. posts'[p].status = S[p] /\ posts'[p] \in PostT
    BY <2>1 DEF PostT
  <2> QED
    BY <2>1, <2>2 DEF PostMoves
<1> QED
  BY <1>2 DEF PostsMove

\* A prompt is added where there was none.
LEMMA AddMoves ==
    ASSUME CollabInv, NEW p \in Ids, NEW v \in PostT, posts[p].status = "unused",
           posts' = [posts EXCEPT ![p] = v], v.status = "pending",
           p = 1 => v.tab = Origin /\ v.root = 0, v.tab \in Tabs,
           v.from # 0 => p # 1 /\ v.root # 0 /\ posts[v.from].status # "unused",
           v.root # 0 => roots[v.root].status # "none"
    PROVE  PostsMove
<1>1. posts \in [Ids -> PostT]
  BY DEF CollabInv, Typed
<1>2. /\ posts' \in [Ids -> PostT] /\ posts'[p] = v
      /\ \A q \in Ids \ {p} : posts'[q] = posts[q]
  BY <1>1
<1>3. PostMoves(p)
  BY <1>2 DEF PostMoves
<1>4. ASSUME NEW q \in Ids \ {p} PROVE PostMoves(q)
  <2>1. posts'[q] = posts[q] /\ posts[q] \in PostT
    BY <1>1, <1>2
  <2> QED
    BY <2>1 DEF PostMoves, PostT
<1> QED
  BY <1>2, <1>3, <1>4 DEF PostsMove

-----------------------------------------------------------------------------
(* The steps that move. *)

\* Only the load and what nothing depends on change.
LEMMA CallExpiredMoves == ASSUME CollabInv, NEW x \in contexts, CallExpired(x) PROVE Moves
<1>1. RestMoves
  BY LoadTaken DEF CallExpired, CollabInv, Typed, RestMoves
<1> QED
  BY <1>1, RootsStay, PostsStay, ProcsStay, PrepStays DEF CallExpired, Moves

LEMMA MinutePassesMoves == ASSUME CollabInv, NEW t \in Tabs, MinutePasses(t) PROVE Moves
BY RestStays, RootsStay, PostsStay, ProcsStay, PrepStays DEF MinutePasses, Moves

LEMMA NewPostTyped ==
    ASSUME NEW t \in SomeTab
    PROVE  LET v == [NoPost EXCEPT !.tab = t, !.status = "pending"] IN
           /\ v \in PostT /\ v.tab = t /\ v.status = "pending" /\ v.root = 0 /\ v.from = 0
           /\ v.depth = 0 /\ v.attempt = 0 /\ v.thread = 0
<1>1. 0 \in 0..MaxRoots /\ 0 \in 0..Depth /\ 0 \in 0..MaxPrompts
  BY Bounds
<1>2. {"unused", "pending"} \subseteq PostStatuses /\ NoTab \in SomeTab
  BY DEF PostStatuses, Unfinished, SomeTab
<1>3. NoPost \in PostT
  BY <1>1, <1>2 DEF NoPost, PostT
<1> QED
  BY <1>2, <1>3 DEF NoPost, PostT

LEMMA WriteFirstMoves == ASSUME CollabInv, WriteFirst PROVE Moves
<1> DEFINE v == [NoPost EXCEPT !.tab = Origin, !.status = "pending"]
<1>1. v \in PostT /\ v.status = "pending" /\ v.tab = Origin /\ v.root = 0 /\ v.from = 0
  BY NewPostTyped, Bounds DEF SomeTab
<1>2. posts[1].status = "unused" /\ posts' = [posts EXCEPT ![1] = v]
  BY DEF WriteFirst
<1> HIDE DEF v
<1>3. PostsMove
  BY <1>1, <1>2, Bounds, OneIsId, AddMoves
<1>4. RestMoves
  BY LoadTaken DEF WriteFirst, CollabInv, Typed, RestMoves
<1> QED
  BY <1>3, <1>4, RootsStay, ProcsStay, PrepStays DEF WriteFirst, Moves

LEMMA WritePlainMoves ==
    ASSUME CollabInv, NEW t \in Tabs, NEW p \in Ids, WritePlain(t, p)
    PROVE  Moves
<1> DEFINE v == [NoPost EXCEPT !.tab = t, !.status = "pending"]
<1>1. v \in PostT /\ v.status = "pending" /\ v.root = 0 /\ v.from = 0 /\ v.tab = t
  BY NewPostTyped DEF SomeTab
<1>2. posts[p].status = "unused" /\ p # 1 /\ posts' = [posts EXCEPT ![p] = v]
  BY DEF WritePlain
<1> HIDE DEF v
<1>3. PostsMove
  BY <1>1, <1>2, AddMoves
<1>4. RestMoves
  BY LoadTaken DEF WritePlain, CollabInv, Typed, RestMoves
<1> QED
  BY <1>3, <1>4, RootsStay, ProcsStay, PrepStays DEF WritePlain, Moves

\* One prompt changes its status.
LEMMA OneStatusMoves ==
    ASSUME CollabInv, NEW p \in Ids, NEW s \in PostStatuses \ {"unused"},
           posts[p].status # "unused", posts' = [posts EXCEPT ![p].status = s]
    PROVE  PostsMove
<1> DEFINE S == [q \in Ids |-> IF q = p THEN s ELSE posts[q].status]
<1>1. posts \in [Ids -> PostT]
  BY DEF CollabInv, Typed
<1>2. S \in [Ids -> PostStatuses] /\ \A q \in Ids : S[q] = "unused" <=> posts[q].status = "unused"
  BY <1>1 DEF PostT
<1>3. posts' = [q \in Ids |-> [posts[q] EXCEPT !.status = S[q]]]
  <2>1. \A q \in Ids : posts'[q] = [posts[q] EXCEPT !.status = S[q]]
    BY <1>1 DEF PostT
  <2>2. posts' = [q \in Ids |-> posts'[q]]
    BY <1>1
  <2> QED
    BY <2>1, <2>2, Zenon
<1> HIDE DEF S
<1> QED
  BY <1>2, <1>3, StatusMoves

LEMMA RetryMoves == ASSUME CollabInv, NEW p \in Ids, Retry(p) PROVE Moves
<1>1. PostsMove
  BY OneStatusMoves DEF Retry, PostStatuses, Unfinished
<1>2. posts[p].tab \in SomeTab
  BY DEF CollabInv, Typed, PostT
<1>3. RestMoves
  BY <1>2, EventsTyped, LoadTaken DEF Retry, CollabInv, Typed, RestMoves
<1> QED
  BY <1>1, <1>3, RootsStay, ProcsStay, PrepStays DEF Retry, Moves

LEMMA DeletePostMoves == ASSUME CollabInv, NEW p \in Ids, DeletePost(p) PROVE Moves
<1>1. PostsMove
  BY OneStatusMoves DEF DeletePost, PostStatuses
<1>2. RestMoves
  BY LoadTaken DEF DeletePost, CollabInv, Typed, RestMoves
<1> QED
  BY <1>1, <1>2, RootsStay, ProcsStay, PrepStays DEF DeletePost, Moves

LEMMA TurnEndsMoves ==
    ASSUME CollabInv, NEW p \in Ids, NEW o \in {"completed", "failed"}, TurnEnds(p, o)
    PROVE  Moves
<1>1. PostsMove
  BY OneStatusMoves DEF TurnEnds, PostStatuses
<1>2. posts[p].tab \in SomeTab
  BY DEF CollabInv, Typed, PostT
<1>3. RestMoves
  BY <1>2, EventsTyped, LoadTaken DEF TurnEnds, CollabInv, Typed, RestMoves
<1> QED
  BY <1>1, <1>3, RootsStay, ProcsStay, PrepStays DEF TurnEnds, Moves

\* Some prompts of one status take another one together.
LEMMA SomeStatusesMove ==
    ASSUME CollabInv, NEW Q \in SUBSET Ids, NEW s \in PostStatuses \ {"unused"},
           \A p \in Q : posts[p].status # "unused",
           posts' = [p \in Ids |-> IF p \in Q THEN [posts[p] EXCEPT !.status = s] ELSE posts[p]]
    PROVE  PostsMove
<1> DEFINE S == [p \in Ids |-> IF p \in Q THEN s ELSE posts[p].status]
<1>1. posts \in [Ids -> PostT]
  BY DEF CollabInv, Typed
<1>2. S \in [Ids -> PostStatuses] /\ \A p \in Ids : S[p] = "unused" <=> posts[p].status = "unused"
  BY <1>1 DEF PostT
<1>3. \A p \in Ids : (IF p \in Q THEN [posts[p] EXCEPT !.status = s] ELSE posts[p])
                       = [posts[p] EXCEPT !.status = S[p]]
  BY <1>1 DEF PostT
<1>4. posts' = [p \in Ids |-> [posts[p] EXCEPT !.status = S[p]]]
  BY <1>3, Zenon
<1> HIDE DEF S
<1> QED
  BY <1>2, <1>4, StatusMoves

LEMMA SwitchThreadMoves ==
    ASSUME CollabInv, NEW t \in Tabs, NEW k \in 0..2, SwitchThread(t, k)
    PROVE  Moves
<1> DEFINE Q == {p \in Ids : posts[p].tab = t /\ posts[p].status = "running"}
<1>1. PostsMove
  <2>1. posts' = [p \in Ids |-> IF p \in Q THEN [posts[p] EXCEPT !.status = "failed"] ELSE posts[p]]
    BY DEF SwitchThread
  <2>2. Q \in SUBSET Ids /\ \A p \in Q : posts[p].status # "unused"
    OBVIOUS
  <2> HIDE DEF Q
  <2> QED
    BY <2>1, <2>2, SomeStatusesMove DEF PostStatuses
<1>2. RestMoves
  <2>1. thread' \in [Tabs -> Nat]
    BY DEF SwitchThread, CollabInv, Typed
  <2>2. due' \subseteq SomeTab \X RootIds
    BY EventsTyped DEF SwitchThread, CollabInv, Typed, SomeTab
  <2> QED
    BY <2>1, <2>2, LoadTaken DEF SwitchThread, CollabInv, Typed, RestMoves
<1> QED
  BY <1>1, <1>2, RootsStay, ProcsStay, PrepStays DEF SwitchThread, Moves

LEMMA RestartMoves == ASSUME CollabInv, Restart PROVE Moves
<1> DEFINE Q == {p \in Ids : posts[p].status = "running"}
<1>1. PostsMove
  <2>1. PICK o \in {"completed", "failed"} :
          posts' = [p \in Ids |-> IF p \in Q THEN [posts[p] EXCEPT !.status = o] ELSE posts[p]]
    BY DEF Restart
  <2>2. Q \in SUBSET Ids /\ \A p \in Q : posts[p].status # "unused"
    OBVIOUS
  <2> HIDE DEF Q
  <2> QED
    BY <2>1, <2>2, SomeStatusesMove DEF PostStatuses
<1>2. ProcsMove
  BY NoProcTyped DEF Restart, ProcsMove, ProcMoves, PostingPcs
<1>3. PrepMove
  BY DEF Restart, PrepMove
<1>4. RestMoves
  <2>1. due' \subseteq SomeTab \X RootIds
    BY DEF Restart, SomeTab
  <2>2. spent' \in [calls : Nat, acts : Nat, restarts : Nat, kinds : {spent'.kinds}, restarted : BOOLEAN]
    <3>1. /\ spent \in [calls : Nat, acts : Nat, restarts : Nat, kinds : {spent.kinds},
                         restarted : BOOLEAN]
          /\ spent.restarts > 0
          /\ spent' = [spent EXCEPT !.restarts = @ - 1, !.restarted = TRUE]
      BY DEF Restart, CollabInv, Typed
    <3>2. spent.restarts - 1 \in Nat
      BY <3>1
    <3> QED
      BY <3>1, <3>2
  <2> QED
    BY <2>1, <2>2 DEF Restart, CollabInv, Typed, RestMoves
<1> QED
  BY <1>1, <1>2, <1>3, <1>4, RootsStay DEF Restart, Moves

\* A call of an agent, or of the user, starts a request in a root that has been begun.
LEMMA AgentCallsMoves ==
    ASSUME CollabInv, NEW c \in Procs, NEW x \in contexts, NEW op, AgentCalls(c, x, op),
           NEW rec, Step(c, rec), ProcTyped(rec), rec.pc \notin {"idle", "begin"}, rec.root = x.root,
           rec.pc \in PostingPcs => rec.post = x.post
    PROVE  Moves
<1>1. x.root \in RootIds /\ roots[x.root].status # "none"
  BY DEF CollabInv, Typed, Lives, ContextT
<1>2. ProcsMove
  BY <1>1, StepMoves DEF AgentCalls, ContextHolds
<1>3. RestMoves
  BY LoadTaken DEF AgentCalls, CollabInv, Typed, RestMoves
<1> QED
  BY <1>2, <1>3, RootsStay, PostsStay, PrepStays DEF AgentCalls, Moves

LEMMA CallSendMoves ==
    ASSUME CollabInv, NEW c \in Procs, NEW x \in contexts, NEW to \in Tabs, NEW rid \in RequestIds,
           CallSend(c, x, to, rid)
    PROVE  Moves
<1> DEFINE rec == [NoProc EXCEPT !.kind = "send", !.pc = "reserve", !.root = x.root, !.post = x.post,
                            !.attempt = x.attempt, !.depth = x.depth + 1, !.to = to, !.rid = rid]
<1>1. x \in ContextT /\ x.depth + 1 <= Depth
  BY DEF CollabInv, Typed, CallSend
<1>2. x.root \in 0..MaxRoots /\ x.post \in Ids /\ x.post \in 0..MaxPrompts /\ x.depth + 1 \in Nat
      /\ x.attempt \in Nat
  BY <1>1, Bounds DEF ContextT, RootIds, Ids
<1>3. NoProc \in ProcT(<<>>)
  BY NoProcTyped DEF ProcTyped, NoProc
<1>4. rec \in ProcT(<<>>) /\ rec.found = <<>>
  BY <1>2, <1>3 DEF ProcT, NoProc, Kinds, Pcs, PostingPcs, SomeTab
<1>5. /\ rec.kind = "send" /\ rec.pc = "reserve" /\ rec.root = x.root /\ rec.post = x.post
      /\ rec.depth = x.depth + 1 /\ rec.to = to
  BY DEF NoProc
<1>6. Step(c, rec) /\ AgentCalls(c, x, "send")
  BY DEF CallSend
<1> HIDE DEF rec
<1>7. ProcTyped(rec)
  BY <1>1, <1>2, <1>4, <1>5 DEF ProcTyped, PostingPcs, ScanningPcs
<1> QED
  BY <1>5, <1>6, <1>7, AgentCallsMoves

\* A scan reads the queues of the members the root has now.
LEMMA ScanTyped ==
    ASSUME CollabInv, NEW r \in RootIds, NEW kind \in {"finish", "stop", "complete", "quiet"}
    PROVE  LET s == Scan(kind, r) IN
           /\ ProcTyped(s) /\ s.pc = "scan" /\ s.root = r /\ s.kind = kind /\ s.found = <<>>
<1> DEFINE s == Scan(kind, r)
<1>1. NoProc \in ProcT(<<>>)
  BY NoProcTyped DEF ProcTyped, NoProc
<1>2. roots[r].members \in Seq(Member) /\ r \in 0..MaxRoots
  BY Bounds DEF CollabInv, Typed, RootT, RootIds
<1>3. /\ s \in ProcT(<<>>) /\ s.found = <<>> /\ s.pc = "scan" /\ s.root = r /\ s.kind = kind
  BY <1>1, <1>2 DEF Scan, ProcT, NoProc, Kinds, Pcs, ScanningPcs
<1>4. <<>> \in Seq(FirstT)
  OBVIOUS
<1> HIDE DEF s
<1>5. ProcTyped(s)
  BY <1>3, <1>4 DEF ProcTyped, ScanningPcs, PostingPcs
<1> QED
  BY <1>3, <1>5 DEF s

\* A stop cancels before it reads, a finish names its turn.
LEMMA ScanVariesTyped ==
    ASSUME NEW s, ProcTyped(s), s.pc = "scan", NEW p \in Ids, NEW a \in Nat
    PROVE  /\ ProcTyped([s EXCEPT !.pc = "cancel"])
           /\ ProcTyped([s EXCEPT !.post = p, !.attempt = a])
<1>1. Ids \subseteq 0..MaxPrompts
  BY Bounds DEF Ids
<1> DEFINE u == [s EXCEPT !.pc = "cancel"]
           v == [s EXCEPT !.post = p, !.attempt = a]
<1>2. s \in ProcT(s.found) /\ s.found \in Seq(FirstT)
  BY DEF ProcTyped, ScanningPcs
<1>3. /\ u \in ProcT(s.found) /\ u.found = s.found /\ u.pc = "cancel" /\ u.kind = s.kind
      /\ u.rid = s.rid /\ u.depth = s.depth
  BY <1>2 DEF ProcT, Pcs, ScanningPcs
<1>4. /\ v \in ProcT(s.found) /\ v.found = s.found /\ v.pc = "scan" /\ v.kind = s.kind
      /\ v.rid = s.rid /\ v.depth = s.depth
  BY <1>1, <1>2 DEF ProcT
<1> HIDE DEF u, v
<1>5. ProcTyped(u)
  BY <1>2, <1>3 DEF ProcTyped, PostingPcs
<1>6. ProcTyped(v)
  BY <1>2, <1>4 DEF ProcTyped, PostingPcs
<1> QED
  BY <1>5, <1>6 DEF u, v

LEMMA CallFinishMoves ==
    ASSUME CollabInv, NEW c \in Procs, NEW x \in contexts, CallFinish(c, x)
    PROVE  Moves
<1> DEFINE s == Scan("finish", x.root)
           rec == [s EXCEPT !.post = x.post, !.attempt = x.attempt]
<1>1. x.root \in RootIds /\ x.post \in Ids /\ x.attempt \in Nat
  BY DEF CollabInv, Typed, ContextT
<1>2. ProcTyped(s) /\ s.pc = "scan" /\ s.root = x.root
  BY <1>1, ScanTyped
<1> HIDE DEF s
<1>3. ProcTyped(rec)
  BY <1>1, <1>2, ScanVariesTyped
<1>4. rec.pc = "scan" /\ rec.root = x.root
  BY <1>2 DEF ProcTyped, ProcT
<1>5. Step(c, rec) /\ AgentCalls(c, x, "finish")
  BY DEF CallFinish, s
<1> HIDE DEF rec
<1> QED
  BY <1>3, <1>4, <1>5, AgentCallsMoves DEF PostingPcs

LEMMA UserEndsMoves ==
    ASSUME CollabInv, NEW c \in Procs, NEW r \in RootIds, NEW k \in {"complete", "stop"},
           UserEnds(c, r, k)
    PROVE  Moves
<1> DEFINE s == Scan(k, r)
           rec == IF k = "stop" THEN [s EXCEPT !.pc = "cancel"] ELSE s
<1>0. k \in {"finish", "stop", "complete", "quiet"}
  OBVIOUS
<1>1. ProcTyped(s) /\ s.pc = "scan" /\ s.root = r
  BY <1>0, ScanTyped
<1>2. Step(c, rec) /\ roots[r].status # "none"
  BY DEF UserEnds
<1> HIDE DEF s
<1>3. ProcTyped(rec) /\ rec.pc \in {"scan", "cancel"} /\ rec.root = r
  <2>1. ProcTyped([s EXCEPT !.pc = "cancel"])
    BY <1>1, ScanVariesTyped, OneIsId
  <2>2. [s EXCEPT !.pc = "cancel"].pc = "cancel" /\ [s EXCEPT !.pc = "cancel"].root = r
    BY <1>1 DEF ProcTyped, ProcT
  <2> QED
    BY <1>1, <2>1, <2>2
<1> HIDE DEF rec
<1>4. ProcsMove
  BY <1>2, <1>3, StepMoves DEF PostingPcs
<1>5. RestMoves
  BY LoadTaken DEF UserEnds, CollabInv, Typed, RestMoves
<1> QED
  BY <1>4, <1>5, RootsStay, PostsStay, PrepStays DEF UserEnds, Moves

LEMMA LeafRepliesMoves ==
    ASSUME CollabInv, NEW c \in Procs, NEW p \in leafDue, LeafReplies(c, p)
    PROVE  Moves
<1> DEFINE r == posts[p].root
           t == posts[p].tab
           depth == 1 + (IF IsMember(roots[r], t) THEN Level(roots[r], t) ELSE posts[p].depth)
           rec == [NoProc EXCEPT !.kind = "leaf", !.pc = "reserve", !.root = r, !.post = p,
                     !.depth = depth, !.to = posts[posts[p].from].tab]
<1>1. p \in Ids /\ posts[p] \in PostT /\ posts[p].root # 0 /\ posts[p].from # 0
  BY DEF CollabInv, Typed, Lives
<1>2. r \in RootIds /\ posts[p].from \in Ids /\ r \in 0..MaxRoots /\ p \in 0..MaxPrompts
  BY <1>1, Bounds DEF PostT, RootIds, Ids
<1>3. posts[posts[p].from].tab \in Tabs /\ posts[p].status # "unused"
  <2>1. posts[posts[p].from].status # "unused"
    BY <1>1 DEF CollabInv, Lives
  <2>2. posts[p].status # "unused"
    BY <1>1 DEF CollabInv, Lives, NoPost
  <2> QED
    BY <1>2, <2>1, <2>2 DEF CollabInv, Lives
<1>4. roots[r] \in RootT
  BY <1>2 DEF CollabInv, Typed
<1>5. depth \in Nat
  BY <1>1, <1>4, Bounds, LevelIsNat DEF PostT
<1>6. RestMoves
  BY LoadTaken DEF LeafReplies, CollabInv, Typed, RestMoves
<1>7. NoProc \in ProcT(<<>>)
  BY NoProcTyped DEF ProcTyped, NoProc
<1>8. CASE procs' = procs
  BY <1>8, <1>6, RootsStay, PostsStay, PrepStays, ProcsStay DEF LeafReplies, Moves
<1>9. CASE procs' # procs
  <2>1. roots[r].status = "running" /\ Step(c, rec)
    BY <1>9 DEF LeafReplies
  <2> HIDE DEF depth, r
  <2>2. rec \in ProcT(<<>>) /\ rec.found = <<>>
    BY <1>2, <1>3, <1>5, <1>7 DEF ProcT, NoProc, Kinds, Pcs, PostingPcs, SomeTab
  <2>3. /\ rec.kind = "leaf" /\ rec.pc = "reserve" /\ rec.root = r /\ rec.post = p /\ rec.rid = 0
        /\ rec.to \in Tabs
    BY <1>3 DEF NoProc
  <2> HIDE DEF rec
  <2>4. ProcTyped(rec)
    BY <1>1, <2>2, <2>3 DEF ProcTyped, PostingPcs, ScanningPcs
  <2>5. ProcsMove
    BY <1>2, <1>3, <2>1, <2>3, <2>4, StepMoves
  <2> QED
    BY <2>5, <1>6, RootsStay, PostsStay, PrepStays DEF LeafReplies, Moves
<1> QED
  BY <1>8, <1>9

LEMMA QueueEventMoves ==
    ASSUME CollabInv, NEW c \in Procs, NEW e \in due, QueueEvent(c, e)
    PROVE  Moves
<1> DEFINE r == e[2]
           f == roots[r].finish
           rec == [NoProc EXCEPT !.kind = "confirm", !.pc = "confirm", !.root = r, !.post = f.post,
                     !.attempt = f.attempt, !.found = <<posts[f.post].status>>]
<1>1. r \in RootIds
  BY DEF CollabInv, Typed
<1>2. RestMoves
  BY LoadTaken DEF QueueEvent, CollabInv, Typed, RestMoves
<1>3. CASE procs' = procs
  BY <1>2, <1>3, RootsStay, PostsStay, PrepStays, ProcsStay DEF QueueEvent, Moves
<1>4. CASE roots[r].status = "ending" /\ Step(c, rec)
  <2>1. f \in FinishT
    BY <1>1 DEF CollabInv, Typed, RootT
  <2>2. f.post \in 0..MaxPrompts /\ f.attempt \in Nat /\ r \in 0..MaxRoots
    BY <1>1, <2>1, Bounds DEF FinishT, RootIds
  <2> HIDE DEF f, r
  <2>3. NoProc \in ProcT(<<>>)
    BY NoProcTyped DEF ProcTyped, NoProc
  <2>4. rec \in ProcT(rec.found)
    BY <2>2, <2>3 DEF ProcT, NoProc, Kinds, Pcs
  <2>5. rec.kind = "confirm" /\ rec.pc = "confirm" /\ rec.root = r
    BY DEF NoProc
  <2> HIDE DEF rec
  <2>6. ProcTyped(rec)
    BY <2>4, <2>5 DEF ProcTyped, PostingPcs, ScanningPcs
  <2>7. ProcsMove
    BY <1>1, <1>4, <2>5, <2>6, StepMoves DEF PostingPcs
  <2> QED
    BY <2>7, <1>2, RootsStay, PostsStay, PrepStays DEF QueueEvent, Moves
<1>5. CASE roots[r].status = "running" /\ Step(c, Scan("quiet", r))
  <2>1. ProcTyped(Scan("quiet", r)) /\ Scan("quiet", r).pc = "scan" /\ Scan("quiet", r).root = r
    BY <1>1, ScanTyped
  <2>2. ProcsMove
    BY <1>1, <1>5, <2>1, StepMoves DEF PostingPcs
  <2> QED
    BY <2>2, <1>2, RootsStay, PostsStay, PrepStays DEF QueueEvent, Moves
<1> QED
  BY <1>3, <1>4, <1>5 DEF QueueEvent

\* The steps of a request.
LEMMA RequestTyped ==
    ASSUME CollabInv, NEW c \in Procs, procs[c].pc \notin {"idle", "begin"}
    PROVE  /\ procs[c].root \in RootIds /\ roots[procs[c].root].status # "none"
           /\ roots[procs[c].root] \in RootT /\ ProcTyped(procs[c])
           /\ roots[procs[c].root].status = "ending" <=> roots[procs[c].root].finish # NoFinish
           /\ \A i, j \in DOMAIN roots[procs[c].root].members :
                roots[procs[c].root].members[i].tab = roots[procs[c].root].members[j].tab => i = j
           /\ procs[c].pc \in PostingPcs => posts[procs[c].post].status # "unused"
BY DEF CollabInv, Typed, Lives, RootsKeepTypes

\* The end of a message that was reserved, delivered, recorded or refunded.
LEMMA SentOnTyped ==
    ASSUME CollabInv, NEW c \in Procs, NEW pc \in {"deliver", "refund"},
           procs[c].pc \in PostingPcs, procs[c].depth <= Depth
    PROVE  LET rec == [procs[c] EXCEPT !.pc = pc] IN
           ProcTyped(rec) /\ rec.pc = pc /\ rec.root = procs[c].root /\ rec.post = procs[c].post
<1>1. ProcTyped(procs[c])
  BY DEF CollabInv, Typed
<1> QED
  BY <1>1 DEF ProcTyped, ProcT, Pcs, PostingPcs, ScanningPcs

LEMMA ReserveMoves == ASSUME CollabInv, NEW c \in Procs, Reserve(c) PROVE Moves
<1> DEFINE r == procs[c].root
           v == [roots[r] EXCEPT !.used = @ + 1]
           rec == [procs[c] EXCEPT !.pc = "deliver"]
<1>1. procs[c].pc = "reserve" /\ procs[c].pc \in PostingPcs
  BY DEF Reserve, PostingPcs
<1>2. RestMoves
  BY RestStays DEF Reserve
<1>3. CASE Done(c) /\ UNCHANGED roots
  BY <1>2, <1>3, DoneMoves, RootsStay, PostsStay, PrepStays DEF Reserve, Moves
<1>4. CASE Reservable(roots[r], procs[c].kind, procs[c].depth) /\ WriteRoot(r, v) /\ Step(c, rec)
  <2>1. /\ r \in RootIds /\ roots[r].status # "none" /\ roots[r] \in RootT /\ ProcTyped(procs[c])
        /\ roots[r].status = "ending" <=> roots[r].finish # NoFinish
        /\ \A i, j \in DOMAIN roots[r].members :
             roots[r].members[i].tab = roots[r].members[j].tab => i = j
        /\ posts[procs[c].post].status # "unused"
    BY <1>1, RequestTyped
  <2>2. v \in RootT /\ v.status = roots[r].status /\ v.finish = roots[r].finish
        /\ v.members = roots[r].members
    <3>1. roots[r].used \in Nat /\ roots[r].used < Messages
      BY <1>4, <2>1 DEF Reservable, RootT
    <3>2. roots[r].used + 1 \in 0..Messages
      BY <3>1, Bounds
    <3> QED
      BY <2>1, <3>2 DEF RootT
  <2>3. procs[c].depth <= Depth
    BY <1>1, <1>4, <2>1 DEF Reservable, ProcTyped, PostingPcs
  <2>4. ProcTyped(rec) /\ rec.pc = "deliver" /\ rec.root = r /\ rec.post = procs[c].post
    BY <1>1, <2>3, SentOnTyped
  <2> HIDE DEF rec, v, r
  <2>5. ProcsMove
    BY <1>4, <2>1, <2>4, StepMoves
  <2>6. RootsMove
    BY <1>4, <2>1, <2>2, WriteMoves
  <2> QED
    BY <1>2, <2>5, <2>6, PostsStay, PrepStays DEF Reserve, Moves
<1> QED
  BY <1>3, <1>4 DEF Reserve

LEMMA DeliverMoves == ASSUME CollabInv, NEW c \in Procs, Deliver(c) PROVE Moves
<1> DEFINE x == procs[c]
<1>1. x.pc = "deliver" /\ x.pc \in PostingPcs
  BY DEF Deliver, PostingPcs
<1>2. x.root \in RootIds /\ roots[x.root].status # "none" /\ ProcTyped(x)
      /\ posts[x.post].status # "unused"
  BY <1>1, RequestTyped
<1>3. x.depth <= Depth /\ x.post \in Ids /\ x.to \in Tabs /\ x.depth \in Nat
  BY <1>1, <1>2 DEF ProcTyped, ProcT, PostingPcs
<1>4. CASE Step(c, [x EXCEPT !.pc = "refund"]) /\ UNCHANGED <<posts, due>>
  <2> DEFINE rec == [x EXCEPT !.pc = "refund"]
  <2>1. ProcTyped(rec) /\ rec.pc = "refund" /\ rec.root = x.root /\ rec.post = x.post
    BY <1>1, <1>3, SentOnTyped
  <2> HIDE DEF rec
  <2>2. ProcsMove
    BY <1>2, <1>4, <2>1, StepMoves DEF rec
  <2>3. RestMoves
    BY <1>4, RestStays DEF Deliver
  <2> QED
    BY <1>4, <2>2, <2>3, RootsStay, PostsStay, PrepStays DEF Deliver, Moves
<1>5. ASSUME NEW p \in Ids \ {1}, posts[p].status = "unused", thread[x.to] # 0,
             posts' = [posts EXCEPT ![p] =
               [NoPost EXCEPT !.tab = x.to, !.status = "pending", !.root = x.root,
                  !.depth = x.depth, !.from = x.post, !.thread = thread[x.to]]],
             Step(c, [x EXCEPT !.pc = "record", !.found = <<p>>]),
             due' = due \cup EventsIn(roots, x.to)
      PROVE  Moves
  <2> DEFINE v == [NoPost EXCEPT !.tab = x.to, !.status = "pending", !.root = x.root,
                     !.depth = x.depth, !.from = x.post, !.thread = thread[x.to]]
             rec == [x EXCEPT !.pc = "record", !.found = <<p>>]
  <2>1. rec \in ProcT(<<p>>) /\ rec.found = <<p>> /\ rec.pc = "record" /\ rec.root = x.root
        /\ rec.kind = x.kind /\ rec.post = x.post /\ rec.rid = x.rid /\ rec.depth = x.depth
        /\ rec.to = x.to
    BY <1>2 DEF ProcTyped, ProcT, Pcs, PostingPcs
  <2> HIDE DEF rec
  <2>2. ProcTyped(rec)
    BY <1>1, <1>2, <1>3, <2>1 DEF ProcTyped, PostingPcs, ScanningPcs
  <2>3. ProcsMove
    BY <1>2, <1>5, <2>1, <2>2, StepMoves DEF rec
  <2>4. /\ v \in PostT /\ v.status = "pending" /\ v.root = x.root /\ v.from = x.post
        /\ v.tab = x.to
    <3>1. thread[x.to] \in Nat
      BY <1>3 DEF CollabInv, Typed
    <3>2. x.root \in 0..MaxRoots /\ x.depth \in 0..Depth /\ x.post \in 0..MaxPrompts
      BY <1>2, <1>3, Bounds DEF RootIds, Ids
    <3> DEFINE w == [NoPost EXCEPT !.tab = x.to, !.status = "pending"]
    <3>3. w \in PostT /\ w.tab = x.to /\ w.status = "pending"
      BY <1>3, NewPostTyped DEF SomeTab
    <3>4. v = [w EXCEPT !.root = x.root, !.depth = x.depth, !.from = x.post,
                        !.thread = thread[x.to]]
      BY DEF NoPost
    <3> HIDE DEF v, w
    <3> QED
      BY <3>1, <3>2, <3>3, <3>4 DEF PostT
  <2>5. posts' = [posts EXCEPT ![p] = v]
    BY <1>5
  <2> HIDE DEF v
  <2>6. PostsMove
    <3>1. x.root # 0
      BY <1>2 DEF RootIds
    <3>2. p \in Ids /\ p # 1 /\ posts[p].status = "unused"
      BY <1>5
    <3>3. /\ v.from # 0 => p # 1 /\ v.root # 0 /\ posts[v.from].status # "unused"
          /\ v.root # 0 => roots[v.root].status # "none"
          /\ v.tab \in Tabs
      BY <1>2, <1>3, <2>4, <3>1, <3>2
    <3> QED
      BY <2>4, <2>5, <3>2, <3>3, AddMoves
  <2>7. RestMoves
    BY <1>3, <1>5, EventsTyped, LoadTaken DEF Deliver, CollabInv, Typed, RestMoves, SomeTab
  <2> QED
    BY <2>3, <2>6, <2>7, RootsStay, PrepStays DEF Deliver, Moves
<1> QED
  BY <1>4, <1>5 DEF Deliver

LEMMA RecordMoves == ASSUME CollabInv, NEW c \in Procs, Record(c) PROVE Moves
<1> DEFINE r == procs[c].root
           v == Posted(c)
<1>1. procs[c].pc = "record" /\ WriteRoot(r, v) /\ Done(c)
  BY DEF Record
<1>2. /\ r \in RootIds /\ roots[r].status # "none" /\ procs[c].found[1] \in Ids
      /\ roots[r].status = "ending" <=> roots[r].finish # NoFinish
      /\ \A i, j \in DOMAIN roots[r].members :
           roots[r].members[i].tab = roots[r].members[j].tab => i = j
  BY <1>1, RequestTyped DEF ProcTyped
<1>3. Typed
  BY DEF CollabInv
<1>4. /\ v \in RootT /\ v.status = roots[r].status /\ v.finish = roots[r].finish
      /\ \A i, j \in DOMAIN v.members : v.members[i].tab = v.members[j].tab => i = j
  BY <1>1, <1>2, <1>3, PostedRoot
<1> HIDE DEF v, r
<1>5. RootsMove
  BY <1>1, <1>2, <1>4, WriteMoves
<1>6. ProcsMove
  BY <1>1, DoneMoves
<1>7. RestMoves
  BY RestStays DEF Record
<1> QED
  BY <1>5, <1>6, <1>7, PostsStay, PrepStays DEF Record, Moves

LEMMA RefundMoves == ASSUME CollabInv, NEW c \in Procs, Refund(c) PROVE Moves
<1> DEFINE r == procs[c].root
           v == [roots[r] EXCEPT !.used = IF @ > 0 THEN @ - 1 ELSE 0]
<1>1. procs[c].pc = "refund" /\ roots' = Refunded(c) /\ Done(c)
  BY DEF Refund
<1>2. /\ r \in RootIds /\ roots[r].status # "none" /\ roots[r] \in RootT
      /\ roots[r].status = "ending" <=> roots[r].finish # NoFinish
      /\ \A i, j \in DOMAIN roots[r].members :
           roots[r].members[i].tab = roots[r].members[j].tab => i = j
  BY <1>1, RequestTyped
<1>3. WriteRoot(r, v)
  BY <1>1 DEF Refunded, WriteRoot
<1>4. v \in RootT /\ v.status = roots[r].status /\ v.finish = roots[r].finish
      /\ v.members = roots[r].members
  <2>1. roots[r].used \in 0..Messages
    BY <1>2 DEF RootT
  <2>2. (IF roots[r].used > 0 THEN roots[r].used - 1 ELSE 0) \in 0..Messages
    BY <2>1, Bounds
  <2> QED
    BY <1>2, <2>2 DEF RootT
<1> HIDE DEF v, r
<1>5. RootsMove
  BY <1>2, <1>3, <1>4, WriteMoves
<1>6. ProcsMove
  BY <1>1, DoneMoves
<1>7. RestMoves
  BY RestStays DEF Refund
<1> QED
  BY <1>5, <1>6, <1>7, PostsStay, PrepStays DEF Refund, Moves

\* A request that goes on with the members that are left.
LEMMA ScansOn ==
    ASSUME CollabInv, NEW c \in Procs, procs[c].pc \in ScanningPcs, NEW pc \in ScanningPcs,
           NEW todo \in Seq(Member), NEW found \in Seq(FirstT),
           Step(c, [procs[c] EXCEPT !.pc = pc, !.todo = todo, !.found = found])
    PROVE  ProcsMove
<1> DEFINE rec == [procs[c] EXCEPT !.pc = pc, !.todo = todo, !.found = found]
<1>1. ProcTyped(procs[c]) /\ procs[c].root \in RootIds /\ roots[procs[c].root].status # "none"
  BY RequestTyped DEF ScanningPcs
<1>2. /\ rec \in ProcT(found) /\ rec.pc = pc /\ rec.root = procs[c].root /\ rec.found = found
      /\ rec.kind = procs[c].kind /\ rec.rid = procs[c].rid /\ rec.depth = procs[c].depth
  BY <1>1 DEF ProcTyped, ProcT, Pcs
<1>3. Step(c, rec)
  OBVIOUS
<1> HIDE DEF rec
<1>4. ProcTyped(rec)
  BY <1>1, <1>2 DEF ProcTyped, PostingPcs, ScanningPcs
<1> QED
  BY <1>1, <1>2, <1>3, <1>4, StepMoves DEF PostingPcs, ScanningPcs

LEMMA CancelPendingMoves == ASSUME CollabInv, NEW c \in Procs, CancelPending(c) PROVE Moves
<1> DEFINE x == procs[c]
           t == Head(x.todo).tab
           Q == {p \in Ids : posts[p].tab = t /\ posts[p].root = x.root /\ posts[p].status = "pending"}
<1>1. x.pc = "cancel" /\ x.pc \in ScanningPcs
  BY DEF CancelPending, ScanningPcs
<1>2. x \in ProcT(x.found) /\ x.members \in Seq(Member) /\ x.todo \in Seq(Member) /\ x.found \in Seq(FirstT)
  BY <1>1 DEF CollabInv, Typed, ProcTyped, ProcT
<1>3. RestMoves
  BY RestStays DEF CancelPending
<1>4. CASE x.todo = <<>>
  <2>1. [x EXCEPT !.pc = "scan", !.todo = x.members]
          = [x EXCEPT !.pc = "scan", !.todo = x.members, !.found = x.found]
    BY <1>2 DEF ProcT
  <2>2. ProcsMove
    BY <1>1, <1>2, <1>4, <2>1, ScansOn DEF CancelPending, ScanningPcs
  <2> QED
    BY <1>3, <1>4, <2>2, RootsStay, PostsStay, PrepStays DEF CancelPending, Moves
<1>5. CASE x.todo # <<>>
  <2>1. Tail(x.todo) \in Seq(Member)
    BY <1>2, <1>5, HeadTailProperties
  <2>2. [x EXCEPT !.todo = Tail(@)]
          = [x EXCEPT !.pc = x.pc, !.todo = Tail(x.todo), !.found = x.found]
    BY <1>2 DEF ProcT
  <2>3. ProcsMove
    <3>1. Step(c, [x EXCEPT !.pc = x.pc, !.todo = Tail(x.todo), !.found = x.found])
      BY <1>5, <2>2 DEF CancelPending
    <3> QED
      BY <1>1, <1>2, <2>1, <3>1, ScansOn
  <2>4. posts' = [p \in Ids |-> IF p \in Q THEN [posts[p] EXCEPT !.status = "deleted"] ELSE posts[p]]
    BY <1>5 DEF CancelPending
  <2>5. Q \in SUBSET Ids /\ \A p \in Q : posts[p].status # "unused"
    OBVIOUS
  <2> HIDE DEF Q
  <2>6. PostsMove
    BY <2>4, <2>5, SomeStatusesMove DEF PostStatuses
  <2> QED
    BY <1>3, <2>3, <2>6, RootsStay, PrepStays DEF CancelPending, Moves
<1> QED
  BY <1>4, <1>5

LEMMA ReadQueueMoves == ASSUME CollabInv, NEW c \in Procs, ReadQueue(c) PROVE Moves
<1> DEFINE x == procs[c]
           S == {p \in Outstanding(Head(x.todo).tab, x.root, x.post) :
                   x.kind = "stop" => posts[p].status # "pending" /\ posts[p].attempt > 0}
           found == IF S = {} \/ x.found # <<>> THEN x.found ELSE <<First(S)>>
<1>1. x.pc = "scan" /\ x.pc \in ScanningPcs /\ x.todo # <<>>
  BY DEF ReadQueue, ScanningPcs
<1>2. x \in ProcT(x.found) /\ x.todo \in Seq(Member) /\ x.found \in Seq(FirstT)
  BY <1>1 DEF CollabInv, Typed, ProcTyped, ProcT
<1>3. RestMoves
  BY RestStays DEF ReadQueue
<1>4. CASE Done(c)
  BY <1>3, <1>4, DoneMoves, RootsStay, PostsStay, PrepStays DEF ReadQueue, Moves
<1>5. CASE ~ Done(c)
  <2>1. Tail(x.todo) \in Seq(Member)
    BY <1>1, <1>2, HeadTailProperties
  <2>2. found \in Seq(FirstT)
    <3>1. S \subseteq Ids
      BY DEF Outstanding, QueueOf
    <3>2. S # {} => First(S) \in FirstT
      BY <3>1, FirstTyped DEF CollabInv
    <3> HIDE DEF S
    <3> QED
      BY <1>2, <3>2
  <2>3. Step(c, [x EXCEPT !.todo = Tail(@), !.found = IF S = {} \/ @ # <<>> THEN @ ELSE <<First(S)>>])
    BY <1>5 DEF ReadQueue
  <2>4. [x EXCEPT !.todo = Tail(@), !.found = IF S = {} \/ @ # <<>> THEN @ ELSE <<First(S)>>]
          = [x EXCEPT !.pc = x.pc, !.todo = Tail(x.todo), !.found = found]
    BY <1>2 DEF ProcT
  <2> HIDE DEF found, S
  <2>5. ProcsMove
    BY <1>1, <1>2, <2>1, <2>2, <2>3, <2>4, ScansOn
  <2> QED
    BY <1>3, <2>5, RootsStay, PostsStay, PrepStays DEF ReadQueue, Moves
<1> QED
  BY <1>4, <1>5

\* A scan or a confirmation writes its root and is done.
LEMMA SettlingMoves ==
    ASSUME CollabInv, NEW c \in Procs, procs[c].pc \in {"scan", "confirm"}, NEW v,
           Settles(roots[procs[c].root], v), WriteRoot(procs[c].root, v), Done(c),
           UNCHANGED <<posts, thread, preparing, contexts, due, leafDue, spent>>
    PROVE  Moves
<1> DEFINE r == procs[c].root
<1>1. /\ r \in RootIds /\ roots[r].status # "none" /\ roots[r] \in RootT
      /\ \A i, j \in DOMAIN roots[r].members :
           roots[r].members[i].tab = roots[r].members[j].tab => i = j
  BY RequestTyped
<1>2. /\ v \in RootT /\ v.members = roots[r].members /\ v.status # "none"
      /\ v.status = "ending" <=> v.finish # NoFinish
  BY <1>1 DEF Settles, Ended
<1>3. RootsMove
  BY <1>1, <1>2, WriteMoves
<1> QED
  BY <1>3, DoneMoves, RestStays, PostsStay, PrepStays DEF Moves

LEMMA SettleMoves == ASSUME CollabInv, NEW c \in Procs, Settle(c) PROVE Moves
<1>1. procs[c].pc = "scan" /\ WriteRoot(procs[c].root, SettledRoot(c))
  BY DEF Settle, SettledRoot
<1>2. Settles(roots[procs[c].root], SettledRoot(c))
  BY <1>1, ScanSettles DEF CollabInv
<1> QED
  BY <1>1, <1>2, SettlingMoves DEF Settle

LEMMA ConfirmMoves == ASSUME CollabInv, NEW c \in Procs, Confirm(c) PROVE Moves
<1>1. procs[c].pc = "confirm"
  BY DEF Confirm
<1>2. Settles(roots[procs[c].root], Confirmed(roots[procs[c].root], procs[c]))
  BY <1>1, ConfirmSettles DEF CollabInv
<1> QED
  BY <1>1, <1>2, SettlingMoves DEF Confirm

-----------------------------------------------------------------------------
(* The steps that begin: the @@ prompt and its root, and the three of a dispatch. *)

LEMMA WriteCollaborationKeeps ==
    ASSUME CollabInv, NEW c \in Procs, WriteCollaboration(c)
    PROVE  CollabInv'
<1> DEFINE rec == [NoProc EXCEPT !.kind = "begin", !.pc = "begin", !.root = 1]
<1>1. /\ Step(c, rec) /\ posts[1].root = 0 /\ posts[1].status \in {"unused", "pending", "failed"}
      /\ UNCHANGED <<roots, thread, preparing, contexts, due, leafDue>> /\ Acts("write")
  BY DEF WriteCollaboration
<1>2. /\ posts \in [Ids -> PostT] /\ posts[1] \in PostT
      /\ posts[1].status = "unused" => posts[1] = NoPost
      /\ posts[1].status # "unused" => posts[1].tab = Origin
      /\ posts[1].from = 0
  BY OneIsId DEF CollabInv, Typed, Lives
<1>3. \A r \in RootIds : roots[r].status = "none"
  BY <1>1 DEF CollabInv, Lives
<1>4. \A p \in Ids : posts[p].root = 0
  <2>1. \A p \in Ids : posts[p] \in PostT
    BY <1>2
  <2>2. \A p \in Ids : posts[p].root # 0 => posts[p].root \in RootIds
    BY <2>1, Bounds DEF PostT, RootIds
  <2> QED
    BY <1>1, <1>3, <2>2 DEF CollabInv, Lives
<1>5. /\ posts' \in [Ids -> PostT]
      /\ \A p \in Ids \ {1} : posts'[p] = posts[p]
      /\ posts'[1].root = 1 /\ posts'[1].from = 0 /\ posts'[1].tab = Origin
      /\ posts'[1].status # "unused"
  <2> DEFINE w == [NoPost EXCEPT !.tab = Origin, !.status = "pending"]
             new == IF posts[1].status = "unused" THEN [w EXCEPT !.root = 1]
                    ELSE [posts[1] EXCEPT !.root = 1]
  <2>1. w \in PostT /\ w.tab = Origin /\ w.status = "pending" /\ w.from = 0
    BY Bounds, NewPostTyped DEF SomeTab
  <2>2. [NoPost EXCEPT !.tab = Origin, !.status = "pending", !.root = 1] = [w EXCEPT !.root = 1]
    BY DEF NoPost
  <2>3. posts' = [posts EXCEPT ![1] = new]
    BY <2>2 DEF WriteCollaboration
  <2> HIDE DEF w
  <2>4. 1 \in 0..MaxRoots
    BY Bounds
  <2>5. new \in PostT /\ new.root = 1 /\ new.from = 0 /\ new.tab = Origin /\ new.status # "unused"
    BY <1>2, <2>1, <2>4 DEF PostT
  <2> HIDE DEF new
  <2> QED
    BY <1>2, <2>3, <2>5, OneIsId
<1>6. /\ procs' = [d \in Procs |-> procs'[d]] /\ procs'[c] = rec
      /\ \A d \in Procs \ {c} : procs'[d] = procs[d]
  BY <1>1, StepsOne
<1>7. ProcTyped(rec) /\ rec.pc = "begin" /\ rec.root = 1
  <2>1. NoProc \in ProcT(<<>>) /\ 1 \in 0..MaxRoots
    BY NoProcTyped, Bounds DEF ProcTyped, NoProc
  <2>2. rec \in ProcT(<<>>) /\ rec.found = <<>> /\ rec.kind = "begin" /\ rec.pc = "begin" /\ rec.root = 1
    BY <2>1 DEF ProcT, NoProc, Kinds, Pcs
  <2> HIDE DEF rec
  <2> QED
    BY <2>2 DEF ProcTyped, PostingPcs, ScanningPcs
<1> HIDE DEF rec
<1>8. Typed'
  <2>1. spent' \in [calls : Nat, acts : Nat, restarts : Nat, kinds : {spent'.kinds}, restarted : BOOLEAN]
    BY <1>1, LoadTaken
  <2>2. \A d \in Procs : ProcTyped(procs'[d])
    BY <1>6, <1>7 DEF CollabInv, Typed
  <2> QED
    BY <1>1, <1>5, <1>6, <2>1, <2>2 DEF CollabInv, Typed, ProcTyped
<1>9. \A d \in Procs : procs[d].pc # "begin"
  BY <1>1 DEF CollabInv, Beginnings, BeginRight
<1>10. Lives'
  <2>1. \A p \in Ids : posts'[p].from = posts[p].from /\ (posts[p].status # "unused" => posts'[p].status # "unused")
    BY <1>2, <1>5
  <2>2. \A d \in Procs : /\ procs'[d].pc \notin {"idle", "begin"} => procs'[d] = procs[d]
                         /\ procs'[d].pc \in PostingPcs => procs'[d] = procs[d] /\ procs[d].post \in Ids
    BY <1>6, <1>7 DEF PostingPcs, CollabInv, Typed, ProcTyped
  <2>3. \A p \in Ids : posts[p].from # 0 => posts[p].from \in Ids
    <3>1. \A p \in Ids : posts[p] \in PostT
      BY <1>2
    <3>2. \A p \in Ids : posts[p].from \in 0..MaxPrompts
      BY <3>1 DEF PostT
    <3> QED
      BY <3>2, Bounds DEF Ids
  <2>4. \A p \in leafDue : p \in Ids
    BY DEF CollabInv, Typed
  <2> QED
    BY <1>1, <1>3, <1>4, <1>5, <2>1, <2>2, <2>3, <2>4, OneIsId, Bounds DEF CollabInv, Lives
<1>11. Beginnings'
  <2>1. \A t \in Tabs : preparing[t].root = 0
    BY <1>1 DEF CollabInv, Beginnings, PrepRight
  <2>2. ASSUME NEW t \in Tabs PROVE PrepRight(t)'
    <3>1. PrepRight(t)
      BY DEF CollabInv, Beginnings
    <3>2. preparing[t].post \in Ids => /\ posts'[preparing[t].post].from = posts[preparing[t].post].from
                                       /\ posts[preparing[t].post].status # "unused" =>
                                            /\ posts'[preparing[t].post].tab = posts[preparing[t].post].tab
                                            /\ posts'[preparing[t].post].status # "unused"
      BY <1>2, <1>5
    <3> QED
      BY <1>1, <2>1, <3>1, <3>2 DEF PrepRight
  <2>3. ASSUME NEW d \in Procs PROVE BeginRight(d)'
    BY <1>1, <1>3, <1>5, <1>6, <1>7, <1>9, <2>1, OneIsId DEF BeginRight
  <2> QED
    BY <2>2, <2>3 DEF Beginnings
<1>12. RootsKeepTypes'
  BY <1>1 DEF CollabInv, RootsKeepTypes
<1> QED
  BY <1>8, <1>10, <1>11, <1>12 DEF CollabInv

\* The root of the @@ prompt is begun by one request alone.
LEMMA BeginRootKeeps ==
    ASSUME CollabInv, NEW c \in Procs, BeginRoot(c)
    PROVE  /\ CollabInv'
           /\ roots[1].status = "none" /\ roots'[1] = Begun
           /\ \A r \in RootIds \ {1} : roots'[r] = roots[r]
<1>1. /\ procs[c].pc = "begin" /\ WriteRoot(1, Begun) /\ Done(c)
      /\ UNCHANGED <<posts, thread, preparing, contexts, due, leafDue, spent>>
  BY DEF BeginRoot
<1>2. /\ posts[1].root = 1 /\ roots[1].status = "none"
      /\ \A d \in Procs \ {c} : procs[d].pc # "begin"
      /\ \A t \in Tabs : preparing[t].root = 0
  BY <1>1 DEF CollabInv, Beginnings, BeginRight
<1>3. \A r \in RootIds : roots[r].status = "none"
  BY <1>2 DEF CollabInv, Lives
<1>4. /\ roots' \in [RootIds -> RootT] /\ roots'[1] = Begun
      /\ \A r \in RootIds \ {1} : roots'[r] = roots[r]
  BY <1>1, BeginsTyped, OneIsId DEF CollabInv, Typed, WriteRoot
<1>5. /\ procs' = [d \in Procs |-> procs'[d]] /\ procs'[c] = NoProc
      /\ \A d \in Procs \ {c} : procs'[d] = procs[d]
  BY <1>1, StepsOne DEF Done
<1>6. Typed'
  <2>1. \A d \in Procs : ProcTyped(procs'[d])
    BY <1>5, NoProcTyped DEF CollabInv, Typed
  <2> QED
    BY <1>1, <1>4, <1>5, <2>1 DEF CollabInv, Typed, ProcTyped
<1>7. \A d \in Procs : procs'[d].pc # "idle" => procs'[d] = procs[d]
  BY <1>5, NoProcTyped
<1>8. Lives'
  <2>1. \A r \in RootIds : roots'[r].status = "none" => roots'[r] = roots[r]
    BY <1>4, BeginsTyped
  <2>2. \A d \in Procs : procs'[d].pc \in PostingPcs => procs'[d] = procs[d]
    BY <1>7 DEF PostingPcs
  <2>3. \A r \in RootIds :
          /\ roots'[r].status = "none" => roots'[r] = NoRoot
          /\ roots'[r].status # "none" => roots'[1].status # "none" /\ posts'[1].root # 0
    BY <1>1, <1>2, <1>4, <2>1, BeginsTyped DEF CollabInv, Lives
  <2>4. \A p \in Ids : posts[p].root # 0 => posts[p].root = 1 /\ roots'[1].status # "none"
    <3>1. \A p \in Ids : posts[p].root # 0 => posts[p].root \in RootIds
      BY Bounds DEF CollabInv, Typed, PostT, RootIds
    <3> QED
      BY <1>3, <1>4, <3>1, BeginsTyped DEF CollabInv, Lives
  <2>5. \A x \in contexts : FALSE
    BY <1>3 DEF CollabInv, Lives, Typed, ContextT
  <2>6. \A d \in Procs : procs[d].pc \in {"idle", "begin"}
    BY <1>3 DEF CollabInv, Lives
  <2>7. \A d \in Procs : procs'[d].pc = "idle"
    BY <1>2, <1>5, <2>6, NoProcTyped
  <2> QED
    BY <1>1, <2>2, <2>3, <2>4, <2>5, <2>7 DEF CollabInv, Lives, PostingPcs
<1>9. Beginnings'
  <2>1. ASSUME NEW t \in Tabs PROVE PrepRight(t)'
    <3>1. PrepRight(t) /\ preparing[t].root = 0
      BY <1>2 DEF CollabInv, Beginnings
    <3> QED
      BY <1>1, <3>1 DEF PrepRight
  <2>2. ASSUME NEW d \in Procs PROVE BeginRight(d)'
    BY <1>2, <1>5, NoProcTyped DEF BeginRight
  <2> QED
    BY <2>1, <2>2 DEF Beginnings
<1>10. RootsKeepTypes'
  BY <1>4, BeginsTyped DEF CollabInv, RootsKeepTypes
<1> QED
  BY <1>2, <1>4, <1>6, <1>8, <1>9, <1>10 DEF CollabInv

\* A dispatch that begins a root is the only one that names it.
LEMMA PreparedRoot ==
    ASSUME CollabInv, NEW t \in Tabs, NEW p \in QueueOf(t), NEW r, r = RootForDispatch(p, Requested(p)),
           r # 0
    PROVE  /\ r \in RootIds /\ posts[1].root # 0
           /\ posts[p].from # 0 => r = posts[p].root
           /\ roots[r].status = "none" =>
                /\ \A u \in Tabs \ {t} : preparing[u].root # r
                /\ IF r = 1 THEN p = 1 ELSE roots[1].status # "none"
           /\ \/ p = 1
              \/ \E s \in RootIds : roots[s].status # "none"
<1> DEFINE meta == Requested(p)
<1>1. p \in Ids /\ posts[p].tab = t /\ posts[p].root \in 0..MaxRoots /\ Typed
  BY DEF QueueOf, CollabInv, Typed, PostT
<1>2. /\ meta.root \in 0..MaxRoots
      /\ posts[p].root # 0 => meta.root = posts[p].root
      /\ posts[p].root = 0 /\ meta.root # 0 => roots[meta.root].status \in {"running", "ending"}
  BY <1>1, RequestedRoot
<1>3. /\ r \in 0..MaxRoots
      /\ \/ r = meta.root
         \/ r \in FreeRoots /\ posts[p].from = 0 /\ meta.root # 0 /\ roots[meta.root].status \in Ended
  BY <1>1, DispatchedRoot
<1> HIDE DEF meta
<1>4. r \in RootIds /\ (meta.root # 0 => meta.root \in RootIds)
  BY <1>2, <1>3, Bounds DEF RootIds
<1>5. posts[p].from # 0 => posts[p].root # 0
  BY <1>1 DEF CollabInv, Lives
<1>6. CASE r \in FreeRoots /\ posts[p].from = 0 /\ meta.root # 0 /\ roots[meta.root].status \in Ended
  <2>1. roots[meta.root].status # "none"
    BY <1>6 DEF Ended
  <2>2. roots[1].status # "none" /\ posts[1].root # 0
    BY <1>4, <1>6, <2>1 DEF CollabInv, Lives
  <2> QED
    BY <1>4, <1>6, <2>1, <2>2 DEF FreeRoots
<1>7. CASE r = meta.root /\ roots[r].status # "none"
  <2>1. posts[1].root # 0
    BY <1>4, <1>7 DEF CollabInv, Lives
  <2> QED
    BY <1>2, <1>4, <1>5, <1>7, <2>1
<1>8. CASE r = meta.root /\ roots[r].status = "none"
  <2>1. posts[p].root = r
    BY <1>2, <1>8
  <2>2. p = 1 /\ r = 1
    BY <1>1, <1>8, <2>1 DEF CollabInv, Lives
  <2>3. ASSUME NEW u \in Tabs \ {t} PROVE preparing[u].root # 1
    <3>1. SUFFICES ASSUME preparing[u].root = 1 PROVE FALSE
      OBVIOUS
    <3>2. PrepRight(u)
      BY DEF CollabInv, Beginnings
    <3> QED
      BY <1>1, <1>8, <2>2, <3>1, <3>2 DEF PrepRight
  <2> QED
    BY <1>4, <2>1, <2>2, <2>3
<1> QED
  BY <1>3, <1>6, <1>7, <1>8

LEMMA PrepareReadKeeps ==
    ASSUME CollabInv, ~ Rolling, NEW t \in Tabs, NEW p \in Ids, PrepareRead(t, p)
    PROVE  CollabInv'
<1> DEFINE meta == Requested(p)
           r == RootForDispatch(p, meta)
           pc == IF r = 0 THEN "plain" ELSE IF roots[r].status = "none" THEN "begin" ELSE "join"
           x == [post |-> p, root |-> r, depth |-> meta.depth, pc |-> pc]
<1>1. /\ preparing[t] = NoPrep /\ p \in QueueOf(t) /\ posts[p].status = "pending"
      /\ p = 1 => ~ Beginning
      /\ preparing' = [preparing EXCEPT ![t] = x]
      /\ UNCHANGED <<roots, posts, thread, contexts, procs, due, leafDue, spent>>
  BY DEF PrepareRead
<1>2. posts[p].tab = t /\ Typed
  BY <1>1 DEF QueueOf, CollabInv
<1>3. meta.depth \in 0..Depth /\ r \in 0..MaxRoots
  BY <1>2, RequestedRoot, DispatchedRoot
<1>4. r # 0 => /\ r \in RootIds /\ posts[1].root # 0
               /\ posts[p].from # 0 => r = posts[p].root
               /\ roots[r].status = "none" =>
                    /\ \A u \in Tabs \ {t} : preparing[u].root # r
                    /\ IF r = 1 THEN p = 1 ELSE roots[1].status # "none"
               /\ \/ p = 1
                  \/ \E s \in RootIds : roots[s].status # "none"
  BY <1>1, PreparedRoot
<1>5. x \in PrepT /\ x.post = p /\ x.root = r /\ x.pc = pc
  BY <1>3, Bounds DEF PrepT, Ids
<1>6. pc \in {"begin", "join"} <=> r # 0
  OBVIOUS
<1>7. pc = "begin" <=> r # 0 /\ roots[r].status = "none"
  OBVIOUS
<1>8. pc # "none"
  OBVIOUS
<1> HIDE DEF x, pc, r, meta
<1>9. /\ preparing' \in [Tabs -> PrepT] /\ preparing'[t] = x
      /\ \A u \in Tabs \ {t} : preparing'[u] = preparing[u]
  BY <1>1, <1>5 DEF CollabInv, Typed
<1>10. Typed'
  BY <1>1, <1>9 DEF CollabInv, Typed, ProcTyped
<1>11. Lives'
  BY <1>1 DEF CollabInv, Lives
<1>12. PrepRight(t)'
  <2>1. r # 0 /\ pc # "begin" => roots[r].status # "none"
    BY <1>7
  <2> QED
    BY <1>1, <1>2, <1>4, <1>5, <1>6, <1>7, <1>8, <1>9, <2>1 DEF PrepRight
<1>13. ASSUME NEW u \in Tabs \ {t} PROVE PrepRight(u)'
  <2>1. PrepRight(u)
    BY DEF CollabInv, Beginnings
  <2>2. preparing[u].pc = "begin" => preparing[u].root # r
    <3>1. preparing[u].pc = "begin" => preparing[u].root # 0 /\ roots[preparing[u].root].status = "none"
      BY <2>1 DEF PrepRight
    <3> QED
      BY <1>4, <3>1
  <2> QED
    BY <1>1, <1>5, <1>9, <2>1, <2>2 DEF PrepRight
<1>14. ASSUME NEW c \in Procs PROVE BeginRight(c)'
  <2>1. BeginRight(c)
    BY DEF CollabInv, Beginnings
  <2>2. procs[c].pc = "begin" => p # 1
    BY <1>1 DEF Beginning
  <2>3. procs[c].pc = "begin" => \A s \in RootIds : roots[s].status = "none"
    BY <2>1 DEF BeginRight, CollabInv, Lives
  <2>4. procs[c].pc = "begin" => r = 0
    BY <1>4, <2>2, <2>3
  <2> QED
    BY <1>1, <1>5, <1>9, <2>1, <2>4 DEF BeginRight
<1>15. RootsKeepTypes'
  BY <1>1 DEF CollabInv, RootsKeepTypes
<1> QED
  BY <1>10, <1>11, <1>12, <1>13, <1>14, <1>15 DEF CollabInv, Beginnings

LEMMA PrepareBeginKeeps ==
    ASSUME CollabInv, NEW t \in Tabs, PrepareBegin(t)
    PROVE  LET r == preparing[t].root IN
           /\ CollabInv'
           /\ r \in RootIds /\ roots[r].status = "none" /\ roots'[r] = Begun
           /\ \A s \in RootIds \ {r} : roots'[s] = roots[s]
<1> DEFINE r == preparing[t].root
           x == [preparing[t] EXCEPT !.pc = "join"]
<1>1. /\ preparing[t].pc = "begin" /\ WriteRoot(r, Begun)
      /\ preparing' = [preparing EXCEPT ![t] = x]
      /\ UNCHANGED <<posts, thread, contexts, procs, due, leafDue, spent>>
  BY DEF PrepareBegin
<1>2. PrepRight(t) /\ preparing[t] \in PrepT
  BY DEF CollabInv, Beginnings, Typed
<1>3. /\ r # 0 /\ posts[1].root # 0 /\ roots[r].status = "none"
      /\ \A u \in Tabs \ {t} : preparing[u].root # r
      /\ r # 1 => roots[1].status # "none"
  BY <1>1, <1>2 DEF PrepRight
<1>4. r \in RootIds
  BY <1>2, <1>3, Bounds DEF PrepT, RootIds
<1>5. x \in PrepT /\ x.post = preparing[t].post /\ x.root = r /\ x.pc = "join"
  BY <1>2 DEF PrepT
<1> HIDE DEF x, r
<1>6. /\ preparing' \in [Tabs -> PrepT] /\ preparing'[t] = x
      /\ \A u \in Tabs \ {t} : preparing'[u] = preparing[u]
  BY <1>1, <1>5 DEF CollabInv, Typed
<1>7. /\ roots' \in [RootIds -> RootT] /\ roots'[r] = Begun
      /\ \A s \in RootIds \ {r} : roots'[s] = roots[s]
  BY <1>1, <1>4, BeginsTyped DEF CollabInv, Typed, WriteRoot
<1>8. \A s \in RootIds : roots[s].status # "none" => roots'[s].status # "none"
  BY <1>7, BeginsTyped
<1>9. Typed'
  BY <1>1, <1>6, <1>7 DEF CollabInv, Typed, ProcTyped
<1>10. Lives'
  <2>1. \A s \in RootIds :
          /\ roots'[s].status = "none" => roots'[s] = NoRoot
          /\ roots'[s].status # "none" => roots'[1].status # "none" /\ posts'[1].root # 0
    BY <1>1, <1>3, <1>4, <1>7, <1>8, BeginsTyped, OneIsId DEF CollabInv, Lives
  <2>2. \A p \in Ids : posts[p].root # 0 =>
            roots'[posts[p].root].status # "none" \/ (p = 1 /\ posts[p].root = 1)
    <3>1. \A p \in Ids : posts[p].root # 0 => posts[p].root \in RootIds
      BY Bounds DEF CollabInv, Typed, PostT, RootIds
    <3> QED
      BY <1>8, <3>1 DEF CollabInv, Lives
  <2>3. \A y \in contexts : roots'[y.root].status # "none"
    <3>1. \A y \in contexts : y.root \in RootIds
      BY DEF CollabInv, Typed, ContextT
    <3> QED
      BY <1>8, <3>1 DEF CollabInv, Lives
  <2>4. \A c \in Procs : procs[c].pc \notin {"idle", "begin"} =>
          procs[c].root \in RootIds /\ roots'[procs[c].root].status # "none"
    BY <1>8 DEF CollabInv, Lives
  <2> QED
    BY <1>1, <2>1, <2>2, <2>3, <2>4 DEF CollabInv, Lives
<1>11. PrepRight(t)'
  BY <1>1, <1>2, <1>3, <1>5, <1>6, <1>7, BeginsTyped DEF PrepRight, r
<1>12. ASSUME NEW u \in Tabs \ {t} PROVE PrepRight(u)'
  <2>1. PrepRight(u) /\ preparing[u].root # r /\ preparing[u] \in PrepT
    BY <1>3 DEF CollabInv, Beginnings, Typed
  <2>2. preparing[u].root # 0 => preparing[u].root \in RootIds
    BY <2>1, Bounds DEF PrepT, RootIds
  <2>3. preparing[u].root # 0 => roots'[preparing[u].root] = roots[preparing[u].root]
    BY <1>7, <2>1, <2>2
  <2> QED
    BY <1>1, <1>5, <1>6, <1>8, <2>1, <2>3, OneIsId DEF PrepRight
<1>13. ASSUME NEW c \in Procs PROVE BeginRight(c)'
  <2>1. procs[c].pc # "begin"
    BY <1>3 DEF CollabInv, Beginnings, BeginRight, r
  <2> QED
    BY <1>1, <2>1 DEF BeginRight
<1>14. RootsKeepTypes'
  BY <1>7, BeginsTyped DEF CollabInv, RootsKeepTypes
<1> QED
  BY <1>3, <1>4, <1>7, <1>9, <1>10, <1>11, <1>12, <1>13, <1>14 DEF CollabInv, Beginnings, r

LEMMA PrepareJoinParts ==
    ASSUME CollabInv, NEW t \in Tabs, PrepareJoin(t)
    PROVE  LET x == preparing[t]
               p == x.post
           IN  /\ p \in Ids /\ posts[p].tab = t /\ posts[p].status # "unused"
               /\ preparing' = [preparing EXCEPT ![t] = NoPrep]
               /\ posts' \in [Ids -> PostT] /\ \A q \in Ids \ {p} : posts'[q] = posts[q]
               /\ posts'[p].status = "running"
               /\ posts'[p].tab = posts[p].tab /\ posts'[p].from = posts[p].from
               /\ posts[p].from # 0 => posts'[p].root = posts[p].root
               /\ \/ x.pc = "plain" /\ UNCHANGED <<roots, contexts>> /\ posts'[p].root = posts[p].root
                  \/ /\ x.pc = "join" /\ x.root \in RootIds /\ roots[x.root].status # "none"
                     /\ posts'[p].root = x.root /\ posts[1].root # 0
                     /\ WriteRoot(x.root, Started(roots[x.root], p))
                     /\ \A y \in contexts' : y \in ContextT /\ (y \in contexts \/ y.root = x.root)
               /\ UNCHANGED <<thread, procs, leafDue, spent>>
<1> DEFINE x == preparing[t]
           p == x.post
           v == [posts[x.post] EXCEPT !.status = "running", !.attempt = posts[x.post].attempt + 1, !.thread = thread[t],
                     !.root  = IF x.pc = "join" THEN x.root ELSE posts[x.post].root,
                     !.depth = IF x.pc = "join" THEN x.depth ELSE posts[x.post].depth]
           y0 == [post |-> p, attempt |-> posts[p].attempt + 1, root |-> x.root,
                  depth |-> x.depth, thread |-> thread[t]]
<1>1. /\ x.pc \in {"join", "plain"}
      /\ preparing' = [preparing EXCEPT ![t] = NoPrep]
      /\ posts' = [posts EXCEPT ![p] = v]
      /\ UNCHANGED <<thread, procs, leafDue, spent>>
      /\ x.pc = "join" => WriteRoot(x.root, Started(roots[x.root], p)) /\ contexts' = contexts \cup {y0}
      /\ x.pc # "join" => UNCHANGED <<roots, contexts>>
  <2>1. /\ x.pc \in {"join", "plain"}
        /\ preparing' = [preparing EXCEPT ![t] = NoPrep]
        /\ UNCHANGED <<thread, procs, leafDue, spent>>
    BY DEF PrepareJoin
  <2>3. posts' = [posts EXCEPT ![p] = v]
    BY DEF PrepareJoin
  <2>2. IF x.pc = "join"
        THEN WriteRoot(x.root, Started(roots[x.root], p)) /\ contexts' = contexts \cup {y0}
        ELSE UNCHANGED <<roots, contexts>>
    BY DEF PrepareJoin
  <2> QED
    BY <2>1, <2>2, <2>3
<1>2. PrepRight(t) /\ x \in PrepT
  BY DEF CollabInv, Beginnings, Typed
<1>3. /\ p \in Ids /\ posts[p].tab = t /\ posts[p].status # "unused"
      /\ posts[p].from # 0 => x.root \in {0, posts[p].root}
      /\ x.pc = "join" => x.root # 0 /\ roots[x.root].status # "none" /\ posts[1].root # 0
  BY <1>1, <1>2 DEF PrepRight
<1>4. posts \in [Ids -> PostT] /\ posts[p] \in PostT /\ thread[t] \in Nat /\ x.root \in 0..MaxRoots
      /\ x.depth \in 0..Depth /\ contexts \subseteq ContextT
  BY <1>2, <1>3 DEF CollabInv, Typed, PrepT
<1>5. x.pc = "join" => x.root \in RootIds
  BY <1>3, <1>4, Bounds DEF RootIds
<1>6. /\ v \in PostT /\ v.status = "running" /\ v.tab = posts[p].tab /\ v.from = posts[p].from
      /\ v.root = IF x.pc = "join" THEN x.root ELSE posts[p].root
  <2>1. "running" \in PostStatuses
    BY DEF PostStatuses, Unfinished
  <2>2. posts[p].attempt + 1 \in Nat
    BY <1>4 DEF PostT
  <2>3. CASE x.pc = "join"
    <3>1. v = [posts[p] EXCEPT !.status = "running", !.attempt = @ + 1, !.thread = thread[t],
                 !.root = x.root, !.depth = x.depth]
      BY <2>3
    <3> QED
      BY <1>4, <2>1, <2>2, <2>3, <3>1 DEF PostT
  <2>4. CASE x.pc # "join"
    <3>1. v = [posts[p] EXCEPT !.status = "running", !.attempt = @ + 1, !.thread = thread[t]]
      BY <1>4, <2>4 DEF PostT
    <3> QED
      BY <1>4, <2>1, <2>2, <2>4, <3>1 DEF PostT
  <2> QED
    BY <2>3, <2>4
<1>7. x.pc = "join" => y0 \in ContextT /\ y0.root = x.root
  <2>1. posts[p].attempt + 1 \in Nat
    BY <1>4 DEF PostT
  <2> QED
    BY <1>3, <1>4, <1>5, <2>1 DEF ContextT
<1>8. x.pc = "join" => \A y \in contexts' : y \in ContextT /\ (y \in contexts \/ y.root = x.root)
  BY <1>1, <1>4, <1>7
<1> HIDE DEF v, y0, x, p
<1>9. /\ posts' \in [Ids -> PostT] /\ posts'[p] = v /\ \A q \in Ids \ {p} : posts'[q] = posts[q]
  BY <1>1, <1>3, <1>4, <1>6
<1>10. posts[p].from # 0 => v.root = posts[p].root
  BY <1>3, <1>6
<1> QED
  BY <1>1, <1>3, <1>5, <1>6, <1>8, <1>9, <1>10 DEF x, p

\* A turn that starts changes nothing of a root but its members and that it runs.
RootStarts(r) ==
  \/ roots'[r] = roots[r]
  \/ /\ roots[r].status # "none" /\ roots'[r].used = roots[r].used
     /\ roots'[r].finish = roots[r].finish /\ roots'[r].receipts = roots[r].receipts
     /\ roots'[r].status = IF roots[r].status = "pending" THEN "running" ELSE roots[r].status
     /\ \A u : IsMember(roots[r], u) => IsMember(roots'[r], u)
     /\ \A i, j \in DOMAIN roots'[r].members :
          roots'[r].members[i].tab = roots'[r].members[j].tab => i = j

LEMMA PrepareJoinRoots ==
    ASSUME CollabInv, NEW t \in Tabs, PrepareJoin(t)
    PROVE  roots' \in [RootIds -> RootT] /\ \A r \in RootIds : RootStarts(r)
<1> DEFINE r == preparing[t].root
           p == preparing[t].post
           v == Started(roots[r], p)
<1>1. /\ p \in Ids
      /\ \/ UNCHANGED roots
         \/ r \in RootIds /\ roots[r].status # "none" /\ WriteRoot(r, v)
  BY PrepareJoinParts
<1>2. roots \in [RootIds -> RootT] /\ posts[p].tab \in SomeTab
  BY <1>1 DEF CollabInv, Typed, PostT
<1>3. CASE UNCHANGED roots
  BY <1>2, <1>3 DEF RootStarts
<1>4. CASE r \in RootIds /\ roots[r].status # "none" /\ WriteRoot(r, v)
  <2>1. /\ roots[r] \in RootT
        /\ \A i, j \in DOMAIN roots[r].members :
             roots[r].members[i].tab = roots[r].members[j].tab => i = j
    BY <1>4 DEF CollabInv, Typed, RootsKeepTypes
  <2>2. /\ v \in RootT /\ v.used = roots[r].used /\ v.finish = roots[r].finish
        /\ v.receipts = roots[r].receipts
        /\ v.status = IF roots[r].status = "pending" THEN "running" ELSE roots[r].status
        /\ \A u : IsMember(roots[r], u) => IsMember(v, u)
        /\ \A i, j \in DOMAIN v.members : v.members[i].tab = v.members[j].tab => i = j
    BY <1>1, <1>2, <2>1, StartsRunning
  <2> HIDE DEF v, p, r
  <2>3. /\ roots' \in [RootIds -> RootT] /\ roots'[r] = v
        /\ \A s \in RootIds \ {r} : roots'[s] = roots[s]
    BY <1>2, <1>4, <2>2 DEF WriteRoot
  <2>4. RootStarts(r)
    BY <1>4, <2>2, <2>3 DEF RootStarts
  <2>5. \A s \in RootIds \ {r} : RootStarts(s)
    BY <2>3 DEF RootStarts
  <2> QED
    BY <2>3, <2>4, <2>5
<1> QED
  BY <1>1, <1>3, <1>4

LEMMA PrepareJoinKeeps ==
    ASSUME CollabInv, NEW t \in Tabs, PrepareJoin(t)
    PROVE  CollabInv'
<1> DEFINE x == preparing[t]
           p == x.post
<1>1. /\ p \in Ids /\ posts[p].tab = t /\ posts[p].status # "unused"
      /\ preparing' = [preparing EXCEPT ![t] = NoPrep]
      /\ posts' \in [Ids -> PostT] /\ \A q \in Ids \ {p} : posts'[q] = posts[q]
      /\ posts'[p].status = "running"
      /\ posts'[p].tab = posts[p].tab /\ posts'[p].from = posts[p].from
      /\ posts[p].from # 0 => posts'[p].root = posts[p].root
      /\ UNCHANGED <<thread, procs, leafDue, spent>>
  BY PrepareJoinParts
<1>2. \/ x.pc = "plain" /\ UNCHANGED <<roots, contexts>> /\ posts'[p].root = posts[p].root
      \/ /\ x.pc = "join" /\ x.root \in RootIds /\ roots[x.root].status # "none"
         /\ posts'[p].root = x.root /\ posts[1].root # 0
         /\ \A y \in contexts' : y \in ContextT /\ (y \in contexts \/ y.root = x.root)
  BY PrepareJoinParts
<1>3. roots' \in [RootIds -> RootT] /\ \A r \in RootIds : RootStarts(r)
  BY PrepareJoinRoots
<1> HIDE DEF x, p
<1>4. \A r \in RootIds : /\ roots'[r].status # "none" <=> roots[r].status # "none"
                         /\ roots[r].status = "none" => roots'[r] = roots[r]
  BY <1>3 DEF RootStarts
<1>5. posts'[1].root # 0 <=> posts[1].root # 0
  BY <1>1, <1>2, OneIsId DEF RootIds
<1>6. \A q \in Ids : posts'[q].from = posts[q].from /\ posts'[q].tab = posts[q].tab
                     /\ (posts'[q].status = "unused" <=> posts[q].status = "unused")
  BY <1>1
<1>7. contexts' \subseteq ContextT
  BY <1>2 DEF CollabInv, Typed
<1>8. /\ preparing' \in [Tabs -> PrepT] /\ preparing'[t] = NoPrep
      /\ \A u \in Tabs \ {t} : preparing'[u] = preparing[u]
  <2>1. NoPrep \in PrepT
    BY Bounds DEF NoPrep, PrepT
  <2> QED
    BY <1>1, <2>1 DEF CollabInv, Typed
<1>9. Typed'
  <2>1. due' \subseteq SomeTab \X RootIds
    <3>1. due' = due \cup EventsIn(roots', t)
      BY DEF PrepareJoin
    <3>2. EventsIn(roots', t) \subseteq SomeTab \X RootIds
      BY EventsTyped DEF SomeTab
    <3> QED
      BY <3>1, <3>2 DEF CollabInv, Typed
  <2> QED
    BY <1>1, <1>3, <1>7, <1>8, <2>1 DEF CollabInv, Typed, ProcTyped
<1>10. Lives'
  <2>1. \A r \in RootIds :
          /\ roots'[r].status = "none" => roots'[r] = NoRoot
          /\ roots'[r].status # "none" => roots'[1].status # "none" /\ posts'[1].root # 0
    BY <1>4, <1>5, OneIsId DEF CollabInv, Lives
  <2>2. ASSUME NEW q \in Ids
        PROVE  /\ posts'[q].status = "unused" => posts'[q] = NoPost
               /\ posts'[q].status # "unused" => posts'[q].tab \in Tabs
               /\ posts'[q].from # 0 =>
                    q # 1 /\ posts'[q].root # 0 /\ posts'[posts'[q].from].status # "unused"
               /\ posts'[q].root # 0 =>
                    roots'[posts'[q].root].status # "none" \/ (q = 1 /\ posts'[q].root = 1)
    <3>1. posts[q] \in PostT
      BY DEF CollabInv, Typed
    <3>2. (posts[q].from # 0 => posts[q].from \in Ids) /\ (posts[q].root # 0 => posts[q].root \in RootIds)
      BY <3>1, Bounds DEF PostT, Ids, RootIds
    <3>3. posts'[q].status = "unused" => posts'[q] = NoPost
      BY <1>1 DEF CollabInv, Lives
    <3>4. posts'[q].from # 0 => q # 1 /\ posts'[q].root # 0 /\ posts'[posts'[q].from].status # "unused"
      <4>1. posts[q].from # 0 => posts'[q].root = posts[q].root
        BY <1>1
      <4> QED
        BY <1>6, <3>2, <4>1 DEF CollabInv, Lives
    <3>5. posts'[q].root # 0 => roots'[posts'[q].root].status # "none" \/ (q = 1 /\ posts'[q].root = 1)
      <4>1. CASE posts'[q].root = posts[q].root
        BY <1>4, <3>2, <4>1 DEF CollabInv, Lives
      <4>2. CASE posts'[q].root # posts[q].root
        BY <1>1, <1>2, <1>4, <4>2
      <4> QED
        BY <4>1, <4>2
    <3>6. posts'[q].status # "unused" => posts'[q].tab \in Tabs
      BY <1>6 DEF CollabInv, Lives
    <3> QED
      BY <3>3, <3>4, <3>5, <3>6
  <2>3. posts'[1].status # "unused" => posts'[1].tab = Origin
    BY <1>6, OneIsId DEF CollabInv, Lives
  <2>4. \A y \in contexts' : roots'[y.root].status # "none"
    <3>1. \A y \in contexts' : y.root \in RootIds
      BY <1>7 DEF ContextT
    <3> QED
      BY <1>2, <1>4, <3>1 DEF CollabInv, Lives
  <2>5. \A q \in leafDue' : posts'[q].root # 0 /\ posts'[q].from # 0
    <3>1. \A q \in leafDue' : q \in Ids /\ posts[q].from # 0
      BY <1>1 DEF CollabInv, Lives, Typed
    <3> QED
      BY <1>6, <2>2, <3>1
  <2>6. \A c \in Procs : procs'[c].pc \notin {"idle", "begin"} =>
          procs'[c].root \in RootIds /\ roots'[procs'[c].root].status # "none"
    BY <1>1, <1>4 DEF CollabInv, Lives
  <2>7. \A c \in Procs : procs'[c].pc \in PostingPcs => posts'[procs'[c].post].status # "unused"
    <3>1. \A c \in Procs : procs[c].pc \in PostingPcs => procs[c].post \in Ids
      BY DEF CollabInv, Typed, ProcTyped
    <3> QED
      BY <1>1, <1>6, <3>1 DEF CollabInv, Lives
  <2> QED
    BY <2>1, <2>2, <2>3, <2>4, <2>5, <2>6, <2>7 DEF Lives
<1>11. PrepRight(t)'
  BY <1>8 DEF PrepRight, NoPrep
<1>12. ASSUME NEW u \in Tabs \ {t} PROVE PrepRight(u)'
  <2>1. PrepRight(u) /\ preparing[u] \in PrepT
    BY DEF CollabInv, Beginnings, Typed
  <2>2. preparing[u].root # 0 => preparing[u].root \in RootIds
    BY <2>1, Bounds DEF PrepT, RootIds
  <2>3. preparing[u].pc # "none" => posts'[preparing[u].post] = posts[preparing[u].post]
    BY <1>1, <2>1 DEF PrepRight
  <2>4. \A w \in Tabs : preparing[w].root # preparing[u].root /\ preparing[u].root # 0
                          => preparing'[w].root # preparing[u].root
    BY <1>8 DEF NoPrep
  <2> QED
    BY <1>4, <1>5, <1>8, <2>1, <2>2, <2>3, <2>4, OneIsId DEF PrepRight
<1>13. ASSUME NEW c \in Procs PROVE BeginRight(c)'
  <2>1. BeginRight(c)
    BY DEF CollabInv, Beginnings
  <2>2. procs[c].pc = "begin" => posts'[1].root = 1
    <3>1. PrepRight(t)
      BY DEF CollabInv, Beginnings
    <3>2. procs[c].pc = "begin" => x.pc # "join"
      BY <2>1, <3>1 DEF BeginRight, PrepRight, x
    <3> QED
      BY <1>1, <1>2, <2>1, <3>2, OneIsId DEF BeginRight
  <2>3. \A u \in Tabs : preparing[u].root = 0 => preparing'[u].root = 0
    BY <1>8 DEF NoPrep
  <2> QED
    BY <1>1, <1>4, <2>1, <2>2, <2>3, OneIsId DEF BeginRight
<1>14. RootsKeepTypes'
  BY <1>3 DEF RootStarts, CollabInv, RootsKeepTypes
<1> QED
  BY <1>9, <1>10, <1>11, <1>12, <1>13, <1>14 DEF CollabInv, Beginnings

-----------------------------------------------------------------------------
(* Most steps also leave the budget and the receipts aside: no root uses more or less, *)
(* no message is added, no request reserves, delivers or records.                      *)

StatusStep(s, u) ==
  \/ u = s
  \/ s = "pending" /\ u = "running"
  \/ s \in {"pending", "running"} /\ u = "ending"
  \/ s = "ending" /\ u = "running"
  \/ s \in {"pending", "running", "ending"} /\ u \in Ended

RootsAside ==
  \E r \in RootIds :
    /\ \A s \in RootIds \ {r} : roots'[s] = roots[s]
    /\ roots'[r].used = roots[r].used /\ roots'[r].receipts = roots[r].receipts
    /\ \A u : IsMember(roots[r], u) => IsMember(roots'[r], u)
    /\ StatusStep(roots[r].status, roots'[r].status)

PostsAside ==
  \A p \in Ids :
    /\ posts'[p].from = posts[p].from
    /\ posts[p].from # 0 => posts'[p].tab = posts[p].tab /\ posts'[p].root = posts[p].root

Counts(x) == x.pc \in {"deliver", "refund", "record"}
ProcsAside ==
  \A c \in Procs : procs'[c] = procs[c] \/ (~ Counts(procs[c]) /\ ~ Counts(procs'[c]))

Aside == RootsAside /\ PostsAside /\ ProcsAside /\ spent'.restarted = spent.restarted

LEMMA RootsAsideStay == ASSUME roots' = roots PROVE RootsAside
BY OneIsId DEF RootsAside, StatusStep

LEMMA PostsAsideStay == ASSUME posts' = posts PROVE PostsAside
BY DEF PostsAside

\* Statuses, and prompts without a sender, leave the messages aside.
LEMMA PostsAsideMoves ==
    ASSUME CollabInv, PostsMove, \A p \in Ids : posts[p].status = "unused" => posts'[p].from = 0
    PROVE  PostsAside
<1>1. ASSUME NEW p \in Ids
      PROVE  /\ posts'[p].from = posts[p].from
             /\ posts[p].from # 0 => posts'[p].tab = posts[p].tab /\ posts'[p].root = posts[p].root
  <2>1. PostMoves(p) /\ posts[p] \in PostT /\ posts'[p] \in PostT
    BY DEF PostsMove, CollabInv, Typed
  <2>2. posts[p].status = "unused" => posts[p].from = 0
    BY DEF CollabInv, Lives, NoPost
  <2>3. CASE posts[p].status = "unused"
    BY <2>2, <2>3
  <2>4. CASE posts[p].status # "unused"
    <3>1. posts'[p] = [posts[p] EXCEPT !.status = posts'[p].status]
      BY <2>1, <2>4 DEF PostMoves
    <3>2. posts'[p].from = posts[p].from /\ posts'[p].tab = posts[p].tab /\ posts'[p].root = posts[p].root
      BY <2>1, <3>1 DEF PostT
    <3> QED
      BY <3>2
  <2> QED
    BY <2>3, <2>4
<1> QED
  BY <1>1 DEF PostsAside

LEMMA ProcsAsideStay == ASSUME procs' = procs PROVE ProcsAside
BY DEF ProcsAside

LEMMA ProcsAsideStep ==
    ASSUME CollabInv, NEW c \in Procs, NEW rec, Step(c, rec), ~ Counts(procs[c]), ~ Counts(rec)
    PROVE  ProcsAside
BY StepsOne DEF ProcsAside

LEMMA LoadAside ==
    ASSUME CollabInv
    PROVE  /\ UNCHANGED spent => spent'.restarted = spent.restarted
           /\ Calls => spent'.restarted = spent.restarted
           /\ \A kind : Acts(kind) => spent'.restarted = spent.restarted
BY DEF CollabInv, Typed, Calls, Acts

\* Steps that touch neither a root nor a request.
LEMMA PostStepsAside ==
    ASSUME CollabInv, CollabInv',
           \/ \E x \in contexts : CallExpired(x)
           \/ \E t \in Tabs : MinutePasses(t) \/ \E p \in Ids : PrepareRead(t, p)
    PROVE  Aside
BY RootsAsideStay, PostsAsideStay, ProcsAsideStay, LoadAside
   DEF CallExpired, MinutePasses, PrepareRead, Aside

LEMMA StatusStepsAside ==
    ASSUME CollabInv, PostsMove, NEW p \in Ids, NEW t \in Tabs, NEW k \in 0..2,
           \/ WriteFirst \/ WritePlain(t, p) \/ Retry(p) \/ DeletePost(p) \/ SwitchThread(t, k)
           \/ \E o \in {"completed", "failed"} : TurnEnds(p, o)
    PROVE  Aside
<1>1. roots' = roots /\ procs' = procs /\ spent'.restarted = spent.restarted
  BY LoadAside DEF WriteFirst, WritePlain, Retry, DeletePost, SwitchThread, TurnEnds
<1>2. ASSUME NEW q \in Ids, posts[q].status = "unused" PROVE posts'[q].from = 0
  <2>1. posts \in [Ids -> PostT] /\ posts[q] = NoPost /\ NoPost.from = 0
    BY <1>2 DEF CollabInv, Typed, Lives, NoPost
  <2>2. CASE WriteFirst
    BY <1>2, <2>1, <2>2 DEF WriteFirst, NoPost
  <2>3. CASE WritePlain(t, p)
    BY <1>2, <2>1, <2>3 DEF WritePlain, NoPost
  <2>4. CASE Retry(p)
    BY <1>2, <2>1, <2>4 DEF Retry
  <2>5. CASE DeletePost(p)
    BY <1>2, <2>1, <2>5 DEF DeletePost
  <2>6. CASE SwitchThread(t, k)
    BY <1>2, <2>1, <2>6 DEF SwitchThread
  <2>7. CASE \E o \in {"completed", "failed"} : TurnEnds(p, o)
    BY <1>2, <2>1, <2>7 DEF TurnEnds
  <2> QED
    BY <2>2, <2>3, <2>4, <2>5, <2>6, <2>7
<1>3. PostsAside
  BY <1>2, PostsAsideMoves
<1> QED
  BY <1>1, <1>3, RootsAsideStay, ProcsAsideStay DEF Aside

\* Requests that begin or end, or read on.
LEMMA IdleAside == ASSUME NEW c \in Procs, Idle(c) PROVE ~ Counts(procs[c])
BY DEF Idle, Counts, NoProc

LEMMA CallsAside ==
    ASSUME CollabInv, NEW c \in Procs, NEW x \in contexts,
           \/ CallFinish(c, x)
           \/ \E to \in Tabs, rid \in RequestIds : CallSend(c, x, to, rid)
    PROVE  Aside
<1>1. PICK op : AgentCalls(c, x, op)
  BY DEF CallFinish, CallSend
<1>2. roots' = roots /\ posts' = posts /\ Idle(c) /\ spent'.restarted = spent.restarted
  BY <1>1, LoadAside DEF AgentCalls
<1>3. \E rec : Step(c, rec) /\ ~ Counts(rec)
  <2>1. CASE CallFinish(c, x)
    <3>1. Step(c, [Scan("finish", x.root) EXCEPT !.post = x.post, !.attempt = x.attempt])
      BY <2>1 DEF CallFinish
    <3>2. ~ Counts([Scan("finish", x.root) EXCEPT !.post = x.post, !.attempt = x.attempt])
      BY DEF Counts, Scan, NoProc
    <3> QED
      BY <3>1, <3>2
  <2>2. CASE \E to \in Tabs, rid \in RequestIds : CallSend(c, x, to, rid)
    <3>1. PICK to \in Tabs, rid \in RequestIds : CallSend(c, x, to, rid)
      BY <2>2
    <3> DEFINE rec == [NoProc EXCEPT !.kind = "send", !.pc = "reserve", !.root = x.root,
                         !.post = x.post, !.attempt = x.attempt, !.depth = x.depth + 1, !.to = to,
                         !.rid = rid]
    <3>2. Step(c, rec)
      BY <3>1 DEF CallSend
    <3>3. ~ Counts(rec)
      BY DEF Counts, NoProc
    <3> QED
      BY <3>2, <3>3
  <2> QED
    BY <2>1, <2>2
<1>4. ProcsAside
  BY <1>2, <1>3, IdleAside, ProcsAsideStep
<1> QED
  BY <1>2, <1>4, RootsAsideStay, PostsAsideStay DEF Aside

LEMMA UserEndsAside ==
    ASSUME CollabInv, NEW c \in Procs, NEW r \in RootIds, NEW k \in {"complete", "stop"},
           UserEnds(c, r, k)
    PROVE  Aside
<1> DEFINE rec == IF k = "stop" THEN [Scan(k, r) EXCEPT !.pc = "cancel"] ELSE Scan(k, r)
<1>1. Step(c, rec) /\ Idle(c) /\ roots' = roots /\ posts' = posts
      /\ spent'.restarted = spent.restarted
  BY LoadAside DEF UserEnds
<1>2. ~ Counts(rec)
  BY DEF Counts, Scan, NoProc
<1> HIDE DEF rec
<1>3. ProcsAside
  BY <1>1, <1>2, IdleAside, ProcsAsideStep
<1> QED
  BY <1>1, <1>3, RootsAsideStay, PostsAsideStay DEF Aside

LEMMA LeafRepliesAside ==
    ASSUME CollabInv, NEW c \in Procs, NEW p \in leafDue, LeafReplies(c, p)
    PROVE  Aside
<1>1. roots' = roots /\ posts' = posts /\ spent'.restarted = spent.restarted
  BY LoadAside DEF LeafReplies
<1>2. \/ procs' = procs
      \/ Idle(c) /\ \E rec : Step(c, rec) /\ ~ Counts(rec)
  <2> DEFINE r == posts[p].root
             rec == [NoProc EXCEPT !.kind = "leaf", !.pc = "reserve", !.root = r, !.post = p,
                       !.depth = 1 + (IF IsMember(roots[r], posts[p].tab)
                                      THEN Level(roots[r], posts[p].tab) ELSE posts[p].depth),
                       !.to = posts[posts[p].from].tab]
  <2>1. procs' = procs \/ (Idle(c) /\ Step(c, rec))
    BY DEF LeafReplies
  <2>2. ~ Counts(rec)
    BY DEF Counts, NoProc
  <2> QED
    BY <2>1, <2>2
<1>3. ProcsAside
  BY <1>2, ProcsAsideStay, IdleAside, ProcsAsideStep
<1> QED
  BY <1>1, <1>3, RootsAsideStay, PostsAsideStay DEF Aside

LEMMA QueueEventAside ==
    ASSUME CollabInv, NEW c \in Procs, NEW e \in due, QueueEvent(c, e)
    PROVE  Aside
<1> DEFINE f == roots[e[2]].finish
           rec == [NoProc EXCEPT !.kind = "confirm", !.pc = "confirm", !.root = e[2],
                     !.post = f.post, !.attempt = f.attempt, !.found = <<posts[f.post].status>>]
<1>1. roots' = roots /\ posts' = posts /\ Idle(c) /\ spent'.restarted = spent.restarted
  BY LoadAside DEF QueueEvent
<1>2. procs' = procs \/ Step(c, rec) \/ Step(c, Scan("quiet", e[2]))
  BY DEF QueueEvent
<1>3. ~ Counts(rec) /\ ~ Counts(Scan("quiet", e[2]))
  BY DEF Counts, NoProc, Scan
<1> HIDE DEF rec
<1>4. ProcsAside
  BY <1>1, <1>2, <1>3, ProcsAsideStay, IdleAside, ProcsAsideStep
<1> QED
  BY <1>1, <1>4, RootsAsideStay, PostsAsideStay DEF Aside

LEMMA ReadQueueAside == ASSUME CollabInv, NEW c \in Procs, ReadQueue(c) PROVE Aside
<1>1. /\ roots' = roots /\ posts' = posts /\ procs[c].pc = "scan"
      /\ spent'.restarted = spent.restarted
  BY LoadAside DEF ReadQueue
<1>2. \E todo, found : Done(c) \/ Step(c, [procs[c] EXCEPT !.todo = todo, !.found = found])
  BY DEF ReadQueue
<1>3. procs[c] \in ProcT(procs[c].found)
  BY DEF CollabInv, Typed, ProcTyped
<1>4. \A todo, found : ~ Counts([procs[c] EXCEPT !.todo = todo, !.found = found])
  BY <1>1, <1>3 DEF Counts, ProcT
<1>5. ~ Counts(NoProc) /\ ~ Counts(procs[c])
  BY <1>1 DEF Counts, NoProc
<1>6. ProcsAside
  BY <1>2, <1>4, <1>5, ProcsAsideStep DEF Done
<1> QED
  BY <1>1, <1>6, RootsAsideStay, PostsAsideStay DEF Aside

LEMMA CancelPendingAside == ASSUME CollabInv, NEW c \in Procs, CancelPending(c) PROVE Aside
<1>1. roots' = roots /\ procs[c].pc = "cancel" /\ spent'.restarted = spent.restarted
  BY LoadAside DEF CancelPending
<1>2. procs[c] \in ProcT(procs[c].found)
  BY DEF CollabInv, Typed, ProcTyped
<1>3. \E rec : Step(c, rec) /\ ~ Counts(rec)
  <2>1. \/ Step(c, [procs[c] EXCEPT !.pc = "scan", !.todo = procs[c].members])
        \/ Step(c, [procs[c] EXCEPT !.todo = Tail(@)])
    BY DEF CancelPending
  <2>2. /\ ~ Counts([procs[c] EXCEPT !.pc = "scan", !.todo = procs[c].members])
        /\ ~ Counts([procs[c] EXCEPT !.todo = Tail(@)])
    BY <1>1, <1>2 DEF Counts, ProcT
  <2> QED
    BY <2>1, <2>2
<1>4. ~ Counts(procs[c])
  BY <1>1 DEF Counts
<1>5. ProcsAside
  BY <1>3, <1>4, ProcsAsideStep
<1>6. PostsMove
  BY CancelPendingMoves DEF Moves
<1>7. ASSUME NEW q \in Ids, posts[q].status = "unused" PROVE posts'[q].from = 0
  <2>1. posts[q] = NoPost /\ NoPost.from = 0 /\ NoPost.status = "unused"
    BY <1>7 DEF CollabInv, Lives, NoPost
  <2> QED
    BY <2>1 DEF CancelPending
<1> QED
  BY <1>1, <1>5, <1>6, <1>7, RootsAsideStay, PostsAsideMoves DEF Aside

LEMMA SettlingAside ==
    ASSUME CollabInv, NEW c \in Procs, procs[c].pc \in {"scan", "confirm"}, NEW v,
           Settles(roots[procs[c].root], v), WriteRoot(procs[c].root, v), Done(c),
           UNCHANGED <<posts, spent>>
    PROVE  Aside
<1> DEFINE r == procs[c].root
<1>1. r \in RootIds /\ roots \in [RootIds -> RootT]
  BY RequestTyped DEF CollabInv, Typed
<1>2. roots'[r] = v /\ \A s \in RootIds \ {r} : roots'[s] = roots[s]
  BY <1>1 DEF WriteRoot
<1>3. RootsAside
  BY <1>1, <1>2 DEF RootsAside, Settles, StatusStep, IsMember
<1>4. ~ Counts(procs[c]) /\ ~ Counts(NoProc)
  BY DEF Counts, NoProc
<1> QED
  BY <1>3, <1>4, PostsAsideStay, ProcsAsideStep DEF Aside, Done

LEMMA SettleAside == ASSUME CollabInv, NEW c \in Procs, Settle(c) PROVE Aside
<1>1. procs[c].pc = "scan" /\ WriteRoot(procs[c].root, SettledRoot(c))
  BY DEF Settle, SettledRoot
<1>2. Settles(roots[procs[c].root], SettledRoot(c))
  BY <1>1, ScanSettles DEF CollabInv
<1> QED
  BY <1>1, <1>2, SettlingAside DEF Settle

LEMMA ConfirmAside == ASSUME CollabInv, NEW c \in Procs, Confirm(c) PROVE Aside
<1>1. procs[c].pc = "confirm"
  BY DEF Confirm
<1>2. Settles(roots[procs[c].root], Confirmed(roots[procs[c].root], procs[c]))
  BY <1>1, ConfirmSettles DEF CollabInv
<1> QED
  BY <1>1, <1>2, SettlingAside DEF Confirm

\* A message that is refused ends its request.
LEMMA RefusedAside ==
    ASSUME CollabInv, NEW c \in Procs, procs[c].pc = "reserve", Done(c),
           UNCHANGED <<roots, posts, spent>>
    PROVE  Aside
<1>1. ~ Counts(procs[c]) /\ ~ Counts(NoProc)
  BY DEF Counts, NoProc
<1> QED
  BY <1>1, RootsAsideStay, PostsAsideStay, ProcsAsideStep DEF Aside, Done

LEMMA WriteCollaborationAside ==
    ASSUME CollabInv, NEW c \in Procs, WriteCollaboration(c)
    PROVE  Aside
<1> DEFINE rec == [NoProc EXCEPT !.kind = "begin", !.pc = "begin", !.root = 1]
           new == IF posts[1].status = "unused"
                  THEN [NoPost EXCEPT !.tab = Origin, !.status = "pending", !.root = 1]
                  ELSE [posts[1] EXCEPT !.root = 1]
<1>1. /\ Step(c, rec) /\ Idle(c) /\ roots' = roots /\ spent'.restarted = spent.restarted
      /\ posts' = [posts EXCEPT ![1] = new]
  BY LoadAside DEF WriteCollaboration
<1>2. ~ Counts(rec)
  BY DEF Counts, NoProc
<1>3. posts \in [Ids -> PostT] /\ posts[1].from = 0 /\ posts[1] \in PostT
  BY OneIsId DEF CollabInv, Typed, Lives
<1>4. new.from = 0
  BY <1>3 DEF NoPost, PostT
<1> HIDE DEF rec, new
<1>5. ProcsAside
  BY <1>1, <1>2, IdleAside, ProcsAsideStep
<1>6. PostsAside
  BY <1>1, <1>3, <1>4, OneIsId DEF PostsAside
<1> QED
  BY <1>1, <1>5, <1>6, RootsAsideStay DEF Aside

LEMMA PrepareJoinAside ==
    ASSUME CollabInv, NEW t \in Tabs, PrepareJoin(t)
    PROVE  Aside
<1> DEFINE r == preparing[t].root
           p == preparing[t].post
<1>1. /\ p \in Ids /\ \A q \in Ids \ {p} : posts'[q] = posts[q]
      /\ posts'[p].tab = posts[p].tab /\ posts'[p].from = posts[p].from
      /\ posts[p].from # 0 => posts'[p].root = posts[p].root
      /\ UNCHANGED <<procs, spent>>
      /\ \/ UNCHANGED roots
         \/ r \in RootIds /\ WriteRoot(r, Started(roots[r], p))
  BY PrepareJoinParts
<1>2. PostsAside
  BY <1>1 DEF PostsAside
<1>3. RootsAside
  <2>1. CASE UNCHANGED roots
    BY <2>1, RootsAsideStay
  <2>2. CASE r \in RootIds /\ WriteRoot(r, Started(roots[r], p))
    <3>1. \A s \in RootIds \ {r} : roots'[s] = roots[s]
      BY <2>2 DEF CollabInv, Typed, WriteRoot
    <3>2. RootStarts(r)
      BY <2>2, PrepareJoinRoots
    <3> QED
      BY <2>2, <3>1, <3>2 DEF RootStarts, RootsAside, StatusStep
  <2> QED
    BY <1>1, <2>1, <2>2
<1> QED
  BY <1>1, <1>2, <1>3, ProcsAsideStay, LoadAside DEF Aside

-----------------------------------------------------------------------------
(* Every step keeps the invariant, and leaves the budget and the receipts aside *)
(* or is one of the few that do not.                                            *)

LEMMA InitKeeps == ASSUME CollabInit PROVE CollabInv
<1>1. /\ roots = [r \in RootIds |-> NoRoot] /\ posts = [p \in Ids |-> NoPost]
      /\ preparing = [t \in Tabs |-> NoPrep] /\ procs = [c \in Procs |-> NoProc]
      /\ contexts = {} /\ due = {} /\ leafDue = {} /\ thread = [t \in Tabs |-> 1]
  BY DEF CollabInit
<1>2. NoRoot \in RootT /\ NoRoot.status = "none" /\ NoRoot.finish = NoFinish /\ NoRoot.members = <<>>
  <2>1. NoFinish \in FinishT /\ 0 \in 0..Messages /\ <<>> \in Seq(Member)
    BY Bounds DEF FinishT, NoFinish, SomeTab
  <2> QED
    BY <2>1 DEF NoRoot, RootT, Statuses
<1>3. /\ NoPost \in PostT /\ NoPost.status = "unused" /\ NoPost.root = 0 /\ NoPost.from = 0
  <2>1. 0 \in 0..MaxRoots /\ 0 \in 0..Depth /\ 0 \in 0..MaxPrompts
    BY Bounds
  <2> QED
    BY <2>1 DEF NoPost, PostT, SomeTab, PostStatuses
<1>4. NoPrep \in PrepT /\ NoPrep.pc = "none" /\ NoPrep.root = 0
  BY Bounds DEF NoPrep, PrepT
<1>5. Typed
  <2>1. spent \in [calls : Nat, acts : Nat, restarts : Nat, kinds : {spent.kinds}, restarted : BOOLEAN]
    BY CollabAssumption DEF CollabInit
  <2>2. \A c \in Procs : ProcTyped(procs[c])
    BY <1>1, NoProcTyped
  <2> QED
    BY <1>1, <1>2, <1>3, <1>4, <2>1, <2>2 DEF Typed
<1>6. Lives
  BY <1>1, <1>2, <1>3, OneIsId, NoProcTyped DEF Lives, PostingPcs
<1>7. Beginnings
  BY <1>1, <1>4, NoProcTyped DEF Beginnings, PrepRight, BeginRight
<1>8. RootsKeepTypes
  BY <1>1, <1>2 DEF RootsKeepTypes
<1> QED
  BY <1>5, <1>6, <1>7, <1>8 DEF CollabInv

\* A root begins, with the budget of one message.
BeginsOne ==
  \E r \in RootIds :
    /\ roots[r].status = "none" /\ roots'[r] = Begun
    /\ \A s \in RootIds \ {r} : roots'[s] = roots[s]
    /\ posts' = posts /\ ProcsAside /\ spent'.restarted = spent.restarted

Takes(c) ==
  /\ Reserve(c)
  /\ Reservable(roots[procs[c].root], procs[c].kind, procs[c].depth)

Effects == Aside \/ BeginsOne \/ Restart
             \/ \E c \in Procs : Takes(c) \/ Deliver(c) \/ Record(c) \/ Refund(c)

LEMMA RequestSteps ==
    ASSUME CollabInv, NEW c \in Procs,
           \/ BeginRoot(c) \/ Reserve(c) \/ Deliver(c) \/ Record(c) \/ Refund(c)
           \/ CancelPending(c) \/ ReadQueue(c) \/ Settle(c) \/ Confirm(c)
           \/ (\E p \in leafDue : LeafReplies(c, p)) \/ (\E e \in due : QueueEvent(c, e))
    PROVE  CollabInv' /\ Effects
<1>1. CASE BeginRoot(c)
  <2>1. ~ Counts(procs[c]) /\ ~ Counts(NoProc) /\ Done(c) /\ UNCHANGED <<posts, spent>>
    BY <1>1 DEF BeginRoot, Counts, NoProc
  <2>2. ProcsAside
    BY <2>1, ProcsAsideStep DEF Done
  <2> QED
    BY <1>1, <2>1, <2>2, BeginRootKeeps, OneIsId, LoadAside DEF Effects, BeginsOne
<1>2. CASE Reserve(c)
  <2>1. CollabInv'
    BY <1>2, ReserveMoves, MovesKeep
  <2>2. CASE Reservable(roots[procs[c].root], procs[c].kind, procs[c].depth)
    BY <1>2, <2>1, <2>2 DEF Effects, Takes
  <2>3. CASE ~ Reservable(roots[procs[c].root], procs[c].kind, procs[c].depth)
    <3>1. Aside
      BY <1>2, <2>3, RefusedAside DEF Reserve
    <3> QED
      BY <2>1, <3>1 DEF Effects
  <2> QED
    BY <2>2, <2>3
<1>3. CASE Deliver(c) \/ Record(c) \/ Refund(c)
  BY <1>3, DeliverMoves, RecordMoves, RefundMoves, MovesKeep DEF Effects
<1>4. CASE CancelPending(c) \/ ReadQueue(c) \/ Settle(c) \/ Confirm(c)
  BY <1>4, CancelPendingMoves, ReadQueueMoves, SettleMoves, ConfirmMoves, MovesKeep,
     CancelPendingAside, ReadQueueAside, SettleAside, ConfirmAside DEF Effects
<1>5. CASE (\E p \in leafDue : LeafReplies(c, p)) \/ (\E e \in due : QueueEvent(c, e))
  BY <1>5, LeafRepliesMoves, QueueEventMoves, MovesKeep, LeafRepliesAside, QueueEventAside
     DEF Effects
<1> QED
  BY <1>1, <1>2, <1>3, <1>4, <1>5

LEMMA QueueSteps ==
    ASSUME CollabInv, ~ Rolling,
           \/ \E t \in Tabs : PrepareBegin(t) \/ PrepareJoin(t) \/ (\E p \in Ids : PrepareRead(t, p))
           \/ \E p \in Ids : \E o \in {"completed", "failed"} : TurnEnds(p, o)
    PROVE  CollabInv' /\ Effects
<1>1. ASSUME NEW t \in Tabs, PrepareBegin(t) PROVE CollabInv' /\ Effects
  <2>1. UNCHANGED <<posts, procs, spent>>
    BY <1>1 DEF PrepareBegin
  <2> QED
    BY <1>1, <2>1, PrepareBeginKeeps, ProcsAsideStay, LoadAside DEF Effects, BeginsOne
<1>2. ASSUME NEW t \in Tabs, PrepareJoin(t) PROVE CollabInv' /\ Effects
  BY <1>2, PrepareJoinKeeps, PrepareJoinAside DEF Effects
<1>3. ASSUME NEW t \in Tabs, NEW p \in Ids, PrepareRead(t, p) PROVE CollabInv' /\ Effects
  BY <1>3, PrepareReadKeeps, PostStepsAside DEF Effects
<1>4. ASSUME NEW p \in Ids, NEW o \in {"completed", "failed"}, TurnEnds(p, o)
      PROVE  CollabInv' /\ Effects
  <2>1. Moves
    BY <1>4, TurnEndsMoves
  <2>2. Aside
    BY <1>4, <2>1, StatusStepsAside, Bounds DEF Moves
  <2> QED
    BY <2>1, <2>2, MovesKeep DEF Effects
<1> QED
  BY <1>1, <1>2, <1>3, <1>4

LEMMA UserSteps == ASSUME CollabInv, CollabUser PROVE CollabInv' /\ Effects
<1>1. ASSUME NEW c \in Procs, WriteCollaboration(c) PROVE CollabInv' /\ Effects
  BY <1>1, WriteCollaborationKeeps, WriteCollaborationAside DEF Effects
<1>2. ASSUME NEW c \in Procs, NEW r \in RootIds, NEW k \in {"complete", "stop"}, UserEnds(c, r, k)
      PROVE  CollabInv' /\ Effects
  BY <1>2, UserEndsMoves, MovesKeep, UserEndsAside DEF Effects
<1>3. ASSUME NEW c \in Procs, NEW x \in contexts, CallFinish(c, x) PROVE CollabInv' /\ Effects
  BY <1>3, CallFinishMoves, MovesKeep, CallsAside DEF Effects
<1>4. ASSUME NEW c \in Procs, NEW x \in contexts, NEW to \in Tabs, NEW rid \in RequestIds,
             CallSend(c, x, to, rid)
      PROVE  CollabInv' /\ Effects
  BY <1>4, CallSendMoves, MovesKeep, CallsAside DEF Effects
<1>5. ASSUME NEW x \in contexts, CallExpired(x) PROVE CollabInv' /\ Effects
  BY <1>5, CallExpiredMoves, MovesKeep, PostStepsAside DEF Effects
<1>6. ASSUME NEW t \in Tabs, MinutePasses(t) PROVE CollabInv' /\ Effects
  BY <1>6, MinutePassesMoves, MovesKeep, PostStepsAside DEF Effects
<1>7. ASSUME NEW t \in Tabs, NEW p \in Ids, NEW k \in 0..2,
             WritePlain(t, p) \/ SwitchThread(t, k) \/ Retry(p) \/ DeletePost(p) \/ WriteFirst
      PROVE  CollabInv' /\ Effects
  <2>1. Moves
    BY <1>7, WritePlainMoves, SwitchThreadMoves, RetryMoves, DeletePostMoves, WriteFirstMoves
  <2>2. PostsMove
    BY <2>1 DEF Moves
  <2>3. Aside
    BY <1>7, <2>2, StatusStepsAside
  <2> QED
    BY <2>1, <2>3, MovesKeep DEF Effects
<1>8. CASE Restart
  BY <1>8, RestartMoves, MovesKeep DEF Effects
<1>9. Origin \in Tabs /\ 1 \in Ids /\ 0 \in 0..2
  BY Bounds, OneIsId
<1>10. CASE WriteFirst
  BY <1>7, <1>9, <1>10
<1>11. ASSUME NEW t \in Tabs, NEW p \in Ids, WritePlain(t, p) PROVE CollabInv' /\ Effects
  BY <1>7, <1>9, <1>11
<1>12. ASSUME NEW t \in Tabs, NEW k \in 0..2, SwitchThread(t, k) PROVE CollabInv' /\ Effects
  BY <1>7, <1>9, <1>12
<1>13. ASSUME NEW p \in Ids, Retry(p) \/ DeletePost(p) PROVE CollabInv' /\ Effects
  BY <1>7, <1>9, <1>13
<1> QED
  BY <1>1, <1>2, <1>3, <1>4, <1>5, <1>6, <1>8, <1>10, <1>11, <1>12, <1>13 DEF CollabUser

LEMMA NextKeeps ==
    ASSUME CollabInv, ~ Rolling, [CollabNext]_collabVars
    PROVE  CollabInv' /\ Effects
<1>1. CASE UNCHANGED collabVars
  <2>1. Moves
    BY <1>1, RootsStay, PostsStay, ProcsStay, PrepStays, RestStays DEF Moves, collabVars
  <2>2. Aside
    BY <1>1, RootsAsideStay, PostsAsideStay, ProcsAsideStay, LoadAside DEF Aside, collabVars
  <2> QED
    BY <2>1, <2>2, MovesKeep DEF Effects
<1>2. CASE CollabUser
  BY <1>2, UserSteps
<1>3. CASE CollabSystem
  BY <1>3, RequestSteps, QueueSteps DEF CollabSystem, Events
<1> QED
  BY <1>1, <1>2, <1>3 DEF CollabNext

-----------------------------------------------------------------------------
(* The budget.                                                                *)

BudgetOf(r) ==
  roots[r].status # "none" =>
    LET n == 1 + Cardinality(Sent(r)) + Cardinality(Reserved(r))
    IN  /\ n <= roots[r].used /\ roots[r].used <= Messages
        /\ ~ spent.restarted => roots[r].used = n

LEMMA SetsAreFinite ==
    ASSUME NEW r
    PROVE  /\ IsFiniteSet(Sent(r)) /\ Cardinality(Sent(r)) \in Nat
           /\ IsFiniteSet(Reserved(r)) /\ Cardinality(Reserved(r)) \in Nat
<1>1. IsFiniteSet(Ids) /\ IsFiniteSet(Procs)
  BY FS_Interval, Bounds, CollabAssumption DEF Ids
<1>2. Sent(r) \subseteq Ids /\ Reserved(r) \subseteq Procs
  BY DEF Sent, Reserved
<1>3. IsFiniteSet(Sent(r)) /\ IsFiniteSet(Reserved(r))
  BY <1>1, <1>2, FS_Subset
<1> QED
  BY <1>3, FS_CardinalityType

\* A root whose messages and reservations stay.
LEMMA BudgetStays ==
    ASSUME NEW r \in RootIds, BudgetOf(r), roots[r].status = "none" => roots'[r].status = "none",
           roots'[r].used = roots[r].used, Sent(r)' = Sent(r), Reserved(r)' = Reserved(r),
           spent'.restarted = spent.restarted
    PROVE  BudgetOf(r)'
BY DEF BudgetOf

LEMMA SentAside == ASSUME PostsAside, NEW r \in RootIds PROVE Sent(r)' = Sent(r)
BY DEF PostsAside, Sent

LEMMA ReservedAside == ASSUME ProcsAside, NEW r \in RootIds PROVE Reserved(r)' = Reserved(r)
BY DEF ProcsAside, Reserved, Counts

LEMMA AsideKeepsBudget == ASSUME BudgetHolds, Aside PROVE BudgetHolds'
<1>1. ASSUME NEW r \in RootIds PROVE BudgetOf(r)'
  <2>1. BudgetOf(r)
    BY DEF BudgetHolds, BudgetOf
  <2>2. /\ roots'[r].used = roots[r].used
        /\ roots[r].status = "none" => roots'[r].status = "none"
    BY DEF Aside, RootsAside, StatusStep
  <2> QED
    BY <2>1, <2>2, SentAside, ReservedAside, BudgetStays DEF Aside
<1> QED
  BY <1>1 DEF BudgetHolds, BudgetOf

LEMMA BeginKeepsBudget == ASSUME CollabInv, BudgetHolds, BeginsOne PROVE BudgetHolds'
<1>1. PICK b \in RootIds :
        /\ roots[b].status = "none" /\ roots'[b] = Begun
        /\ \A s \in RootIds \ {b} : roots'[s] = roots[s]
        /\ posts' = posts /\ ProcsAside /\ spent'.restarted = spent.restarted
  BY DEF BeginsOne
<1>2. \A r \in RootIds : Sent(r)' = Sent(r) /\ Reserved(r)' = Reserved(r)
  BY <1>1, PostsAsideStay, SentAside, ReservedAside
<1>3. Sent(b) = {}
  BY <1>1 DEF Sent, CollabInv, Lives, RootIds
<1>4. Reserved(b) = {}
  BY <1>1 DEF Reserved, CollabInv, Lives
<1>5. BudgetOf(b)'
  <2>1. Cardinality(Sent(b)') = 0 /\ Cardinality(Reserved(b)') = 0
    BY <1>2, <1>3, <1>4, FS_EmptySet
  <2> QED
    BY <1>1, <2>1, BeginsTyped, Bounds DEF BudgetOf
<1>6. ASSUME NEW r \in RootIds \ {b} PROVE BudgetOf(r)'
  <2>1. BudgetOf(r)
    BY DEF BudgetHolds, BudgetOf
  <2> QED
    BY <1>1, <1>2, <2>1, BudgetStays
<1> QED
  BY <1>5, <1>6 DEF BudgetHolds, BudgetOf

LEMMA TakeKeepsBudget ==
    ASSUME CollabInv, BudgetHolds, NEW c \in Procs, Takes(c)
    PROVE  BudgetHolds'
<1>0. PICK b : b = procs[c].root
  OBVIOUS
<1> DEFINE rec == [procs[c] EXCEPT !.pc = "deliver"]
<1>1. /\ procs[c].pc = "reserve" /\ roots[b].used < Messages /\ Step(c, rec)
      /\ WriteRoot(b, [roots[b] EXCEPT !.used = @ + 1])
      /\ UNCHANGED <<posts, spent>>
  BY <1>0 DEF Takes, Reserve, Reservable
<1>2. /\ b \in RootIds /\ roots[b].status # "none" /\ roots[b] \in RootT
      /\ procs[c] \in ProcT(procs[c].found) /\ roots \in [RootIds -> RootT]
  BY <1>0, <1>1, RequestTyped DEF PostingPcs, ProcTyped, CollabInv, Typed
<1>3. rec.pc = "deliver" /\ rec.root = b
  BY <1>0, <1>2 DEF ProcT
<1> HIDE DEF rec
<1>4. procs'[c] = rec /\ \A d \in Procs \ {c} : procs'[d] = procs[d]
  BY <1>1, StepsOne
<1>5. /\ roots'[b].used = roots[b].used + 1 /\ roots'[b].status = roots[b].status
      /\ \A r \in RootIds \ {b} : roots'[r] = roots[r]
      /\ roots[b].used \in Nat /\ Messages \in Nat
  BY <1>1, <1>2, Bounds DEF WriteRoot, RootT
<1>6. \A r \in RootIds : Sent(r)' = Sent(r)
  BY <1>1, PostsAsideStay, SentAside
<1>7. Reserved(b)' = Reserved(b) \cup {c} /\ c \notin Reserved(b)
  BY <1>0, <1>1, <1>3, <1>4 DEF Reserved
<1>8. \A r \in RootIds \ {b} : Reserved(r)' = Reserved(r)
  BY <1>0, <1>1, <1>3, <1>4 DEF Reserved
<1>9. BudgetOf(b)'
  <2>1. Cardinality(Reserved(b)') = Cardinality(Reserved(b)) + 1
    BY <1>7, SetsAreFinite, FS_AddElement
  <2>2. BudgetOf(b)
    BY <1>2 DEF BudgetHolds, BudgetOf
  <2>3. Cardinality(Reserved(b)) \in Nat /\ Cardinality(Sent(b)) \in Nat
    BY SetsAreFinite
  <2> QED
    BY <1>1, <1>2, <1>5, <1>6, <2>1, <2>2, <2>3 DEF BudgetOf
<1>10. ASSUME NEW r \in RootIds \ {b} PROVE BudgetOf(r)'
  <2>1. BudgetOf(r)
    BY DEF BudgetHolds, BudgetOf
  <2> QED
    BY <1>1, <1>5, <1>6, <1>8, <2>1, BudgetStays
<1> QED
  BY <1>9, <1>10 DEF BudgetHolds, BudgetOf

\* A message that is delivered was reserved: the one counts for the other.
LEMMA DeliverKeepsBudget ==
    ASSUME CollabInv, BudgetHolds, NEW c \in Procs, Deliver(c)
    PROVE  BudgetHolds'
<1>0. PICK x, b : x = procs[c] /\ b = x.root
  OBVIOUS
<1>1. x.pc = "deliver" /\ UNCHANGED <<roots, spent>>
  BY <1>0 DEF Deliver
<1>2. /\ b \in RootIds /\ x \in ProcT(x.found) /\ x.post \in Ids
      /\ posts \in [Ids -> PostT]
  BY <1>0, <1>1, RequestTyped DEF PostingPcs, ProcTyped, CollabInv, Typed
<1>3. CASE Step(c, [x EXCEPT !.pc = "refund"]) /\ UNCHANGED posts
  <2> DEFINE rec == [x EXCEPT !.pc = "refund"]
  <2>1. rec.pc = "refund" /\ rec.root = b
    BY <1>0, <1>2 DEF ProcT
  <2>2. procs'[c] = rec /\ \A d \in Procs \ {c} : procs'[d] = procs[d]
    BY <1>3, StepsOne
  <2> HIDE DEF rec
  <2>3. \A r \in RootIds : Sent(r)' = Sent(r) /\ Reserved(r)' = Reserved(r)
    BY <1>0, <1>1, <1>3, <2>1, <2>2 DEF Sent, Reserved
  <2>4. ASSUME NEW r \in RootIds PROVE BudgetOf(r)'
    <3>1. BudgetOf(r)
      BY DEF BudgetHolds, BudgetOf
    <3> QED
      BY <1>1, <2>3, <3>1, BudgetStays
  <2> QED
    BY <2>4 DEF BudgetHolds, BudgetOf
<1>4. ASSUME NEW p \in Ids \ {1}, posts[p].status = "unused",
             posts' = [posts EXCEPT ![p] =
               [NoPost EXCEPT !.tab = x.to, !.status = "pending", !.root = x.root,
                  !.depth = x.depth, !.from = x.post, !.thread = thread[x.to]]],
             Step(c, [x EXCEPT !.pc = "record", !.found = <<p>>])
      PROVE  BudgetHolds'
  <2> DEFINE rec == [x EXCEPT !.pc = "record", !.found = <<p>>]
  <2>1. rec.pc = "record" /\ rec.root = b
    BY <1>0, <1>2 DEF ProcT
  <2>2. procs'[c] = rec /\ \A d \in Procs \ {c} : procs'[d] = procs[d]
    BY <1>4, StepsOne
  <2> HIDE DEF rec
  <2>3. posts[p].from = 0
    BY <1>4 DEF CollabInv, Lives, NoPost
  <2>4. /\ posts'[p].root = b /\ posts'[p].from = x.post /\ x.post # 0
        /\ \A q \in Ids \ {p} : posts'[q] = posts[q]
    BY <1>0, <1>2, <1>4 DEF NoPost, Ids
  <2>5. Sent(b)' = Sent(b) \cup {p} /\ p \notin Sent(b)
    BY <2>3, <2>4 DEF Sent
  <2>6. \A r \in RootIds \ {b} : Sent(r)' = Sent(r)
    BY <2>3, <2>4 DEF Sent
  <2>7. Reserved(b)' = Reserved(b) \ {c} /\ c \in Reserved(b)
    BY <1>0, <1>1, <2>1, <2>2 DEF Reserved
  <2>8. \A r \in RootIds \ {b} : Reserved(r)' = Reserved(r)
    BY <1>0, <1>1, <2>1, <2>2 DEF Reserved
  <2>9. BudgetOf(b)'
    <3>1. Cardinality(Sent(b)') = Cardinality(Sent(b)) + 1
      BY <2>5, SetsAreFinite, FS_AddElement
    <3>2. Cardinality(Reserved(b)') = Cardinality(Reserved(b)) - 1
      BY <2>7, SetsAreFinite, FS_RemoveElement
    <3>3. Cardinality(Reserved(b)) \in Nat /\ Cardinality(Sent(b)) \in Nat
      BY SetsAreFinite
    <3>4. BudgetOf(b)
      BY <1>2 DEF BudgetHolds, BudgetOf
    <3> QED
      BY <1>1, <3>1, <3>2, <3>3, <3>4 DEF BudgetOf
  <2>10. ASSUME NEW r \in RootIds \ {b} PROVE BudgetOf(r)'
    <3>1. BudgetOf(r)
      BY DEF BudgetHolds, BudgetOf
    <3> QED
      BY <1>1, <2>6, <2>8, <3>1, BudgetStays
  <2> QED
    BY <2>9, <2>10 DEF BudgetHolds, BudgetOf
<1> QED
  BY <1>0, <1>3, <1>4 DEF Deliver

LEMMA RecordKeepsBudget ==
    ASSUME CollabInv, BudgetHolds, NEW c \in Procs, Record(c)
    PROVE  /\ BudgetHolds'
           /\ \A r \in RootIds : /\ roots'[r].used = roots[r].used
                                 /\ roots'[r].status = roots[r].status
<1> DEFINE b == procs[c].root
<1>1. /\ procs[c].pc = "record" /\ WriteRoot(b, Posted(c)) /\ Step(c, NoProc)
      /\ UNCHANGED <<posts, spent>>
  BY DEF Record, Done
<1>2. b \in RootIds /\ procs[c].found[1] \in Ids /\ Typed
  BY <1>1, RequestTyped DEF PostingPcs, ProcTyped, CollabInv
<1>3. \A r \in RootIds : roots'[r].used = roots[r].used /\ roots'[r].status = roots[r].status
  <2>1. Posted(c).used = roots[b].used /\ Posted(c).status = roots[b].status
    BY <1>1, <1>2, PostedRoot
  <2> QED
    BY <1>1, <1>2, <2>1 DEF WriteRoot, Typed
<1>4. procs'[c] = NoProc /\ \A d \in Procs \ {c} : procs'[d] = procs[d]
  BY <1>1, StepsOne
<1>5. \A r \in RootIds : Reserved(r)' = Reserved(r)
  BY <1>1, <1>4 DEF Reserved, NoProc
<1>6. \A r \in RootIds : Sent(r)' = Sent(r)
  BY <1>1, PostsAsideStay, SentAside
<1>7. ASSUME NEW r \in RootIds PROVE BudgetOf(r)'
  <2>1. BudgetOf(r)
    BY DEF BudgetHolds, BudgetOf
  <2> QED
    BY <1>1, <1>3, <1>5, <1>6, <2>1, BudgetStays
<1> QED
  BY <1>3, <1>7 DEF BudgetHolds, BudgetOf

\* A refund takes back what was reserved, so that there is something to take back.
LEMMA RefundKeepsBudget ==
    ASSUME CollabInv, BudgetHolds, NEW c \in Procs, Refund(c)
    PROVE  LET b == procs[c].root
           IN  /\ BudgetHolds'
               /\ b \in RootIds /\ roots[b].status # "none" /\ roots[b].used > 1
               /\ roots'[b] = [roots[b] EXCEPT !.used = @ - 1]
               /\ \A r \in RootIds \ {b} : roots'[r] = roots[r]
<1>0. PICK b : b = procs[c].root
  OBVIOUS
<1>1. /\ procs[c].pc = "refund" /\ roots' = Refunded(c) /\ Step(c, NoProc)
      /\ UNCHANGED <<posts, spent>>
  BY DEF Refund, Done
<1>2. /\ b \in RootIds /\ roots[b] \in RootT /\ roots[b].status # "none"
      /\ roots \in [RootIds -> RootT]
  BY <1>0, <1>1, RequestTyped DEF PostingPcs, CollabInv, Typed
<1>3. procs'[c] = NoProc /\ \A d \in Procs \ {c} : procs'[d] = procs[d]
  BY <1>1, StepsOne
<1>4. \A r \in RootIds : Sent(r)' = Sent(r)
  BY <1>1, PostsAsideStay, SentAside
<1>5. Reserved(b)' = Reserved(b) \ {c} /\ c \in Reserved(b)
  BY <1>0, <1>1, <1>3 DEF Reserved, NoProc
<1>6. \A r \in RootIds \ {b} : Reserved(r)' = Reserved(r)
  BY <1>0, <1>1, <1>3 DEF Reserved, NoProc
<1>7. Cardinality(Reserved(b)') = Cardinality(Reserved(b)) - 1 /\ Cardinality(Reserved(b)') \in Nat
  <2>1. IsFiniteSet(Reserved(b) \ {c})
    BY SetsAreFinite, FS_RemoveElement
  <2> QED
    BY <1>5, <2>1, SetsAreFinite, FS_RemoveElement, FS_CardinalityType
<1>8. /\ Cardinality(Reserved(b)) \in Nat /\ Cardinality(Sent(b)) \in Nat /\ BudgetOf(b)
      /\ roots[b].used \in Nat /\ Messages \in Nat
  BY <1>2, SetsAreFinite, Bounds DEF BudgetHolds, BudgetOf, RootT
<1>9. roots[b].used > 1
  BY <1>2, <1>7, <1>8 DEF BudgetOf
<1>10. /\ roots'[b] = [roots[b] EXCEPT !.used = @ - 1]
       /\ \A r \in RootIds \ {b} : roots'[r] = roots[r]
  BY <1>0, <1>1, <1>2, <1>8, <1>9 DEF Refunded
<1>11. roots'[b].used = roots[b].used - 1 /\ roots'[b].status = roots[b].status
  BY <1>2, <1>10 DEF RootT
<1>12. BudgetOf(b)'
  BY <1>1, <1>2, <1>4, <1>7, <1>8, <1>11 DEF BudgetOf
<1>13. ASSUME NEW r \in RootIds \ {b} PROVE BudgetOf(r)'
  <2>1. BudgetOf(r)
    BY DEF BudgetHolds, BudgetOf
  <2> QED
    BY <1>1, <1>4, <1>6, <1>10, <2>1, BudgetStays
<1>14. BudgetHolds'
  BY <1>12, <1>13 DEF BudgetHolds, BudgetOf
<1> QED
  BY <1>0, <1>2, <1>9, <1>10, <1>14

\* A restart loses what was reserved.
LEMMA RestartKeepsBudget == ASSUME CollabInv, BudgetHolds, Restart PROVE BudgetHolds'
<1>1. /\ roots' = roots /\ \A c \in Procs : procs'[c] = NoProc
      /\ spent'.restarted = TRUE
  BY DEF Restart, CollabInv, Typed
<1>2. PostsAside
  <2>1. ASSUME NEW q \in Ids, posts[q].status = "unused" PROVE posts'[q].from = 0
    <3>1. posts[q] = NoPost /\ NoPost.from = 0 /\ NoPost.status = "unused"
      BY <2>1 DEF CollabInv, Lives, NoPost
    <3> QED
      BY <3>1 DEF Restart
  <2>2. PostsMove
    BY RestartMoves DEF Moves
  <2> QED
    BY <2>1, <2>2, PostsAsideMoves
<1>3. \A r \in RootIds : Sent(r)' = Sent(r)
  BY <1>2, SentAside
<1>4. \A r \in RootIds : Cardinality(Reserved(r)') = 0
  <2>1. \A r \in RootIds : Reserved(r)' = {}
    BY <1>1 DEF Reserved, NoProc
  <2> QED
    BY <2>1, FS_EmptySet
<1>5. ASSUME NEW r \in RootIds PROVE BudgetOf(r)'
  <2>1. BudgetOf(r) /\ Cardinality(Reserved(r)) \in Nat /\ Cardinality(Sent(r)) \in Nat
    BY SetsAreFinite DEF BudgetHolds, BudgetOf
  <2>2. roots[r].used \in Nat /\ Messages \in Nat
    BY Bounds DEF CollabInv, Typed, RootT
  <2> QED
    BY <1>1, <1>3, <1>4, <2>1, <2>2 DEF BudgetOf
<1> QED
  BY <1>5 DEF BudgetHolds, BudgetOf

LEMMA BudgetStep == ASSUME CollabInv, BudgetHolds, Effects PROVE BudgetHolds'
BY AsideKeepsBudget, BeginKeepsBudget, TakeKeepsBudget, DeliverKeepsBudget, RecordKeepsBudget,
   RefundKeepsBudget, RestartKeepsBudget DEF Effects

\* The invariant holds the type invariant of the runs.
LEMMA InvHasTypes == ASSUME CollabInv PROVE CollabTypes
<1>1. \A r \in RootIds : roots[r] \in RootT
  BY DEF CollabInv, Typed
<1>2. \A p \in Ids : posts[p] \in PostT
  BY DEF CollabInv, Typed
<1>3. RootsKeepTypes /\ due \subseteq SomeTab \X RootIds
      /\ \A x \in contexts : roots[x.root].status # "none"
  BY DEF CollabInv, Typed, Lives
<1> QED
  BY <1>1, <1>2, <1>3 DEF CollabTypes, RootsKeepTypes, RootT, PostT, Statuses, PostStatuses, SomeTab

\* The budget of a collaboration is what it delivered and what it is delivering, for any
\* number of agents that post, are refused and are refunded in parallel; only a restart
\* may lose a reservation (opSend and replyForLeaf of a2a-service.ts).
THEOREM BudgetIsKept == ASSUME ~ Rolling PROVE CollabSpec => []BudgetKept
<1>1. CollabInit => CollabInv /\ BudgetHolds
  <2> SUFFICES ASSUME CollabInit PROVE CollabInv /\ BudgetHolds
    OBVIOUS
  <2>1. \A r \in RootIds : roots[r].status = "none"
    BY DEF CollabInit, NoRoot
  <2> QED
    BY <2>1, InitKeeps DEF BudgetHolds
<1>2. CollabInv /\ BudgetHolds /\ [CollabNext]_collabVars => (CollabInv /\ BudgetHolds)'
  BY NextKeeps, BudgetStep
<1>3. CollabInv /\ BudgetHolds => BudgetKept
  BY InvHasTypes DEF BudgetKept
<1> QED
  BY <1>1, <1>2, <1>3, PTL DEF CollabSpec

-----------------------------------------------------------------------------
(* The receipts.                                                              *)

\* What a receipt says of the queue, and of the members of its root.
ReceiptRight(r, x) ==
  /\ posts[x.msg].root = r /\ posts[x.msg].from = x.post /\ posts[x.msg].tab = x.to
  /\ x.rid # 0 => IsMember(roots[r], x.to)

\* A message with a sender stays where it is.
MessagesStay ==
  \A p \in Ids : posts[p].from # 0 =>
    posts'[p].from = posts[p].from /\ posts'[p].tab = posts[p].tab /\ posts'[p].root = posts[p].root

LEMMA ReceiptTyped ==
    ASSUME CollabInv, NEW r \in RootIds, NEW x \in roots[r].receipts
    PROVE  x \in ReceiptT /\ x.post # 0 /\ x.msg \in Ids
<1>1. roots[r] \in RootT
  BY DEF CollabInv, Typed
<1> QED
  BY <1>1 DEF RootT, ReceiptT, Ids

LEMMA ReceiptStays ==
    ASSUME CollabInv, MessagesStay, NEW r \in RootIds, NEW x \in ReceiptT, ReceiptRight(r, x),
           \A u : IsMember(roots[r], u) => IsMember(roots'[r], u)
    PROVE  ReceiptRight(r, x)'
BY DEF MessagesStay, ReceiptRight, ReceiptT, Ids

\* A request that is about to record and stays, of a root that gets no receipt.
LEMMA RecordStays ==
    ASSUME CollabInv, MessagesStay, NEW c \in Procs, RecordRight(c),
           procs'[c].pc = "record" => procs'[c] = procs[c],
           procs'[c].pc = "record" => roots'[procs[c].root].receipts = roots[procs[c].root].receipts,
           \A d \in Procs : procs'[d].pc = "record" => procs'[d] = procs[d]
    PROVE  RecordRight(c)'
<1>1. procs[c].pc = "record" => procs[c].post # 0
  BY DEF CollabInv, Typed, ProcTyped, PostingPcs, Ids
<1> QED
  BY <1>1 DEF RecordRight, MessagesStay

\* A step that writes no receipt and delivers nothing.
LEMMA QuietKeepsReceipts ==
    ASSUME CollabInv, ReceiptsInv, MessagesStay,
           \A r \in RootIds : /\ roots'[r].receipts = roots[r].receipts
                              /\ \A u : IsMember(roots[r], u) => IsMember(roots'[r], u),
           \A d \in Procs : procs'[d].pc = "record" => procs'[d] = procs[d]
    PROVE  ReceiptsInv'
<1>1. ASSUME NEW r \in RootIds, NEW x \in roots'[r].receipts PROVE ReceiptRight(r, x)'
  <2>1. x \in roots[r].receipts /\ ReceiptRight(r, x)
    BY <1>1 DEF ReceiptsInv, ReceiptTellsTruth, ReceiptRight
  <2> QED
    BY <2>1, ReceiptTyped, ReceiptStays
<1>2. ASSUME NEW r \in RootIds, NEW x \in roots'[r].receipts, NEW y \in roots'[r].receipts,
             y.msg = x.msg
      PROVE  y = x
  BY <1>2 DEF ReceiptsInv, ReceiptTellsTruth
<1>3. ASSUME NEW c \in Procs PROVE RecordRight(c)'
  <2>1. procs[c].pc = "record" => procs[c].root \in RootIds
    BY RequestTyped
  <2>2. procs'[c].pc = "record" => roots'[procs[c].root].receipts = roots[procs[c].root].receipts
    BY <2>1
  <2>3. RecordRight(c)
    BY DEF ReceiptsInv
  <2> QED
    BY <2>2, <2>3, RecordStays
<1> QED
  BY <1>1, <1>2, <1>3 DEF ReceiptsInv, ReceiptTellsTruth, ReceiptRight

LEMMA AsideKeepsReceipts == ASSUME CollabInv, ReceiptsInv, Aside PROVE ReceiptsInv'
<1>1. MessagesStay
  BY DEF Aside, PostsAside, MessagesStay
<1>2. \A r \in RootIds : /\ roots'[r].receipts = roots[r].receipts
                         /\ \A u : IsMember(roots[r], u) => IsMember(roots'[r], u)
  BY DEF Aside, RootsAside
<1>3. \A d \in Procs : procs'[d].pc = "record" => procs'[d] = procs[d]
  BY DEF Aside, ProcsAside, Counts
<1> QED
  BY <1>1, <1>2, <1>3, QuietKeepsReceipts

LEMMA BeginKeepsReceipts == ASSUME CollabInv, ReceiptsInv, BeginsOne PROVE ReceiptsInv'
<1>1. PICK b \in RootIds :
        /\ roots[b].status = "none" /\ roots'[b] = Begun
        /\ \A s \in RootIds \ {b} : roots'[s] = roots[s]
        /\ posts' = posts /\ ProcsAside
  BY DEF BeginsOne
<1>2. roots[b] = NoRoot
  BY <1>1 DEF CollabInv, Lives
<1>3. MessagesStay
  BY <1>1 DEF MessagesStay
<1>4. \A d \in Procs : procs'[d].pc = "record" => procs'[d] = procs[d]
  BY <1>1 DEF ProcsAside, Counts
<1>5. roots'[b].receipts = roots[b].receipts /\ \A u : ~ IsMember(roots[b], u)
  BY <1>1, <1>2, BeginsTyped DEF NoRoot, IsMember
<1>6. \A r \in RootIds : /\ roots'[r].receipts = roots[r].receipts
                         /\ \A u : IsMember(roots[r], u) => IsMember(roots'[r], u)
  BY <1>1, <1>5
<1> QED
  BY <1>3, <1>4, <1>6, QuietKeepsReceipts

LEMMA TakeKeepsReceipts ==
    ASSUME CollabInv, ReceiptsInv, NEW c \in Procs, Takes(c)
    PROVE  ReceiptsInv'
<1>0. PICK b : b = procs[c].root
  OBVIOUS
<1> DEFINE rec == [procs[c] EXCEPT !.pc = "deliver"]
<1>1. /\ procs[c].pc = "reserve" /\ Step(c, rec)
      /\ WriteRoot(b, [roots[b] EXCEPT !.used = @ + 1])
      /\ UNCHANGED posts
  BY <1>0 DEF Takes, Reserve
<1>2. /\ b \in RootIds /\ roots[b] \in RootT
      /\ procs[c] \in ProcT(procs[c].found) /\ roots \in [RootIds -> RootT]
  BY <1>0, <1>1, RequestTyped DEF PostingPcs, ProcTyped, CollabInv, Typed
<1>3. rec.pc = "deliver"
  BY <1>2 DEF ProcT
<1> HIDE DEF rec
<1>4. \A d \in Procs : procs'[d].pc = "record" => procs'[d] = procs[d]
  BY <1>1, <1>3, StepsOne
<1>5. \A r \in RootIds : roots'[r].receipts = roots[r].receipts /\ roots'[r].members = roots[r].members
  BY <1>1, <1>2 DEF WriteRoot, RootT
<1> QED
  BY <1>1, <1>4, <1>5, QuietKeepsReceipts DEF MessagesStay, IsMember

LEMMA RefundKeepsReceipts ==
    ASSUME CollabInv, ReceiptsInv, NEW c \in Procs, Refund(c)
    PROVE  ReceiptsInv'
<1>1. procs[c].pc = "refund" /\ roots' = Refunded(c) /\ Step(c, NoProc) /\ UNCHANGED posts
  BY DEF Refund, Done
<1>2. /\ procs[c].root \in RootIds /\ roots[procs[c].root] \in RootT
      /\ roots \in [RootIds -> RootT]
  BY <1>1, RequestTyped DEF PostingPcs, CollabInv, Typed
<1>3. \A d \in Procs : procs'[d].pc = "record" => procs'[d] = procs[d]
  BY <1>1, StepsOne, NoProcTyped
<1>4. \A r \in RootIds : roots'[r].receipts = roots[r].receipts /\ roots'[r].members = roots[r].members
  BY <1>1, <1>2 DEF Refunded, RootT
<1> QED
  BY <1>1, <1>3, <1>4, QuietKeepsReceipts DEF MessagesStay, IsMember

LEMMA RestartKeepsReceipts == ASSUME CollabInv, ReceiptsInv, Restart PROVE ReceiptsInv'
<1>1. roots' = roots /\ \A c \in Procs : procs'[c] = NoProc
  BY DEF Restart
<1>2. MessagesStay
  <2>1. posts \in [Ids -> PostT]
    BY DEF CollabInv, Typed
  <2> QED
    BY <2>1 DEF Restart, MessagesStay, PostT
<1> QED
  BY <1>1, <1>2, NoProcTyped, QuietKeepsReceipts

\* A message that is delivered is new: no receipt names it, and no other request.
LEMMA DeliverKeepsReceipts ==
    ASSUME CollabInv, ReceiptsInv, NEW c \in Procs, Deliver(c)
    PROVE  ReceiptsInv'
<1>0. PICK x : x = procs[c]
  OBVIOUS
<1>1. x.pc = "deliver" /\ UNCHANGED roots
  BY <1>0 DEF Deliver
<1>2. /\ x.root \in RootIds /\ x \in ProcT(x.found) /\ x.post \in Ids
      /\ posts \in [Ids -> PostT]
  BY <1>0, <1>1, RequestTyped DEF PostingPcs, ProcTyped, CollabInv, Typed
<1>3. CASE Step(c, [x EXCEPT !.pc = "refund"]) /\ UNCHANGED posts
  <2>1. [x EXCEPT !.pc = "refund"].pc = "refund"
    BY <1>2 DEF ProcT
  <2>2. \A d \in Procs : procs'[d].pc = "record" => procs'[d] = procs[d]
    BY <1>3, <2>1, StepsOne
  <2> QED
    BY <1>1, <1>3, <2>2, QuietKeepsReceipts DEF MessagesStay
<1>4. ASSUME NEW p \in Ids \ {1}, posts[p].status = "unused",
             posts' = [posts EXCEPT ![p] =
               [NoPost EXCEPT !.tab = x.to, !.status = "pending", !.root = x.root,
                  !.depth = x.depth, !.from = x.post, !.thread = thread[x.to]]],
             Step(c, [x EXCEPT !.pc = "record", !.found = <<p>>])
      PROVE  ReceiptsInv'
  <2> DEFINE rec == [x EXCEPT !.pc = "record", !.found = <<p>>]
  <2>1. /\ rec.pc = "record" /\ rec.found[1] = p /\ rec.root = x.root /\ rec.post = x.post
        /\ rec.to = x.to
    BY <1>2 DEF ProcT
  <2>2. procs'[c] = rec /\ \A d \in Procs \ {c} : procs'[d] = procs[d]
    BY <1>4, StepsOne
  <2> HIDE DEF rec
  <2>3. posts[p].from = 0
    BY <1>4 DEF CollabInv, Lives, NoPost
  <2>4. /\ posts'[p].root = x.root /\ posts'[p].from = x.post /\ posts'[p].tab = x.to
        /\ \A q \in Ids \ {p} : posts'[q] = posts[q]
    BY <1>2, <1>4 DEF NoPost
  <2>5. MessagesStay
    BY <2>3, <2>4 DEF MessagesStay
  <2>6. ASSUME NEW r \in RootIds, NEW y \in roots[r].receipts PROVE y.msg # p /\ ReceiptRight(r, y)
    BY <2>3, ReceiptTyped DEF ReceiptsInv, ReceiptTellsTruth, ReceiptRight
  <2>7. ASSUME NEW d \in Procs, procs[d].pc = "record" PROVE procs[d].found[1] # p
    <3>1. RecordRight(d) /\ procs[d].post # 0
      BY <2>7 DEF ReceiptsInv, CollabInv, Typed, ProcTyped, PostingPcs, Ids
    <3> QED
      BY <2>3, <2>7, <3>1 DEF RecordRight
  <2>8. ReceiptTellsTruth'
    <3>1. ASSUME NEW r \in RootIds, NEW y \in roots[r].receipts PROVE ReceiptRight(r, y)'
      BY <1>1, <2>5, <2>6, ReceiptTyped, ReceiptStays
    <3> QED
      BY <1>1, <3>1 DEF ReceiptTellsTruth, ReceiptRight, ReceiptsInv
  <2>9. RecordRight(c)'
    <3>1. \A y \in roots'[x.root].receipts : y.msg # p
      BY <1>1, <1>2, <2>6
    <3>2. \A d \in Procs \ {c} : procs'[d].pc = "record" => procs'[d].found[1] # p
      BY <2>2, <2>7
    <3> QED
      BY <2>1, <2>2, <2>4, <3>1, <3>2 DEF RecordRight
  <2>10. ASSUME NEW d \in Procs \ {c} PROVE RecordRight(d)'
    <3>1. procs[d].pc = "record" => procs[d].post # 0 /\ procs[d].found[1] # p
      BY <2>7 DEF CollabInv, Typed, ProcTyped, PostingPcs, Ids
    <3>2. RecordRight(d)
      BY DEF ReceiptsInv
    <3>3. \A f \in Procs \ {d} : procs'[d].pc = "record" /\ procs'[f].pc = "record"
                                   => procs'[f].found[1] # procs[d].found[1]
      BY <2>1, <2>2, <3>1, <3>2 DEF RecordRight
    <3> QED
      BY <1>1, <2>2, <2>5, <3>1, <3>2, <3>3 DEF RecordRight, MessagesStay
  <2> QED
    BY <2>8, <2>9, <2>10 DEF ReceiptsInv
<1> QED
  BY <1>0, <1>3, <1>4 DEF Deliver

\* The receipt that is written names the message that was delivered for it.
LEMMA RecordKeepsReceipts ==
    ASSUME CollabInv, ReceiptsInv, NEW c \in Procs, Record(c)
    PROVE  ReceiptsInv'
<1>0. PICK x, b, z : x = procs[c] /\ b = x.root /\ z = Receipt(c, x.found[1])
  OBVIOUS
<1>1. /\ x.pc = "record" /\ WriteRoot(b, Posted(c)) /\ Step(c, NoProc)
      /\ UNCHANGED posts
  BY <1>0 DEF Record, Done
<1>2. b \in RootIds /\ x.found[1] \in Ids /\ Typed /\ roots \in [RootIds -> RootT]
  BY <1>0, <1>1, RequestTyped DEF PostingPcs, ProcTyped, CollabInv, Typed
<1>3. /\ roots'[b] = Posted(c)
      /\ \A r \in RootIds \ {b} : roots'[r] = roots[r]
  BY <1>1, <1>2 DEF WriteRoot
<1>4. /\ roots'[b].receipts = {y \in roots[b].receipts : ~ SameKey(y, z)} \cup {z}
      /\ z \in ReceiptT
      /\ \A u : IsMember(roots[b], u) => IsMember(roots'[b], u)
      /\ z.rid # 0 => IsMember(roots'[b], z.to)
  <2>1. z.rid = x.rid /\ z.to = x.to
    BY <1>0 DEF Receipt
  <2> QED
    <3>1. procs[c].pc = "record" /\ procs[c].root \in RootIds /\ procs[c].found[1] \in Ids
      BY <1>0, <1>1, <1>2
    <3>2. LET y == procs[c]
              v == Posted(c)
              w == Receipt(c, y.found[1])
          IN  /\ v.receipts = {u \in roots[y.root].receipts : ~ SameKey(u, w)} \cup {w}
              /\ w \in ReceiptT
              /\ \A u : IsMember(roots[y.root], u) => IsMember(v, u)
              /\ y.rid # 0 => IsMember(v, y.to)
      BY <1>2, <3>1, PostedRoot
    <3> QED
      BY <1>0, <1>3, <2>1, <3>2
<1>5. z.msg = x.found[1] /\ z.post = x.post /\ z.to = x.to
  BY <1>0 DEF Receipt
<1>6. RecordRight(c)
  BY DEF ReceiptsInv
<1>7. MessagesStay
  BY <1>1 DEF MessagesStay
<1>8. ReceiptRight(b, z)'
  BY <1>0, <1>1, <1>4, <1>5, <1>6 DEF RecordRight, ReceiptRight
<1>9. \A y \in roots[b].receipts : y.msg # z.msg
  BY <1>0, <1>1, <1>5, <1>6 DEF RecordRight
<1>10. ASSUME NEW r \in RootIds, NEW y \in roots'[r].receipts PROVE ReceiptRight(r, y)'
  <2>1. CASE r = b /\ y = z
    BY <1>8, <2>1
  <2>2. CASE ~ (r = b /\ y = z)
    <3>1. y \in roots[r].receipts
      BY <1>3, <1>4, <1>10, <2>2
    <3>2. ReceiptRight(r, y) /\ y \in ReceiptT
      BY <3>1, ReceiptTyped DEF ReceiptsInv, ReceiptTellsTruth, ReceiptRight
    <3>3. \A u : IsMember(roots[r], u) => IsMember(roots'[r], u)
      BY <1>3, <1>4
    <3> QED
      BY <1>7, <3>2, <3>3, ReceiptStays
  <2> QED
    BY <2>1, <2>2
<1>11. ASSUME NEW r \in RootIds, NEW y \in roots'[r].receipts, NEW w \in roots'[r].receipts,
              w.msg = y.msg
       PROVE  w = y
  <2>1. ASSUME NEW s \in RootIds, NEW u \in roots[s].receipts, NEW v \in roots[s].receipts,
               v.msg = u.msg
        PROVE  v = u
    BY <2>1 DEF ReceiptsInv, ReceiptTellsTruth
  <2>2. CASE r = b
    BY <1>4, <1>9, <1>11, <2>1, <2>2
  <2>3. CASE r # b
    BY <1>3, <1>11, <2>1, <2>3
  <2> QED
    BY <2>2, <2>3
<1>12. procs'[c] = NoProc /\ \A d \in Procs \ {c} : procs'[d] = procs[d]
  BY <1>1, StepsOne
<1>13. ASSUME NEW d \in Procs PROVE RecordRight(d)'
  <2>1. CASE d = c
    BY <1>12, <2>1, NoProcTyped DEF RecordRight
  <2>2. CASE d # c
    <3>1. RecordRight(d)
      BY DEF ReceiptsInv
    <3>2. procs[d].pc = "record" => procs[d].found[1] # z.msg
      BY <1>0, <1>1, <1>5, <1>6, <2>2 DEF RecordRight
    <3>3. procs[d].pc = "record" => procs[d].root \in RootIds
      BY RequestTyped
    <3>4. procs[d].pc = "record" =>
            \A y \in roots'[procs[d].root].receipts : y.msg # procs[d].found[1]
      BY <1>3, <1>4, <3>1, <3>2, <3>3 DEF RecordRight
    <3>5. \A f \in Procs : procs'[f].pc = "record" => procs'[f] = procs[f]
      BY <1>12, NoProcTyped
    <3>6. procs'[d] = procs[d]
      BY <1>12, <2>2
    <3> QED
      BY <1>1, <3>1, <3>4, <3>5, <3>6 DEF RecordRight
  <2> QED
    BY <2>1, <2>2
<1> QED
  BY <1>10, <1>11, <1>13 DEF ReceiptsInv, ReceiptTellsTruth, ReceiptRight

LEMMA ReceiptsStep == ASSUME CollabInv, ReceiptsInv, Effects PROVE ReceiptsInv'
BY AsideKeepsReceipts, BeginKeepsReceipts, TakeKeepsReceipts, DeliverKeepsReceipts,
   RecordKeepsReceipts, RefundKeepsReceipts, RestartKeepsReceipts DEF Effects

\* A receipt names a message of its root, from its turn and in the queue of its target, and
\* no two name the same one, however many requests record at once (recordReceipt).
THEOREM ReceiptsTellTruth == ASSUME ~ Rolling PROVE CollabSpec => []ReceiptTellsTruth
<1>1. CollabInit => CollabInv /\ ReceiptsInv
  <2> SUFFICES ASSUME CollabInit PROVE CollabInv /\ ReceiptsInv
    OBVIOUS
  <2>1. \A r \in RootIds : roots[r].receipts = {}
    BY DEF CollabInit, NoRoot
  <2>2. \A c \in Procs : procs[c].pc = "idle"
    BY DEF CollabInit, NoProc
  <2> QED
    BY <2>1, <2>2, InitKeeps DEF ReceiptsInv, ReceiptTellsTruth, RecordRight
<1>2. CollabInv /\ ReceiptsInv /\ [CollabNext]_collabVars => (CollabInv /\ ReceiptsInv)'
  BY NextKeeps, ReceiptsStep
<1>3. ReceiptsInv => ReceiptTellsTruth
  BY DEF ReceiptsInv
<1> QED
  BY <1>1, <1>2, <1>3, PTL DEF CollabSpec

-----------------------------------------------------------------------------
(* The promise: every step of a collaboration is a step of its promise or none. *)

Stage == [r \in RootIds |-> roots[r].status]
Taken == [r \in RootIds |-> roots[r].used]

\* What one root does is all that happens.
LEMMA OneMoves ==
    ASSUME NEW b \in RootIds, \A r \in RootIds \ {b} : roots'[r] = roots[r]
    PROVE  /\ Stage' = [Stage EXCEPT ![b] = roots'[b].status] /\ Stage[b] = roots[b].status
           /\ Taken' = [Taken EXCEPT ![b] = roots'[b].used] /\ Taken[b] = roots[b].used
           /\ roots'[b].status = roots[b].status => Stage' = Stage
           /\ roots'[b].used = roots[b].used => Taken' = Taken
BY DEF Stage, Taken

LEMMA AsideIsPromised ==
    ASSUME CollabInv, Aside
    PROVE  Promise!PromiseNext \/ (Stage' = Stage /\ Taken' = Taken)
<1>1. PICK b \in RootIds :
        /\ \A s \in RootIds \ {b} : roots'[s] = roots[s]
        /\ roots'[b].used = roots[b].used
        /\ StatusStep(roots[b].status, roots'[b].status)
  BY DEF Aside, RootsAside
<1>2. /\ Stage' = [Stage EXCEPT ![b] = roots'[b].status] /\ Stage[b] = roots[b].status
      /\ Taken' = Taken /\ (roots'[b].status = roots[b].status => Stage' = Stage)
  BY <1>1, OneMoves
<1>3. CASE roots'[b].status = roots[b].status
  BY <1>2, <1>3
<1>4. CASE roots[b].status = "pending" /\ roots'[b].status = "running"
  <2>1. Promise!Start(b)
    BY <1>2, <1>4 DEF Promise!Start, Promise!Move, Stage, Taken
  <2> QED
    BY <2>1 DEF Promise!PromiseNext
<1>5. CASE roots[b].status \in {"pending", "running"} /\ roots'[b].status = "ending"
  <2>1. Promise!AskEnd(b)
    BY <1>2, <1>5 DEF Promise!AskEnd, Promise!Move, Stage, Taken
  <2> QED
    BY <2>1 DEF Promise!PromiseNext
<1>6. CASE roots[b].status = "ending" /\ roots'[b].status = "running"
  <2>1. Promise!TakeBack(b)
    BY <1>2, <1>6 DEF Promise!TakeBack, Promise!Move, Stage, Taken
  <2> QED
    BY <2>1 DEF Promise!PromiseNext
<1>7. CASE roots[b].status \in {"pending", "running", "ending"} /\ roots'[b].status \in Ended
  <2>1. Promise!End(b)
    BY <1>2, <1>7 DEF Promise!End, Promise!Move, Stage, Taken, Ended
  <2> QED
    BY <2>1 DEF Promise!PromiseNext
<1> QED
  BY <1>1, <1>3, <1>4, <1>5, <1>6, <1>7 DEF StatusStep

LEMMA BeginIsPromised == ASSUME CollabInv, BeginsOne PROVE Promise!PromiseNext
<1>1. PICK b \in RootIds :
        /\ roots[b].status = "none" /\ roots'[b] = Begun
        /\ \A s \in RootIds \ {b} : roots'[s] = roots[s]
  BY DEF BeginsOne
<1>2. roots[b].used = 0
  BY <1>1 DEF CollabInv, Lives, NoRoot
<1>3. /\ Stage' = [Stage EXCEPT ![b] = "pending"] /\ Stage[b] = "none"
      /\ Taken' = [Taken EXCEPT ![b] = Taken[b] + 1]
  BY <1>1, <1>2, OneMoves, BeginsTyped
<1>4. Promise!Begin(b)
  BY <1>3 DEF Promise!Begin, Promise!Move, Promise!Pay, Stage, Taken
<1> QED
  BY <1>4 DEF Promise!PromiseNext

LEMMA TakeIsPromised ==
    ASSUME CollabInv, NEW c \in Procs, Takes(c)
    PROVE  Promise!PromiseNext
<1>0. PICK b : b = procs[c].root
  OBVIOUS
<1>1. /\ procs[c].pc = "reserve" /\ roots[b].used < Messages
      /\ roots[b].status \in {"pending", "running"}
      /\ WriteRoot(b, [roots[b] EXCEPT !.used = @ + 1])
  BY <1>0 DEF Takes, Reserve, Reservable, AcceptsWork
<1>2. b \in RootIds /\ roots[b] \in RootT /\ roots \in [RootIds -> RootT]
  BY <1>0, <1>1, RequestTyped DEF PostingPcs, CollabInv, Typed
<1>3. /\ roots'[b].used = roots[b].used + 1 /\ roots'[b].status = roots[b].status
      /\ \A r \in RootIds \ {b} : roots'[r] = roots[r]
  BY <1>1, <1>2 DEF WriteRoot, RootT
<1>4. /\ Stage' = Stage /\ Stage[b] \in {"pending", "running"}
      /\ Taken[b] < Messages /\ Taken' = [Taken EXCEPT ![b] = Taken[b] + 1]
  BY <1>1, <1>2, <1>3, OneMoves
<1>5. Promise!Take(b)
  BY <1>4 DEF Promise!Take, Promise!Pay, Stage, Taken
<1> QED
  BY <1>2, <1>5 DEF Promise!PromiseNext

LEMMA RefundIsPromised ==
    ASSUME CollabInv, BudgetHolds, NEW c \in Procs, Refund(c)
    PROVE  Promise!PromiseNext
<1>1. PICK b \in RootIds :
        /\ roots[b].status # "none" /\ roots[b].used > 1
        /\ roots'[b] = [roots[b] EXCEPT !.used = @ - 1]
        /\ \A r \in RootIds \ {b} : roots'[r] = roots[r]
  BY RefundKeepsBudget
<1>2. roots[b] \in RootT /\ roots[b].used \in Nat
  BY DEF CollabInv, Typed, RootT
<1>3. roots'[b].used = roots[b].used + (-1) /\ roots'[b].status = roots[b].status
  BY <1>1, <1>2 DEF RootT
<1>4. /\ Stage' = Stage /\ Stage[b] # "none" /\ Taken[b] > 1
      /\ Taken' = [Taken EXCEPT ![b] = Taken[b] + (-1)]
  BY <1>1, <1>3, OneMoves
<1>5. Promise!PayBack(b)
  BY <1>4 DEF Promise!PayBack, Promise!Pay, Stage, Taken
<1> QED
  BY <1>5 DEF Promise!PromiseNext

LEMMA StepIsPromised ==
    ASSUME CollabInv, BudgetHolds, Effects
    PROVE  Promise!PromiseNext \/ (Stage' = Stage /\ Taken' = Taken)
<1>1. ASSUME NEW c \in Procs, Deliver(c) PROVE Stage' = Stage /\ Taken' = Taken
  BY <1>1 DEF Deliver, Stage, Taken
<1>2. ASSUME NEW c \in Procs, Record(c) PROVE Stage' = Stage /\ Taken' = Taken
  BY <1>2, RecordKeepsBudget DEF Stage, Taken
<1>3. CASE Restart
  BY <1>3 DEF Restart, Stage, Taken
<1> QED
  BY <1>1, <1>2, <1>3, AsideIsPromised, BeginIsPromised, TakeIsPromised, RefundIsPromised DEF Effects

\* Collaborations implement their promise: each begins once, takes no message beyond its
\* limit or after its end was asked for, pays back only what was taken, and an end is
\* settled once (a2a-service.ts under the lock of the root).
THEOREM PromiseIsKept == ASSUME ~ Rolling PROVE CollabSpec => PromiseKept
<1>1. CollabInit => CollabInv /\ BudgetHolds
  <2> SUFFICES ASSUME CollabInit PROVE CollabInv /\ BudgetHolds
    OBVIOUS
  <2>1. \A r \in RootIds : roots[r].status = "none"
    BY DEF CollabInit, NoRoot
  <2> QED
    BY <2>1, InitKeeps DEF BudgetHolds
<1>2. CollabInv /\ BudgetHolds /\ [CollabNext]_collabVars => (CollabInv /\ BudgetHolds)'
  BY NextKeeps, BudgetStep
<1>3. CollabInit => Promise!PromiseInit
  BY DEF CollabInit, Promise!PromiseInit, NoRoot
<1>4. CollabInv /\ BudgetHolds /\ [CollabNext]_collabVars
        => [Promise!PromiseNext]_(Promise!promiseVars)
  <2> SUFFICES ASSUME CollabInv, BudgetHolds, [CollabNext]_collabVars
               PROVE  Promise!PromiseNext \/ Promise!promiseVars' = Promise!promiseVars
    OBVIOUS
  <2>1. Promise!PromiseNext \/ (Stage' = Stage /\ Taken' = Taken)
    BY NextKeeps, StepIsPromised
  <2>2. Stage' = Stage /\ Taken' = Taken => Promise!promiseVars' = Promise!promiseVars
    BY DEF Promise!promiseVars, Stage, Taken
  <2> QED
    BY <2>1, <2>2
<1> QED
  BY <1>1, <1>2, <1>3, <1>4, PTL DEF CollabSpec, PromiseKept, Promise!PromiseSpec


-----------------------------------------------------------------------------
\* The timers of a conversation.

Whens     == (1..MaxTime) \cup Keys
ThreadT   == Threads \cup {0, 1}
TimerT    == [on : BOOLEAN, next : {None} \cup (Nat \ {0}), schedule : Schedules \cup {NoSchedule},
              thread : ThreadT, last : {"none", "queued", "blocked", "coalesced"},
              lastAt : Whens \cup {0}, stale : BOOLEAN]
FileT     == [rev : Nat, timers : [Timers -> TimerT]]
FilingT   == [status : {"none", "pending", "running", "completed", "failed", "interrupted", "deleted"},
              auto : BOOLEAN, thread : ThreadT]
LockT     == [who : {"free", "trigger", "run"}, next : FileT \cup {NoFile}, batch : SUBSET Filings]

\* A timer that is on has a next moment, and what a file says was queued is in the queue q:
\* in the file on the disk, in memory, and on its way between the two.
Scheduled(file) == \A t \in Timers : file.timers[t].on => file.timers[t].next # None
TellsTruth(file, q) ==
  \A t \in Timers : file.timers[t].last = "queued" =>
    /\ file.timers[t].lastAt \in Whens
    /\ \A p \in Batch(t, file.timers[t].lastAt) : q[p].status # "none"
GoodFile(file, q) == file = NoFile \/ (file \in FileT /\ Scheduled(file) /\ TellsTruth(file, q))

FlagsWait(q) == \A p \in Filings : q[p].auto => q[p].status = "pending"
\* A batch is in the queue as a whole or not at all, since one write files it.
BatchesWhole(q) ==
  \A t \in Timers, when \in Whens : \A p, r \in Batch(t, when) :
    q[p].status # "none" => q[r].status # "none"
GoodQueue(q) == q \in [Filings -> FilingT] /\ FlagsWait(q) /\ BatchesWhole(q)

FilesGood ==
  /\ GoodFile(timerFile, queue) /\ GoodFile(copy, queue)
  /\ GoodFile(reading, queue) /\ GoodFile(section.next, queue)

ServiceTyped ==
  /\ session \in [ready : BOOLEAN, thread : ThreadT]
  /\ section \in LockT
  /\ section # Unlocked => section.next \in FileT /\ timerFile \in FileT /\ section.who # "free"
  /\ detaching \in BOOLEAN /\ checking \in BOOLEAN /\ armed \in BOOLEAN /\ recover \in BOOLEAN
  /\ stage \in {"off", "read", "done"} /\ (stage = "read" => reading # NoFile)
  /\ dueList \in Seq(Timers \X (1..MaxTime))
  /\ dueList # <<>> => checking
  /\ section.who = "trigger" => dueList # <<>>
  /\ oneshot \subseteq Filings
  /\ clock \in 0..MaxTime

TimerInv == FilesGood /\ GoodQueue(queue) /\ ServiceTyped

\* Without the reads that race with writes: what is in memory, or on its way there, has the
\* timers on that the file has on.
SameOn(f, g) == \A t \in Timers : f.timers[t].on <=> g.timers[t].on
ReadingsAgree ==
  /\ armed \/ checking => stage # "off"
  /\ section.who = "trigger" => reading = NoFile
  /\ reading # NoFile => timerFile # NoFile /\ SameOn(reading, timerFile)
  /\ section.who = "run" => SameOn(section.next, timerFile)
  /\ section = Unlocked /\ copy # NoFile /\ timerFile # NoFile => SameOn(copy, timerFile)

\* Before the first write there are no timers and no prompts of timers; a service that
\* has started and has no copy has nothing to copy.
Fresh == timerFile # NoFile /\ timerFile.rev = 0
FirstWrite ==
  /\ Fresh => /\ \A t \in Timers : timerFile.timers[t] = NoTimer
              /\ \A p \in Filings : queue[p].status = "none"
              /\ hold = {} /\ section = Unlocked
  /\ section # Unlocked => section.next.rev # 0
  /\ stage = "done" /\ timerFile # NoFile /\ copy = NoFile => Fresh

HoldExact == stage = "done" /\ timerFile # NoFile => hold = Held(queue)

HoldInv == ReadingsAgree /\ FirstWrite /\ HoldExact

-----------------------------------------------------------------------------
\* The next moment of a schedule is none, or one that has not come yet.

LEMMA EstimateIsLater ==
  ASSUME NEW elapsed \in Int, NEW every \in Nat \ {0}
  PROVE  /\ Estimate(elapsed, every) \in Nat
         /\ Estimate(elapsed, every) * every > elapsed
         /\ Estimate(elapsed, every) = 0 \/ (Estimate(elapsed, every) - 1) * every <= elapsed
PROOF
<1>1. CASE elapsed < 0
  BY <1>1, SMT DEF Estimate
<1>2. CASE elapsed >= 0
  <2> DEFINE d == elapsed \div every
  <2>1. /\ d \in Nat
        /\ every * d <= elapsed /\ elapsed < every * (d + 1)
    BY <1>2, SMT
  <2>2. Estimate(elapsed, every) = d + 1
    BY <1>2 DEF Estimate
  <2> HIDE DEF d
  <2>3. QED  BY <2>1, <2>2, SMT
<1>3. QED  BY <1>1, <1>2

LEMMA NextIntervalIsLater ==
  ASSUME NEW anchor \in Nat, NEW every \in Nat \ {0}, NEW end \in Nat \cup {Never}, NEW now \in Nat
  PROVE  LET run == NextInterval("plain", 0, 0, anchor, every, end, now)
         IN  run = Never \/ (run \in Nat /\ run > now)
PROOF
<1> DEFINE At(i) == Moment("plain", 0, 0, anchor + i * every)
           from  == Estimate(now - At(0), every)
           IsForward(i) == At(i) > now /\ \A k \in from..(i-1) : At(k) <= now
           forward == CHOOSE i \in from..(from + 2 * 0 + 1) : IsForward(i)
           IsBack(j) == (\A k \in j..(forward-1) : At(k) > now) /\ (j = 0 \/ At(j-1) <= now)
           back == CHOOSE j \in 0..forward : IsBack(j)
<1>0. \A i : At(i) = anchor + i * every
  BY DEF Moment
<1>6. NextInterval("plain", 0, 0, anchor, every, end, now)
        = IF end # Never /\ At(back) > end THEN Never ELSE At(back)
  BY Zenon DEF NextInterval
<1> HIDE DEF At
<1>1. /\ from \in Nat /\ At(from) \in Int /\ At(from) > now
      /\ from = 0 \/ At(from - 1) <= now
  <2>1. now - anchor \in Int  OBVIOUS
  <2>2. /\ from \in Nat /\ from * every > now - anchor
        /\ from = 0 \/ (from - 1) * every <= now - anchor
    <3>1. At(0) = anchor  BY <1>0
    <3>2. QED  BY <2>1, <3>1, EstimateIsLater
  <2> HIDE DEF from
  <2>3. from * every \in Int /\ (from - 1) * every \in Int
    BY <2>2, SMT
  <2>4. QED  BY <1>0, <2>2, <2>3, SMT
<1> HIDE DEF from
<1>2. forward \in from..(from + 1) /\ IsForward(forward)
  <2>1. from \in from..(from + 1) /\ IsForward(from)
    BY <1>1, SMT
  <2>2. QED  BY <2>1
<1> HIDE DEF forward
<1>3. forward = from
  <2>0. forward \in from..(from + 1)  BY <1>2
  <2>1. SUFFICES ASSUME forward = from + 1 PROVE FALSE
    BY <1>1, <2>0, SMT
  <2>2. from \in from..(forward - 1)
    BY <2>1, <1>1, SMT
  <2>3. At(from) <= now  BY <2>2, <1>2, Zenon
  <2>4. QED  BY <2>3, <1>1, SMT
<1>4. back \in 0..forward /\ IsBack(back)
  <2>1. forward \in 0..forward /\ IsBack(forward)
    <3>1. forward \in 0..forward  BY <1>1, <1>3, SMT
    <3>2. forward..(forward - 1) = {}  BY <1>1, <1>3, SMT
    <3>3. forward = 0 \/ At(forward - 1) <= now  BY <1>1, <1>3, Zenon
    <3>4. QED  BY <3>1, <3>2, <3>3, Zenon
  <2>2. QED  BY <2>1, Zenon
<1> HIDE DEF back
<1>5. At(back) \in Nat /\ At(back) > now
  <2>1. back \in Nat /\ At(back) \in Nat
    BY <1>0, <1>4, <1>1, <1>3, SMT
  <2>2. CASE back = forward
    BY <2>1, <2>2, <1>3, <1>1
  <2>3. CASE back # forward
    <3>1. back \in back..(forward - 1)
      BY <2>3, <1>4, <1>1, <1>3, SMT
    <3>2. QED  BY <3>1, <1>4, <2>1
  <2>4. QED  BY <2>2, <2>3
<1>7. QED  BY <1>5, <1>6, Zenon

LEMMA NextRunIsLater ==
  ASSUME NEW s \in Schedules \cup {NoSchedule}, NEW now \in Nat
  PROVE  NextRun(s, now) = None \/ (NextRun(s, now) \in Nat /\ NextRun(s, now) > now)
PROOF
<1>1. CASE s = NoSchedule
  BY <1>1, SMT DEF NextRun, NoSchedule, Never, None
<1>2. CASE s \in [kind : {"once"}, at : Nat]
  BY <1>2, SMT DEF NextRun, Never, None
<1>3. CASE s \in [kind : {"interval"}, anchor : Nat, every : Nat \ {0}, end : Nat \cup {Never}]
  <2>1. NextRun(s, now) = NextInterval("plain", 0, 0, s.anchor, s.every, s.end, now)
    BY <1>3 DEF NextRun
  <2>2. QED  BY <1>3, <2>1, NextIntervalIsLater DEF Never, None
<1>4. QED  BY <1>1, <1>2, <1>3, TimerAssumption DEF ScheduleT

-----------------------------------------------------------------------------
\* What the steps write.

\* A rewritten queue that files nothing: what is there stays there, what is not stays away,
\* and what has run does not wait again.
Ran(status) == status \notin {"none", "pending", "deleted"}
Monotone(q, r) == \A p \in Filings : q[p].status # "none" => r[p].status # "none"
Onward(q, r) ==
  \A p \in Filings : /\ q[p].status = "none" <=> r[p].status = "none"
                     /\ Ran(q[p].status) => r[p].status \notin {"none", "pending"}

LEMMA BatchIsOfFilings ==
  ASSUME NEW t \in Timers, NEW when \in Whens
  PROVE  Batch(t, when) \subseteq Filings
PROOF
BY SMT DEF Batch, Filings, Whens

LEMMA OnwardKeeps ==
  ASSUME NEW q, NEW r, Onward(q, r)
  PROVE  /\ Monotone(q, r)
         /\ BatchesWhole(q) => BatchesWhole(r)
PROOF
<1>1. Monotone(q, r)  BY DEF Onward, Monotone
<1>2. ASSUME BatchesWhole(q) PROVE BatchesWhole(r)
  BY <1>2, BatchIsOfFilings, Zenon DEF Onward, BatchesWhole
<1>3. QED  BY <1>1, <1>2

LEMMA GoodFileStays ==
  ASSUME NEW file, NEW q, NEW r, GoodFile(file, q), Monotone(q, r)
  PROVE  GoodFile(file, r)
PROOF
<1>1. ASSUME file \in FileT, TellsTruth(file, q) PROVE TellsTruth(file, r)
  BY <1>1, BatchIsOfFilings, Zenon DEF TellsTruth, Monotone
<1>2. QED  BY <1>1, Zenon DEF GoodFile

LEMMA NoFileIsNone ==
  ASSUME NEW file \in FileT
  PROVE  file # NoFile
PROOF
<1>1. file.rev \in Nat  BY DEF FileT
<1>2. NoFile.rev = -1  BY DEF NoFile
<1>3. QED  BY <1>1, <1>2, SMT

LEMMA GoodFileTyped ==
  ASSUME NEW file, NEW q, GoodFile(file, q), file # NoFile
  PROVE  file \in FileT /\ Scheduled(file) /\ TellsTruth(file, q)
PROOF
BY DEF GoodFile

\* A prompt that is filed keeps its batch whole.
LEMMA FiledIsGood ==
  ASSUME GoodQueue(queue), timerFile \in FileT, NEW t \in Timers, NEW when \in Whens
  PROVE  /\ GoodQueue(Filed(t, when)) /\ Monotone(queue, Filed(t, when))
         /\ \A p \in Batch(t, when) : Filed(t, when)[p].status # "none"
         /\ \A p \in Filings : Ran(queue[p].status) => Filed(t, when)[p].status \notin {"none", "pending"}
PROOF
<1> DEFINE q == Filed(t, when)
           new == [status |-> "pending", auto |-> TRUE, thread |-> timerFile.timers[t].thread]
<1>1. new \in FilingT
  BY SMT DEF FileT, TimerT, FilingT
<1>2. q = [p \in Filings |-> IF p \in Batch(t, when) /\ ~ Exists(p) THEN new ELSE queue[p]]
  BY DEF Filed
<1> HIDE DEF new
<1>3. q \in [Filings -> FilingT]
  BY <1>1, <1>2 DEF GoodQueue
<1>4. \A p \in Filings : q[p] = new \/ q[p] = queue[p]
  BY <1>2, Zenon
<1>5. new.status = "pending"
  BY DEF new
<1> HIDE DEF q
<1>6. FlagsWait(q)
  BY <1>4, <1>5, Zenon DEF FlagsWait, GoodQueue
<1>7. Monotone(queue, q)
  BY <1>4, <1>5 DEF Monotone
<1>8. \A p \in Batch(t, when) : q[p].status # "none"
  <2>1. TAKE p \in Batch(t, when)
  <2>2. p \in Filings  BY BatchIsOfFilings
  <2>3. CASE Exists(p)
    BY <2>2, <2>3, <1>2 DEF Exists
  <2>4. CASE ~ Exists(p)
    BY <2>2, <2>4, <1>2, <1>5
  <2>5. QED  BY <2>3, <2>4
<1>9. BatchesWhole(q)
  <2>1. SUFFICES ASSUME NEW u \in Timers, NEW w \in Whens, NEW p \in Batch(u, w), NEW r \in Batch(u, w),
                        q[p].status # "none"
                 PROVE  q[r].status # "none"
    BY Zenon DEF BatchesWhole
  <2>2. p \in Filings /\ r \in Filings  BY BatchIsOfFilings
  <2>3. CASE u = t /\ w = when
    BY <2>3, <1>8
  <2>4. CASE ~ (u = t /\ w = when)
    <3>1. p \notin Batch(t, when) /\ r \notin Batch(t, when)
      BY <2>4, SMT DEF Batch
    <3>2. q[p] = queue[p] /\ q[r] = queue[r]
      BY <3>1, <2>2, <1>2
    <3>3. QED  BY <3>2, <2>1, Zenon DEF GoodQueue, BatchesWhole
  <2>5. QED  BY <2>3, <2>4
<1>10. \A p \in Filings : Ran(queue[p].status) => q[p].status \notin {"none", "pending"}
  <2>1. SUFFICES ASSUME NEW p \in Filings, Ran(queue[p].status)
                 PROVE  q[p].status \notin {"none", "pending"}
    BY DEF Ran
  <2>2. Exists(p)  BY <2>1 DEF Ran, Exists
  <2>3. QED  BY <2>1, <2>2, <1>2 DEF Ran
<1>11. QED  BY <1>3, <1>6, <1>7, <1>8, <1>9, <1>10 DEF GoodQueue, q

\* A write of the timers leaves all but one of them alone.
Changed(file, t, value, n) == [rev |-> n, timers |-> [file.timers EXCEPT ![t] = value]]

LEMMA ChangedIsGood ==
  ASSUME NEW file \in FileT, NEW q, GoodFile(file, q), NEW t \in Timers, NEW value \in TimerT,
         NEW n \in Nat,
         value.on => value.next # None,
         value.last = "queued" =>
           value.lastAt \in Whens /\ \A p \in Batch(t, value.lastAt) : q[p].status # "none"
  PROVE  GoodFile(Changed(file, t, value, n), q) /\ Changed(file, t, value, n) \in FileT
PROOF
<1> DEFINE new == Changed(file, t, value, n)
<1>0. Scheduled(file) /\ TellsTruth(file, q)
  BY GoodFileTyped, NoFileIsNone
<1>1. new \in FileT
  BY DEF Changed, FileT
<1>2. \A u \in Timers : new.timers[u] = IF u = t THEN value ELSE file.timers[u]
  BY DEF Changed, FileT
<1> HIDE DEF new
<1>3. Scheduled(new)
  BY <1>0, <1>2 DEF Scheduled
<1>4. TellsTruth(new, q)
  <2>1. SUFFICES ASSUME NEW u \in Timers, new.timers[u].last = "queued"
                 PROVE  /\ new.timers[u].lastAt \in Whens
                        /\ \A p \in Batch(u, new.timers[u].lastAt) : q[p].status # "none"
    BY DEF TellsTruth
  <2>2. CASE u = t
    BY <2>1, <2>2, <1>2
  <2>3. CASE u # t
    <3>1. new.timers[u] = file.timers[u]  BY <2>3, <1>2
    <3>2. QED  BY <2>1, <3>1, <1>0, Zenon DEF TellsTruth
  <2>4. QED  BY <2>2, <2>3
<1>5. QED  BY <1>1, <1>3, <1>4 DEF GoodFile, new

-----------------------------------------------------------------------------
\* What each step does to the queue.

\* A step of the queue that files nothing, and one that may.
Rewrites(q, r) == r \in [Filings -> FilingT] /\ FlagsWait(r) /\ Onward(q, r)
GoesOn(q, r) ==
  /\ GoodQueue(r) /\ Monotone(q, r)
  /\ \A p \in Filings : Ran(q[p].status) => r[p].status \notin {"none", "pending"}

LEMMA RewriteGoesOn ==
  ASSUME NEW q, NEW r, GoodQueue(q), Rewrites(q, r)
  PROVE  GoesOn(q, r)
PROOF
BY OnwardKeeps, Zenon DEF Rewrites, GoesOn, GoodQueue, Onward

LEMMA SameGoesOn ==
  ASSUME NEW q, GoodQueue(q)
  PROVE  GoesOn(q, q)
PROOF
BY SMT DEF GoesOn, Monotone, Ran

LEMMA FilingGoesOn ==
  ASSUME GoodQueue(queue), timerFile \in FileT, NEW t \in Timers, NEW when \in Whens
  PROVE  GoesOn(queue, Filed(t, when))
PROOF
BY FiledIsGood DEF GoesOn

\* A prompt whose flag is taken, or whose turn begins, ends or is cut off.
LEMMA UnflaggedRewrites ==
  ASSUME GoodQueue(queue), NEW S
  PROVE  /\ Rewrites(queue, Unflagged(S))
         /\ \A p \in Filings : Unflagged(S)[p].status = queue[p].status
         /\ GoodQueue(Unflagged(S))
PROOF
<1> DEFINE q == Unflagged(S)
<1>1. \A p \in Filings : q[p] = IF p \in S THEN [queue[p] EXCEPT !.auto = FALSE] ELSE queue[p]
  BY DEF Unflagged
<1>2. \A p \in Filings : [queue[p] EXCEPT !.auto = FALSE] \in FilingT
  <2>1. TAKE p \in Filings
  <2>2. queue[p] \in FilingT  BY DEF GoodQueue
  <2>3. FALSE \in BOOLEAN  OBVIOUS
  <2>4. QED  BY <2>2, <2>3 DEF FilingT
<1>3. q \in [Filings -> FilingT]
  <2>1. \A p \in Filings : q[p] \in FilingT
    BY <1>1, <1>2 DEF GoodQueue
  <2>2. q = [p \in Filings |-> q[p]]
    BY DEF Unflagged
  <2> HIDE DEF q
  <2>3. QED  BY <2>1, <2>2
<1>4. \A p \in Filings : q[p].status = queue[p].status /\ (q[p].auto => queue[p].auto)
  <2>1. TAKE p \in Filings
  <2>2. queue[p] \in FilingT  BY DEF GoodQueue
  <2> DEFINE off == [queue[p] EXCEPT !.auto = FALSE]
  <2>3. off.status = queue[p].status /\ off.auto = FALSE
    BY <2>2, SMT DEF FilingT
  <2> HIDE DEF off
  <2>4. q[p] = off \/ q[p] = queue[p]
    BY <1>1 DEF off
  <2> HIDE DEF q
  <2>5. QED  BY <2>3, <2>4
<1> HIDE DEF q
<1>5. FlagsWait(q) /\ Onward(queue, q)
  BY <1>4 DEF FlagsWait, GoodQueue, Onward, Ran
<1>6. Rewrites(queue, q)
  BY <1>3, <1>5 DEF Rewrites
<1>7. QED  BY <1>4, <1>6, RewriteGoesOn DEF q, GoesOn

\* One prompt gets another status.
LEMMA OnePrompt ==
  ASSUME NEW q, GoodQueue(q), NEW p \in Filings, NEW value \in FilingT, ~ value.auto,
         q[p].status # "none", value.status \notin {"none", "pending"}
  PROVE  Rewrites(q, [q EXCEPT ![p] = value])
PROOF
<1> DEFINE r == [q EXCEPT ![p] = value]
<1>1. r \in [Filings -> FilingT]
  BY DEF GoodQueue
<1>2. \A u \in Filings : r[u] = IF u = p THEN value ELSE q[u]
  BY DEF GoodQueue
<1> HIDE DEF r
<1>3. FlagsWait(r) /\ Onward(q, r)
  BY <1>2 DEF FlagsWait, GoodQueue, Onward, Ran
<1>4. QED  BY <1>1, <1>3 DEF Rewrites, r

\* Every turn there is ends alike.
LEMMA TurnsCutOff ==
  ASSUME NEW q, GoodQueue(q), NEW outcome \in {"interrupted", "completed", "failed"}
  PROVE  Rewrites(q, [p \in Filings |-> IF q[p].status = "running"
                                        THEN [q[p] EXCEPT !.status = outcome] ELSE q[p]])
PROOF
<1> DEFINE r == [p \in Filings |-> IF q[p].status = "running"
                                   THEN [q[p] EXCEPT !.status = outcome] ELSE q[p]]
<1>1. \A p \in Filings : r[p] = IF q[p].status = "running" THEN [q[p] EXCEPT !.status = outcome] ELSE q[p]
  OBVIOUS
<1>2. \A p \in Filings : q[p] \in FilingT
  BY DEF GoodQueue
<1>3. \A p \in Filings : /\ r[p] \in FilingT
                         /\ r[p].auto = q[p].auto
                         /\ r[p].status = IF q[p].status = "running" THEN outcome ELSE q[p].status
  BY <1>1, <1>2, SMT DEF FilingT
<1>4. r \in [Filings -> FilingT]
  <2>1. r = [p \in Filings |-> r[p]]  OBVIOUS
  <2> HIDE DEF r
  <2>2. QED  BY <1>3, <2>1
<1> HIDE DEF r
<1>5. FlagsWait(r)
  BY <1>3 DEF FlagsWait, GoodQueue
<1>6. Onward(q, r)
  BY <1>3 DEF Onward, Ran
<1>7. QED  BY <1>4, <1>5, <1>6 DEF Rewrites, r

\* What is current is a timer of the file, and is due at a moment the clock has.
LEMMA CurrentIsDue ==
  ASSUME TimerInv, dueList # <<>>
  PROVE  /\ Head(dueList)[1] \in Timers /\ Head(dueList)[2] \in 1..MaxTime
         /\ Head(dueList)[2] \in Whens
         /\ Tail(dueList) \in Seq(Timers \X (1..MaxTime))
         /\ Current(Head(dueList)) => timerFile \in FileT
PROOF
<1>1. dueList \in Seq(Timers \X (1..MaxTime))
  BY DEF TimerInv, ServiceTyped
<1>2. Head(dueList) \in Timers \X (1..MaxTime) /\ Tail(dueList) \in Seq(Timers \X (1..MaxTime))
  BY <1>1, HeadTailProperties
<1>3. Current(Head(dueList)) => timerFile \in FileT
  BY GoodFileTyped DEF Current, TimerInv, FilesGood
<1>4. QED  BY <1>2, <1>3 DEF Whens

LEMMA SaysFiled ==
  ASSUME TimerInv, NEW t, NEW when, TriggerPrompts(t, when)
  PROVE  queue' = queue \/ queue' = Filed(t, when)
PROOF
BY DEF TriggerPrompts, WriteQueue

LEMMA RunnerRewrites ==
  ASSUME TimerInv, NEW p \in Filings
  PROVE  /\ RunnerTakes(p) => Rewrites(queue, queue')
         /\ \A outcome \in {"completed", "failed"}, drop \in BOOLEAN :
              RunnerEnds(p, outcome, drop) => Rewrites(queue, queue')
         /\ UserDeletes(p) => Rewrites(queue, queue')
PROOF
<1>0. GoodQueue(queue) /\ queue[p] \in FilingT
  BY DEF TimerInv, GoodQueue
<1>1. ASSUME RunnerTakes(p) PROVE Rewrites(queue, queue')
  <2> DEFINE value == [[queue[p] EXCEPT !.status = "running"] EXCEPT !.auto = FALSE]
  <2>1. value \in FilingT /\ value.auto = FALSE /\ value.status = "running"
    <3>1. FALSE \in BOOLEAN  OBVIOUS
    <3>2. QED  BY <1>0, <3>1 DEF FilingT
  <2>2. queue' = [queue EXCEPT ![p].status = "running", ![p].auto = FALSE]
    BY <1>1 DEF RunnerTakes, RunnerStep, WriteQueue
  <2>3. queue' = [queue EXCEPT ![p] = value]
    BY <1>0, <2>2 DEF GoodQueue
  <2>4. queue[p].status = "pending"
    BY <1>1 DEF RunnerTakes, Eligible
  <2> HIDE DEF value
  <2>5. QED  BY <1>0, <2>1, <2>3, <2>4, OnePrompt
<1>2. ASSUME NEW outcome \in {"completed", "failed"}, NEW drop \in BOOLEAN,
             RunnerEnds(p, outcome, drop)
      PROVE  Rewrites(queue, queue')
  <2> DEFINE q == IF drop THEN Unflagged(Filings) ELSE queue
             value == [q[p] EXCEPT !.status = outcome]
  <2>1. queue[p].status = "running" /\ queue' = [q EXCEPT ![p].status = outcome]
    BY <1>2 DEF RunnerEnds, RunnerStep, WriteQueue
  <2>2. GoodQueue(q) /\ \A u \in Filings : q[u].status = queue[u].status
    BY <1>0, UnflaggedRewrites
  <2> HIDE DEF q
  <2>3. q[p] \in FilingT /\ ~ q[p].auto
    BY <2>1, <2>2 DEF GoodQueue, FlagsWait
  <2>4. value \in FilingT /\ value.auto = q[p].auto /\ value.status = outcome
    BY <2>3 DEF FilingT
  <2>5. queue' = [q EXCEPT ![p] = value]
    BY <2>1, <2>2 DEF GoodQueue
  <2> HIDE DEF value
  <2>6. Rewrites(q, queue')
    <3>1. ~ value.auto  BY <2>3, <2>4, Zenon
    <3>2. q[p].status # "none" /\ value.status \notin {"none", "pending"}
      BY <2>1, <2>2, <2>4
    <3>3. QED  BY <2>2, <2>4, <2>5, <3>1, <3>2, OnePrompt
  <2>7. QED  BY <2>2, <2>6, Zenon DEF Rewrites, Onward
<1>3. ASSUME UserDeletes(p) PROVE Rewrites(queue, queue')
  <2> DEFINE value == [[queue[p] EXCEPT !.status = "deleted"] EXCEPT !.auto = FALSE]
  <2>1. value \in FilingT /\ value.auto = FALSE /\ value.status = "deleted"
    <3>1. FALSE \in BOOLEAN  OBVIOUS
    <3>2. QED  BY <1>0, <3>1 DEF FilingT
  <2>2. queue' = [queue EXCEPT ![p].status = "deleted", ![p].auto = FALSE]
    BY <1>3 DEF UserDeletes, RunnerStep, WriteQueue
  <2>3. queue' = [queue EXCEPT ![p] = value]
    BY <1>0, <2>2 DEF GoodQueue
  <2>4. queue[p].status = "pending"
    BY <1>3 DEF UserDeletes
  <2> HIDE DEF value
  <2>5. QED  BY <1>0, <2>1, <2>3, <2>4, OnePrompt
<1>4. QED  BY <1>1, <1>2, <1>3

LEMMA ServiceRewrites ==
  ASSUME TimerInv
  PROVE  /\ RunnerDrops \/ UserPauses => Rewrites(queue, queue')
         /\ \A r \in BOOLEAN, k \in Threads : SessionChanges(r, k) => Rewrites(queue, queue')
         /\ \A pause \in BOOLEAN : RecoverAutoRuns(pause) => queue' = queue \/ Rewrites(queue, queue')
         /\ TimerRestart \/ DeleteBegins => Rewrites(queue, queue')
PROOF
<1>0. GoodQueue(queue)
  BY DEF TimerInv
<1>1. ASSUME RunnerDrops \/ UserPauses PROVE Rewrites(queue, queue')
  <2>1. \E S : queue' = Unflagged(S)
    BY <1>1 DEF RunnerDrops, UserPauses, RunnerStep, WriteQueue
  <2>2. QED  BY <2>1, <1>0, UnflaggedRewrites
<1>2. ASSUME NEW r \in BOOLEAN, NEW k \in Threads, SessionChanges(r, k) PROVE Rewrites(queue, queue')
  BY <1>0, <1>2, TurnsCutOff DEF SessionChanges, WriteQueue
<1>3. ASSUME NEW pause \in BOOLEAN, RecoverAutoRuns(pause)
      PROVE  queue' = queue \/ Rewrites(queue, queue')
  <2>1. queue' = queue \/ \E S : queue' = Unflagged(S)
    BY <1>3 DEF RecoverAutoRuns
  <2>2. QED  BY <2>1, <1>0, UnflaggedRewrites
<1>4. ASSUME TimerRestart PROVE Rewrites(queue, queue')
  <2>1. PICK outcome \in {"interrupted", "completed"} :
          queue' = [p \in Filings |-> IF queue[p].status = "running"
                                      THEN [queue[p] EXCEPT !.status = outcome] ELSE queue[p]]
    BY <1>4 DEF TimerRestart
  <2>2. QED  BY <1>0, <2>1, TurnsCutOff
<1>5. ASSUME DeleteBegins PROVE Rewrites(queue, queue')
  <2> DEFINE q == Unflagged(Filings)
             ended == [p \in Filings |-> IF q[p].status = "running"
                                         THEN [q[p] EXCEPT !.status = "failed"] ELSE q[p]]
  <2>1. GoodQueue(q) /\ \A p \in Filings : q[p].status = queue[p].status
    BY <1>0, UnflaggedRewrites
  <2>2. queue' = [p \in Filings |-> [q[p] EXCEPT !.status = IF @ = "running" THEN "failed" ELSE @]]
    BY <1>5 DEF DeleteBegins, WriteQueue
  <2> HIDE DEF q
  <2>3. \A p \in Filings : [q[p] EXCEPT !.status = q[p].status] = q[p]
    BY <2>1 DEF GoodQueue, FilingT
  <2>4. queue' = ended
    BY <2>2, <2>3
  <2> HIDE DEF ended
  <2>5. Rewrites(q, ended)
    BY <2>1, TurnsCutOff DEF ended
  <2>6. QED  BY <2>1, <2>4, <2>5, Zenon DEF Rewrites, Onward
<1>6. QED  BY <1>1, <1>2, <1>3, <1>4, <1>5

LEMMA QueueGoesOn ==
  ASSUME TimerInv, [TimerNext]_timerVars
  PROVE  GoesOn(queue, queue')
PROOF
<1>0. GoodQueue(queue)
  BY DEF TimerInv
<1>1. CASE queue' = queue
  BY <1>0, <1>1, SameGoesOn
<1>2. CASE Trigger
  <2>1. SUFFICES ASSUME queue' # queue PROVE GoesOn(queue, queue')
    BY <1>1
  <2>2. /\ dueList # <<>> /\ Current(Head(dueList))
        /\ TriggerPrompts(Head(dueList)[1], Head(dueList)[2])
    BY <1>2, <2>1 DEF Trigger
  <2>3. queue' = Filed(Head(dueList)[1], Head(dueList)[2])
    BY <2>1, <2>2, SaysFiled
  <2>4. QED  BY <1>0, <2>2, <2>3, CurrentIsDue, FilingGoesOn
<1>3. ASSUME NEW t \in Timers, NEW k \in Keys, RunNow(t, k) PROVE GoesOn(queue, queue')
  <2>1. queue' = queue \/ queue' = Filed(t, k)
    BY <1>3 DEF RunNow, WriteQueue
  <2>2. timerFile \in FileT
    BY <1>3, GoodFileTyped DEF RunNow, Attached, TimerInv, FilesGood
  <2>3. QED  BY <1>0, <1>1, <2>1, <2>2, FilingGoesOn DEF Whens
<1>4. ASSUME NEW p \in Filings, RunnerTakes(p) \/ RunnerEnds(p, "completed", FALSE)
                 \/ (\E drop \in BOOLEAN : RunnerEnds(p, "failed", drop)) \/ UserDeletes(p)
      PROVE  GoesOn(queue, queue')
  <2>1. Rewrites(queue, queue')
    BY <1>4, RunnerRewrites
  <2>2. QED  BY <2>1, <1>0, RewriteGoesOn
<1>5. ASSUME \/ RunnerDrops \/ UserPauses \/ TimerRestart \/ DeleteBegins
             \/ \E pause \in BOOLEAN : RecoverAutoRuns(pause)
             \/ \E r \in BOOLEAN, k \in Threads : SessionChanges(r, k)
      PROVE  GoesOn(queue, queue')
  <2>1. queue' = queue \/ Rewrites(queue, queue')
    BY <1>5, ServiceRewrites
  <2>2. QED  BY <2>1, <1>0, <1>1, RewriteGoesOn
<1>6. CASE UNCHANGED timerVars
  BY <1>1, <1>6 DEF timerVars
<1>7. CASE \/ ReadLands \/ SectionEnds \/ CheckDue \/ CheckOver \/ StartReads \/ StartWrites
           \/ PageReads \/ Tick
           \/ \E ok \in BOOLEAN : DeleteEnds(ok)
  BY <1>1, <1>7 DEF ReadLands, SectionEnds, CheckDue, CheckOver, StartReads, StartWrites, PageReads,
     Tick, DeleteEnds
<1>8. ASSUME NEW t \in Timers, DeleteTimer(t) \/ \E s \in Schedules, on \in BOOLEAN : SaveTimer(t, s, on)
      PROVE  GoesOn(queue, queue')
  BY <1>1, <1>8 DEF DeleteTimer, SaveTimer
<1>9. QED
  BY <1>2, <1>3, <1>4, <1>5, <1>6, <1>7, <1>8 DEF TimerNext, TimerSystem, TimerUser

-----------------------------------------------------------------------------
\* The timers a step writes.

LEMMA TimerOfFile ==
  ASSUME NEW file \in FileT, NEW t \in Timers
  PROVE  file.timers[t] \in TimerT
PROOF
BY DEF FileT

LEMMA NoTimerTyped ==
  NoTimer \in TimerT /\ ~ NoTimer.on /\ NoTimer.last = "none"
PROOF
<1>1. FALSE \in BOOLEAN  OBVIOUS
<1>2. ~ NoTimer.on /\ NoTimer.last = "none"  BY DEF NoTimer
<1>3. QED  BY <1>1, <1>2 DEF NoTimer, TimerT, ThreadT

LEMMA NewTimerTyped ==
  ASSUME clock \in Nat, timerFile \in FileT, NEW t \in Timers, NEW schedule \in Schedules,
         NEW on \in BOOLEAN, NEW who \in ThreadT
  PROVE  LET new == NewTimer(t, schedule, on, who)
         IN  /\ new \in TimerT /\ (new.on => new.next # None)
             /\ new.last = timerFile.timers[t].last /\ new.lastAt = timerFile.timers[t].lastAt
PROOF
<1> DEFINE old == timerFile.timers[t]
           next == NextRun(schedule, clock)
           isOn == on /\ next # None
           then == IF on THEN next ELSE None
           new == NewTimer(t, schedule, on, who)
<1>1. old \in TimerT
  BY TimerOfFile
<1>2. next \in {None} \cup (Nat \ {0})
  BY NextRunIsLater
<1>3. isOn \in BOOLEAN /\ then \in {None} \cup (Nat \ {0}) /\ (isOn => then # None)
  BY <1>2
<1>4. FALSE \in BOOLEAN  OBVIOUS
<1>5. new = [old EXCEPT !.on = isOn, !.next = then, !.schedule = schedule, !.thread = who, !.stale = FALSE]
  BY DEF NewTimer
<1> HIDE DEF old, next, isOn, then, new
<1>6. /\ new.on = isOn /\ new.next = then /\ new.last = old.last /\ new.lastAt = old.lastAt
  BY <1>1, <1>5 DEF TimerT
<1>7. new \in TimerT
  BY <1>1, <1>3, <1>4, <1>5 DEF TimerT
<1>8. new.on => new.next # None
  BY <1>3, <1>6, Zenon
<1>9. QED  BY <1>6, <1>7, <1>8 DEF new, old

LEMMA AdvancedTyped ==
  ASSUME clock \in Nat, timerFile \in FileT, NEW t \in Timers, NEW when \in Whens,
         NEW status \in {"queued", "blocked", "coalesced"}
  PROVE  LET new == Advanced(t, when, status)
         IN  /\ new \in TimerT /\ (new.on => new.next # None)
             /\ new.last = status /\ new.lastAt = when
PROOF
<1> DEFINE old == timerFile.timers[t]
           next == IF old.schedule.kind = "once" THEN None ELSE NextRun(old.schedule, clock)
           isOn == next # None
           new == Advanced(t, when, status)
<1>1. old \in TimerT
  BY TimerOfFile
<1>2. next \in {None} \cup (Nat \ {0})
  BY <1>1, NextRunIsLater DEF TimerT
<1>3. isOn \in BOOLEAN
  OBVIOUS
<1>4. new = [old EXCEPT !.on = isOn, !.next = next, !.last = status, !.lastAt = when]
  BY DEF Advanced
<1>5. isOn => next # None
  OBVIOUS
<1> HIDE DEF old, next, isOn, new
<1>6. /\ new.on = isOn /\ new.next = next /\ new.last = status /\ new.lastAt = when
  BY <1>1, <1>4 DEF TimerT
<1>7. new \in TimerT
  BY <1>1, <1>2, <1>3, <1>4 DEF TimerT
<1>8. new.on => new.next # None
  BY <1>5, <1>6, Zenon
<1>9. QED  BY <1>6, <1>7, <1>8 DEF new

\* Run now changes nothing but what the timer says of its last occurrence.
LEMMA RunTyped ==
  ASSUME timerFile \in FileT, Scheduled(timerFile), NEW t \in Timers, NEW when \in Whens
  PROVE  LET new == [timerFile.timers[t] EXCEPT !.last = "queued", !.lastAt = when]
         IN  /\ new \in TimerT /\ (new.on => new.next # None)
             /\ new.on = timerFile.timers[t].on
             /\ new.last = "queued" /\ new.lastAt = when
PROOF
<1> DEFINE old == timerFile.timers[t]
           new == [old EXCEPT !.last = "queued", !.lastAt = when]
<1>1. old \in TimerT /\ (old.on => old.next # None)
  BY TimerOfFile DEF Scheduled
<1> HIDE DEF old
<1>2. /\ new.on = old.on /\ new.next = old.next /\ new.last = "queued" /\ new.lastAt = when
  BY <1>1 DEF TimerT
<1>3. new \in TimerT
  BY <1>1 DEF TimerT
<1> HIDE DEF new
<1>4. new.on => new.next # None
  BY <1>1, <1>2, Zenon
<1>5. QED  BY <1>2, <1>3, <1>4 DEF new, old

-----------------------------------------------------------------------------
\* The invariant, step by step.

LEMMA GoodFileGoesOn ==
  ASSUME NEW file, NEW q, NEW r, GoodFile(file, q), GoesOn(q, r)
  PROVE  GoodFile(file, r)
PROOF
BY GoodFileStays DEF GoesOn

LEMMA FilesGoOn ==
  ASSUME TimerInv, GoesOn(queue, queue'),
         \A file \in {timerFile', copy', reading', section'.next} :
           file \in {timerFile, copy, reading, section.next} \/ GoodFile(file, queue')
  PROVE  FilesGood'
PROOF
<1>1. \A file \in {timerFile, copy, reading, section.next} : GoodFile(file, queue')
  BY GoodFileGoesOn DEF TimerInv, FilesGood
<1>2. QED  BY <1>1 DEF FilesGood

LEMMA NoFileIsGood == \A q : GoodFile(NoFile, q)
PROOF
BY DEF GoodFile

LEMMA UnlockedTyped == Unlocked \in LockT /\ Unlocked.next = NoFile /\ Unlocked.who = "free"
PROOF
BY DEF Unlocked, LockT

LEMMA TimerInvInit ==
  ASSUME TimerInit
  PROVE  TimerInv
PROOF
<1>1. timerFile \in FileT /\ Scheduled(timerFile) /\ TellsTruth(timerFile, queue)
  <2>1. timerFile.rev = 0 /\ timerFile.timers = [t \in Timers |-> NoTimer]
    BY DEF TimerInit
  <2>2. timerFile \in FileT
    BY NoTimerTyped DEF TimerInit, FileT
  <2>3. \A t \in Timers : timerFile.timers[t] = NoTimer
    BY <2>1
  <2>4. QED  BY <2>2, <2>3, NoTimerTyped DEF Scheduled, TellsTruth
<1>2. FilesGood
  BY <1>1, NoFileIsGood, UnlockedTyped DEF TimerInit, FilesGood, GoodFile
<1>3. GoodQueue(queue)
  <2>1. Absent \in FilingT /\ ~ Absent.auto /\ Absent.status = "none"
    <3>1. FALSE \in BOOLEAN  OBVIOUS
    <3>2. ~ Absent.auto /\ Absent.status = "none"  BY DEF Absent
    <3>3. QED  BY <3>1, <3>2 DEF Absent, FilingT, ThreadT
  <2>2. queue = [p \in Filings |-> Absent]
    BY DEF TimerInit
  <2>3. queue \in [Filings -> FilingT] /\ \A p \in Filings : queue[p] = Absent
    BY <2>1, <2>2
  <2>4. FlagsWait(queue)
    BY <2>1, <2>3, Zenon DEF FlagsWait
  <2>5. BatchesWhole(queue)
    BY <2>1, <2>3, BatchIsOfFilings, Zenon DEF BatchesWhole
  <2>6. QED  BY <2>3, <2>4, <2>5 DEF GoodQueue
<1>4. ServiceTyped
  <2>1. TRUE \in BOOLEAN /\ FALSE \in BOOLEAN  OBVIOUS
  <2>2. session \in [ready : BOOLEAN, thread : ThreadT]
    BY <2>1 DEF TimerInit, ThreadT
  <2>3. section \in LockT /\ section = Unlocked /\ section.who = "free"
    BY UnlockedTyped DEF TimerInit
  <2>4. clock \in 0..MaxTime
    BY TimerAssumption DEF TimerInit
  <2>5. dueList \in Seq(Timers \X (1..MaxTime)) /\ dueList = <<>>
    BY DEF TimerInit
  <2>6. QED  BY <2>1, <2>2, <2>3, <2>4, <2>5 DEF TimerInit, ServiceTyped
<1>5. QED  BY <1>2, <1>3, <1>4 DEF TimerInv

LEMMA ClockTyped ==
  ASSUME TimerInv
  PROVE  clock \in Nat /\ clock <= MaxTime
PROOF
BY TimerAssumption DEF TimerInv, ServiceTyped

\* The writes of the dialog.
LEMMA DialogSteps ==
  ASSUME TimerInv, NEW t \in Timers,
         DeleteTimer(t) \/ \E s \in Schedules, on \in BOOLEAN : SaveTimer(t, s, on)
  PROVE  FilesGood' /\ ServiceTyped'
PROOF
<1>0. GoodQueue(queue) /\ ServiceTyped
  BY DEF TimerInv
<1>1. /\ section = Unlocked /\ section' = section /\ queue' = queue /\ timerFile \in FileT
      /\ GoodFile(timerFile, queue) /\ reading' = reading
  BY GoodFileTyped DEF DeleteTimer, SaveTimer, Attached, TimerInv, FilesGood, Rest
<1>2. PICK value \in TimerT :
        /\ WriteTimer(t, value) /\ (value.on => value.next # None)
        /\ value.last = "queued" =>
             value.lastAt \in Whens /\ \A p \in Batch(t, value.lastAt) : queue[p].status # "none"
  <2>1. CASE DeleteTimer(t)
    BY <2>1, NoTimerTyped DEF DeleteTimer
  <2>2. ASSUME NEW s \in Schedules, NEW on \in BOOLEAN, SaveTimer(t, s, on)
        PROVE  \E value \in TimerT :
                 /\ WriteTimer(t, value) /\ (value.on => value.next # None)
                 /\ value.last = "queued" =>
                      value.lastAt \in Whens /\ \A p \in Batch(t, value.lastAt) : queue[p].status # "none"
    <3> DEFINE who == IF timerFile.timers[t] = NoTimer THEN session.thread ELSE timerFile.timers[t].thread
               new == NewTimer(t, s, on, who)
    <3>1. who \in ThreadT
      BY <1>0, <1>1, TimerOfFile DEF ServiceTyped, TimerT
    <3> HIDE DEF who
    <3>2. /\ new \in TimerT /\ (new.on => new.next # None)
          /\ new.last = timerFile.timers[t].last /\ new.lastAt = timerFile.timers[t].lastAt
      BY <1>1, <3>1, ClockTyped, NewTimerTyped
    <3>3. TellsTruth(timerFile, queue)
      BY <1>1, NoFileIsNone, GoodFileTyped
    <3>4. WriteTimer(t, new)
      BY <2>2 DEF SaveTimer, who
    <3> HIDE DEF new
    <3>5. QED  BY <3>2, <3>3, <3>4, Zenon DEF TellsTruth
  <2>3. QED  BY <2>1, <2>2
<1>3. /\ timerFile' = Changed(timerFile, t, value, timerFile.rev + 1) /\ copy' = timerFile'
      /\ armed' \in BOOLEAN
  BY <1>2 DEF WriteTimer, Remember, Changed
<1>4. timerFile.rev + 1 \in Nat
  BY <1>1 DEF FileT
<1>5. GoodFile(timerFile', queue) /\ timerFile' \in FileT
  BY <1>1, <1>2, <1>3, <1>4, ChangedIsGood
<1>6. FilesGood'
  BY <1>0, <1>1, <1>3, <1>5, FilesGoOn, SameGoesOn
<1>7. ServiceTyped'
  BY <1>0, <1>1, <1>3 DEF ServiceTyped, DeleteTimer, SaveTimer, Rest
<1>8. QED  BY <1>6, <1>7

\* The first of the two writes of a locked section.
LEMMA SectionBegins ==
  ASSUME TimerInv, timerFile \in FileT, GoesOn(queue, queue'), NEW t \in Timers, NEW value \in TimerT,
         section'.next = Moved(t, value), UNCHANGED <<timerFile, copy, reading>>,
         value.on => value.next # None,
         value.last = "queued" =>
           value.lastAt \in Whens /\ \A p \in Batch(t, value.lastAt) : queue'[p].status # "none"
  PROVE  FilesGood' /\ section'.next \in FileT
PROOF
<1>1. timerFile.rev + 1 \in Nat
  BY DEF FileT
<1>2. GoodFile(timerFile, queue')
  BY GoodFileGoesOn DEF TimerInv, FilesGood
<1>3. section'.next = Changed(timerFile, t, value, timerFile.rev + 1)
  BY DEF Moved, Changed
<1>4. GoodFile(section'.next, queue') /\ section'.next \in FileT
  BY <1>1, <1>2, <1>3, ChangedIsGood
<1>5. QED  BY <1>4, FilesGoOn

LEMMA TriggerSteps ==
  ASSUME TimerInv, GoesOn(queue, queue'), Trigger
  PROVE  FilesGood' /\ ServiceTyped'
PROOF
<1>0. GoodQueue(queue) /\ ServiceTyped
  BY DEF TimerInv
<1>1. dueList # <<>> /\ section = Unlocked /\ UNCHANGED <<timerFile, copy, reading>>
  BY DEF Trigger
<1>2. CASE detaching \/ ~ Current(Head(dueList))
  <2>1. dueList' = Tail(dueList) /\ section' = section
    BY <1>2 DEF Trigger
  <2>2. FilesGood'
    BY <1>1, <2>1, FilesGoOn
  <2>3. ServiceTyped'
    BY <1>0, <1>1, <2>1, CurrentIsDue, UnlockedTyped DEF ServiceTyped, Trigger
  <2>4. QED  BY <2>2, <2>3
<1>3. CASE ~ (detaching \/ ~ Current(Head(dueList)))
  <2> DEFINE t == Head(dueList)[1]
             when == Head(dueList)[2]
             again == \E p \in Batch(t, when) : Exists(p)
             status == IF again THEN "queued" ELSE IF ~ Runnable(t) THEN "blocked"
                       ELSE IF ActiveBatch(t) THEN "coalesced" ELSE "queued"
             value == Advanced(t, when, status)
             batch == IF again THEN {p \in Batch(t, when) : queue[p].status = "pending" /\ queue[p].auto}
                      ELSE IF status = "queued" THEN Batch(t, when) ELSE {}
  <2>1. TriggerPrompts(t, when) /\ dueList' = dueList
    BY <1>3 DEF Trigger
  <2>2. t \in Timers /\ when \in Whens /\ timerFile \in FileT
    BY <1>1, <1>3, CurrentIsDue
  <2>3. /\ IF ~ again /\ status = "queued" THEN queue' = Filed(t, when) ELSE queue' = queue
        /\ section' = [who |-> "trigger", next |-> Moved(t, value), batch |-> batch]
    BY <2>1 DEF TriggerPrompts, WriteQueue
  <2>4. status \in {"queued", "blocked", "coalesced"}
    OBVIOUS
  <2>5. batch \subseteq Filings
    BY <2>2, BatchIsOfFilings
  <2>6. status = "queued" => \A p \in Batch(t, when) : queue'[p].status # "none"
    <3>1. CASE ~ again
      BY <1>0, <2>2, <2>3, <3>1, FiledIsGood
    <3>2. CASE again
      <4>1. PICK p \in Batch(t, when) : queue[p].status # "none"
        BY <3>2 DEF Exists
      <4>2. \A r \in Batch(t, when) : queue[r].status # "none"
        BY <1>0, <2>2, <4>1, Zenon DEF GoodQueue, BatchesWhole
      <4>3. QED  BY <2>3, <3>2, <4>2
    <3>3. QED  BY <3>1, <3>2
  <2> HIDE DEF again, status, t, when, batch
  <2>7. /\ value \in TimerT /\ (value.on => value.next # None)
        /\ value.last = status /\ value.lastAt = when
    BY <2>2, <2>4, ClockTyped, AdvancedTyped
  <2> HIDE DEF value
  <2>8. /\ section'.next = Moved(t, value) /\ section'.who = "trigger" /\ section'.batch = batch
    BY <2>3
  <2>9. FilesGood' /\ section'.next \in FileT
    BY <1>1, <2>2, <2>6, <2>7, <2>8, SectionBegins
  <2>10. section' \in LockT
    BY <2>3, <2>5, <2>8, <2>9 DEF LockT
  <2>11. ServiceTyped'
    BY <1>0, <1>1, <2>1, <2>2, <2>8, <2>9, <2>10 DEF ServiceTyped, Trigger
  <2>12. QED  BY <2>9, <2>11
<1>4. QED  BY <1>2, <1>3

LEMMA RunNowSteps ==
  ASSUME TimerInv, GoesOn(queue, queue'), NEW t \in Timers, NEW k \in Keys, RunNow(t, k)
  PROVE  FilesGood' /\ ServiceTyped'
PROOF
<1>0. GoodQueue(queue) /\ ServiceTyped
  BY DEF TimerInv
<1>1. /\ section = Unlocked /\ UNCHANGED <<timerFile, copy, reading, dueList>> /\ timerFile \in FileT
      /\ k \in Whens /\ Scheduled(timerFile)
  BY GoodFileTyped DEF RunNow, Attached, TimerInv, FilesGood, Whens
<1>2. Batch(t, k) \subseteq Filings
  BY <1>1, BatchIsOfFilings
<1>3. CASE \A p \in Batch(t, k) : Exists(p)
  <2>1. oneshot' = oneshot \cup Batch(t, k) /\ section' = section
    BY <1>3 DEF RunNow
  <2>2. FilesGood'
    BY <1>1, <2>1, FilesGoOn
  <2>3. ServiceTyped'
    BY <1>0, <1>1, <1>2, <2>1 DEF ServiceTyped, RunNow
  <2>4. QED  BY <2>2, <2>3
<1>4. CASE ~ \A p \in Batch(t, k) : Exists(p)
  <2> DEFINE value == [timerFile.timers[t] EXCEPT !.last = "queued", !.lastAt = k]
  <2>1. /\ queue' = Filed(t, k) /\ oneshot' = oneshot
        /\ section' = [who |-> "run", batch |-> Batch(t, k), next |-> Moved(t, value)]
    BY <1>4 DEF RunNow, WriteQueue
  <2>2. \A p \in Batch(t, k) : queue'[p].status # "none"
    BY <1>0, <1>1, <2>1, FiledIsGood
  <2>3. /\ value \in TimerT /\ (value.on => value.next # None)
        /\ value.last = "queued" /\ value.lastAt = k
    BY <1>1, RunTyped
  <2> HIDE DEF value
  <2>4. section'.next = Moved(t, value) /\ section'.who = "run" /\ section'.batch = Batch(t, k)
    BY <2>1
  <2>5. FilesGood' /\ section'.next \in FileT
    BY <1>1, <2>2, <2>3, <2>4, SectionBegins
  <2>6. section' \in LockT
    BY <1>2, <2>1, <2>4, <2>5 DEF LockT
  <2>7. ServiceTyped'
    BY <1>0, <1>1, <2>1, <2>4, <2>5, <2>6 DEF ServiceTyped, RunNow
  <2>8. QED  BY <2>5, <2>7
<1>5. QED  BY <1>3, <1>4

LEMMA SectionEndSteps ==
  ASSUME TimerInv, SectionEnds
  PROVE  FilesGood' /\ ServiceTyped'
PROOF
<1>0. GoodQueue(queue) /\ ServiceTyped
  BY DEF TimerInv
<1>1. /\ section # Unlocked /\ timerFile' = section.next /\ copy' = section.next
      /\ section' = Unlocked /\ queue' = queue /\ reading' = reading
  BY DEF SectionEnds, Remember
<1>2. FilesGood'
  BY <1>0, <1>1, FilesGoOn, SameGoesOn, NoFileIsGood, UnlockedTyped
<1>3. dueList' \in Seq(Timers \X (1..MaxTime)) /\ (dueList' # <<>> => dueList # <<>>)
  <2>1. CASE section.who = "trigger"
    <3>1. dueList # <<>> /\ dueList' = Tail(dueList)
      BY <1>0, <2>1 DEF ServiceTyped, SectionEnds
    <3>2. QED  BY <3>1, CurrentIsDue
  <2>2. CASE section.who # "trigger"
    BY <1>0, <2>2 DEF ServiceTyped, SectionEnds
  <2>3. QED  BY <2>1, <2>2
<1>4. oneshot' \subseteq Filings
  BY <1>0 DEF ServiceTyped, SectionEnds, LockT
<1>5. armed' \in BOOLEAN
  BY DEF SectionEnds, Remember
<1>6. section' \in LockT /\ section'.who = "free"
  BY <1>1, UnlockedTyped
<1>7. UNCHANGED <<session, detaching, checking, stage, recover, clock>>
  BY DEF SectionEnds
<1>8. ServiceTyped'
  BY <1>0, <1>1, <1>3, <1>4, <1>5, <1>6, <1>7 DEF ServiceTyped
<1>9. QED  BY <1>2, <1>8

LEMMA CheckDueSteps ==
  ASSUME TimerInv, CheckDue
  PROVE  FilesGood' /\ ServiceTyped'
PROOF
<1>0. GoodQueue(queue) /\ ServiceTyped
  BY DEF TimerInv
<1>1. FilesGood'
  BY <1>0, FilesGoOn, SameGoesOn DEF CheckDue
<1>2. dueList' \in Seq(Timers \X (1..MaxTime))
  <2> DEFINE late == {t \in DOMAIN copy.timers : copy.timers[t].on /\ copy.timers[t].next <= clock}
  <2>1. late # {}
    BY DEF CheckDue
  <2>2. copy # NoFile
    <3>1. SUFFICES ASSUME copy = NoFile PROVE FALSE
      OBVIOUS
    <3>2. copy.timers = << >>
      BY <3>1 DEF NoFile
    <3>3. DOMAIN copy.timers = {}
      BY <3>2
    <3>4. QED  BY <2>1, <3>3
  <2>3. copy \in FileT /\ Scheduled(copy) /\ DOMAIN copy.timers = Timers
    BY <2>2, GoodFileTyped DEF TimerInv, FilesGood, FileT
  <2>4. late \subseteq Timers /\ \A t \in late : copy.timers[t].next \in 1..MaxTime
    <3>1. late \subseteq Timers  BY <2>3
    <3>2. SUFFICES ASSUME NEW t \in late PROVE copy.timers[t].next \in 1..MaxTime
      BY <3>1
    <3>3. copy.timers[t] \in TimerT /\ copy.timers[t].next # None /\ copy.timers[t].next <= clock
      BY <2>3, <3>1, TimerOfFile DEF Scheduled
    <3>4. QED  BY <3>3, ClockTyped, TimerAssumption DEF TimerT
  <2>5. IsFiniteSet(late) /\ Cardinality(late) \in Nat
    BY <2>4, TimerAssumption, FS_Subset, FS_CardinalityType
  <2>6. PICK order \in SetToSeqs(late) :
          dueList' = [i \in DOMAIN order |-> <<order[i], copy.timers[order[i]].next>>]
    BY DEF CheckDue
  <2> HIDE DEF late
  <2>7. order \in [1..Cardinality(late) -> late]
    BY <2>6 DEF SetToSeqs
  <2>8. dueList' \in [1..Cardinality(late) -> Timers \X (1..MaxTime)]
    BY <2>4, <2>6, <2>7
  <2>9. QED  BY <2>5, <2>8, SMT
<1>3. TRUE \in BOOLEAN /\ FALSE \in BOOLEAN /\ checking' = TRUE /\ armed' = FALSE /\ checking'
  BY DEF CheckDue
<1>4. section.who # "trigger"
  BY <1>0 DEF ServiceTyped, CheckDue
<1>5. UNCHANGED <<timerFile, session, section, detaching, oneshot, reading, stage, recover, clock>>
  BY DEF CheckDue
<1>6. ServiceTyped'
  BY <1>0, <1>2, <1>3, <1>4, <1>5 DEF ServiceTyped
<1>7. QED  BY <1>1, <1>6

\* The restart marks timers as out of date, the start brings those up to date.
LEMMA RestartSteps ==
  ASSUME TimerInv, GoesOn(queue, queue'), TimerRestart
  PROVE  FilesGood' /\ ServiceTyped'
PROOF
<1>0. GoodQueue(queue) /\ ServiceTyped
  BY DEF TimerInv
<1>1. copy' = NoFile /\ reading' = NoFile /\ section' = Unlocked
  BY DEF TimerRestart
<1>2. GoodFile(timerFile', queue')
  <2>0. GoodFile(timerFile, queue')
    BY GoodFileGoesOn DEF TimerInv, FilesGood
  <2>1. CASE timerFile = NoFile
    BY <2>1, NoFileIsGood DEF TimerRestart
  <2>2. CASE timerFile # NoFile
    <3>1. PICK S \in {{}, Timers} :
            timerFile' = [timerFile EXCEPT !.timers = [t \in Timers |->
                           IF t \in S /\ @[t] # NoTimer THEN [@[t] EXCEPT !.stale = TRUE] ELSE @[t]]]
      BY <2>2 DEF TimerRestart
    <3> DEFINE Value(t) == IF t \in S /\ timerFile.timers[t] # NoTimer
                           THEN [timerFile.timers[t] EXCEPT !.stale = TRUE] ELSE timerFile.timers[t]
    <3>2. timerFile \in FileT /\ Scheduled(timerFile) /\ TellsTruth(timerFile, queue')
      BY <2>0, <2>2, GoodFileTyped
    <3>3. \A t \in Timers : /\ Value(t) \in TimerT
                            /\ Value(t).on = timerFile.timers[t].on
                            /\ Value(t).next = timerFile.timers[t].next
                            /\ Value(t).last = timerFile.timers[t].last
                            /\ Value(t).lastAt = timerFile.timers[t].lastAt
      <4>1. TAKE t \in Timers
      <4> DEFINE old == timerFile.timers[t]
      <4>2. old \in TimerT  BY <3>2, TimerOfFile
      <4>3. TRUE \in BOOLEAN  OBVIOUS
      <4> HIDE DEF old
      <4>4. /\ [old EXCEPT !.stale = TRUE] \in TimerT
            /\ [old EXCEPT !.stale = TRUE].on = old.on
            /\ [old EXCEPT !.stale = TRUE].next = old.next
            /\ [old EXCEPT !.stale = TRUE].last = old.last
            /\ [old EXCEPT !.stale = TRUE].lastAt = old.lastAt
        BY <4>2, <4>3 DEF TimerT
      <4>5. Value(t) = [old EXCEPT !.stale = TRUE] \/ Value(t) = old
        BY DEF old
      <4> HIDE DEF Value
      <4>6. QED  BY <4>2, <4>4, <4>5 DEF old
    <3>4. timerFile' = [rev |-> timerFile.rev, timers |-> [t \in Timers |-> Value(t)]]
      BY <3>1, <3>2 DEF FileT
    <3> HIDE DEF Value
    <3>5. timerFile' \in FileT /\ \A t \in Timers : timerFile'.timers[t] = Value(t)
      BY <3>2, <3>3, <3>4 DEF FileT
    <3>6. Scheduled(timerFile')
      BY <3>2, <3>3, <3>5 DEF Scheduled
    <3>7. TellsTruth(timerFile', queue')
      BY <3>2, <3>3, <3>5 DEF TellsTruth
    <3>8. QED  BY <3>5, <3>6, <3>7 DEF GoodFile
  <2>3. QED  BY <2>1, <2>2
<1>3. FilesGood'
  BY <1>1, <1>2, FilesGoOn, NoFileIsGood, UnlockedTyped
<1>4. session' \in [ready : BOOLEAN, thread : ThreadT]
  <2>1. TRUE \in BOOLEAN  OBVIOUS
  <2>2. QED  BY <1>0, <2>1 DEF ServiceTyped, TimerRestart
<1>5. FALSE \in BOOLEAN /\ << >> \in Seq(Timers \X (1..MaxTime))
  OBVIOUS
<1>6. ServiceTyped'
  BY <1>0, <1>1, <1>4, <1>5, UnlockedTyped DEF ServiceTyped, TimerRestart
<1>7. QED  BY <1>3, <1>6

LEMMA NormalisedIsGood ==
  ASSUME TimerInv, NEW file \in FileT, GoodFile(file, queue)
  PROVE  GoodFile(Normalised(file), queue)
PROOF
<1>0. Scheduled(file) /\ TellsTruth(file, queue)
  BY NoFileIsNone, GoodFileTyped
<1>1. CASE \A t \in Timers : ~ file.timers[t].stale
  BY <1>1 DEF Normalised
<1>2. CASE ~ \A t \in Timers : ~ file.timers[t].stale
  <2> DEFINE Next(t) == NextRun(file.timers[t].schedule, clock)
             On(t) == file.timers[t].on /\ Next(t) # None
             When(t) == IF file.timers[t].on THEN Next(t) ELSE None
             Value(t) == IF ~ file.timers[t].stale THEN file.timers[t]
                         ELSE [file.timers[t] EXCEPT !.stale = FALSE, !.on = @ /\ Next(t) # None,
                                                     !.next = When(t)]
  <2>1. Normalised(file) = [rev |-> file.rev + 1, timers |-> [t \in Timers |-> Value(t)]]
    BY <1>2 DEF Normalised
  <2>2. \A t \in Timers : /\ Value(t) \in TimerT /\ (Value(t).on => Value(t).next # None)
                          /\ Value(t).last = file.timers[t].last
                          /\ Value(t).lastAt = file.timers[t].lastAt
    <3>1. TAKE t \in Timers
    <3> DEFINE old == file.timers[t]
               isOn == old.on /\ Next(t) # None
               new == [old EXCEPT !.stale = FALSE, !.on = isOn, !.next = When(t)]
    <3>2. old \in TimerT /\ (old.on => old.next # None)
      BY <1>0, TimerOfFile DEF Scheduled
    <3>3. When(t) \in {None} \cup (Nat \ {0})
      BY <3>2, ClockTyped, NextRunIsLater DEF TimerT
    <3>4. isOn => When(t) # None
      OBVIOUS
    <3>5. isOn \in BOOLEAN /\ FALSE \in BOOLEAN
      OBVIOUS
    <3>6. Value(t) = old \/ Value(t) = new
      BY <3>2 DEF TimerT
    <3> HIDE DEF old, isOn, When, Next, Value
    <3>7. /\ new.on = isOn /\ new.next = When(t) /\ new.last = old.last /\ new.lastAt = old.lastAt
      BY <3>2 DEF TimerT
    <3>8. new \in TimerT
      BY <3>2, <3>3, <3>5 DEF TimerT
    <3> HIDE DEF new
    <3>9. new.on => new.next # None
      BY <3>4, <3>7, Zenon
    <3>10. QED  BY <3>2, <3>6, <3>7, <3>8, <3>9 DEF old
  <2> HIDE DEF Value
  <2>3. file.rev + 1 \in Nat
    BY DEF FileT
  <2>4. Normalised(file) \in FileT /\ \A t \in Timers : Normalised(file).timers[t] = Value(t)
    BY <2>1, <2>2, <2>3 DEF FileT
  <2>5. Scheduled(Normalised(file))
    BY <2>2, <2>4 DEF Scheduled
  <2>6. TellsTruth(Normalised(file), queue)
    BY <1>0, <2>2, <2>4 DEF TellsTruth
  <2>7. QED  BY <2>4, <2>5, <2>6 DEF GoodFile
<1>3. QED  BY <1>1, <1>2

LEMMA StartSteps ==
  ASSUME TimerInv, StartReads \/ StartWrites
  PROVE  FilesGood' /\ ServiceTyped'
PROOF
<1>0. GoodQueue(queue) /\ ServiceTyped
  BY DEF TimerInv
<1>1. CASE StartReads
  <2>1. FilesGood'
    BY <1>0, <1>1, FilesGoOn, SameGoesOn DEF StartReads
  <2>2. ServiceTyped'
    BY <1>0, <1>1 DEF ServiceTyped, StartReads
  <2>3. QED  BY <2>1, <2>2
<1>2. CASE StartWrites
  <2>1. reading \in FileT /\ GoodFile(reading, queue)
    BY <1>0, <1>2, GoodFileTyped DEF StartWrites, TimerInv, FilesGood, ServiceTyped
  <2>2. GoodFile(Normalised(reading), queue)
    BY <2>1, NormalisedIsGood
  <2>3. FilesGood'
    BY <1>0, <1>2, <2>2, FilesGoOn, SameGoesOn, NoFileIsGood DEF StartWrites
  <2>4. TRUE \in BOOLEAN /\ Enabled(Normalised(reading)) \in BOOLEAN
    BY DEF Enabled
  <2>5. section = Unlocked
    BY <1>2 DEF StartWrites
  <2>6. ServiceTyped'
    BY <1>0, <1>2, <2>4, <2>5 DEF ServiceTyped, StartWrites
  <2>7. QED  BY <2>3, <2>6
<1>3. QED  BY <1>1, <1>2

LEMMA FileSteps ==
  ASSUME TimerInv, GoesOn(queue, queue'),
         ReadLands \/ PageReads \/ CheckOver \/ Tick \/ DeleteBegins
           \/ \E ok \in BOOLEAN : DeleteEnds(ok)
  PROVE  FilesGood' /\ ServiceTyped'
PROOF
<1>0. GoodQueue(queue) /\ ServiceTyped /\ TRUE \in BOOLEAN /\ FALSE \in BOOLEAN
  BY DEF TimerInv
<1>1. CASE ReadLands
  <2>1. FilesGood'
    BY <1>1, FilesGoOn, NoFileIsGood DEF ReadLands, Remember
  <2>2. armed' \in BOOLEAN
    BY <1>1 DEF ReadLands, Remember
  <2>3. ServiceTyped'
    BY <1>0, <1>1, <2>2 DEF ServiceTyped, ReadLands
  <2>4. QED  BY <2>1, <2>3
<1>2. CASE PageReads
  <2>1. FilesGood'
    BY <1>2, FilesGoOn DEF PageReads
  <2>2. ServiceTyped'
    BY <1>0, <1>2 DEF ServiceTyped, PageReads
  <2>3. QED  BY <2>1, <2>2
<1>3. CASE CheckOver
  <2>1. FilesGood'
    BY <1>3, FilesGoOn DEF CheckOver
  <2>2. armed' \in BOOLEAN /\ checking' \in BOOLEAN /\ dueList = <<>>
    BY <1>3 DEF CheckOver, CheckEnds, Enabled
  <2>3. ServiceTyped'
    BY <1>0, <1>3, <2>2 DEF ServiceTyped, CheckOver
  <2>4. QED  BY <2>1, <2>3
<1>4. CASE Tick
  <2>1. FilesGood'
    BY <1>4, FilesGoOn DEF Tick
  <2>2. clock' \in 0..MaxTime
    BY <1>0, <1>4, TimerAssumption DEF ServiceTyped, Tick
  <2>3. ServiceTyped'
    BY <1>0, <1>4, <2>2 DEF ServiceTyped, Tick
  <2>4. QED  BY <2>1, <2>3
<1>5. CASE DeleteBegins
  <2>1. FilesGood'
    BY <1>5, FilesGoOn DEF DeleteBegins
  <2>2. session' \in [ready : BOOLEAN, thread : ThreadT]
    BY <1>0, <1>5 DEF ServiceTyped, DeleteBegins
  <2>3. detaching' \in BOOLEAN /\ oneshot' = {}
    BY <1>0, <1>5 DEF DeleteBegins
  <2>4. UNCHANGED <<timerFile, section, checking, armed, dueList, reading, stage, recover, clock>>
    BY <1>5 DEF DeleteBegins
  <2>5. ServiceTyped'
    BY <1>0, <2>2, <2>3, <2>4 DEF ServiceTyped
  <2>6. QED  BY <2>1, <2>5
<1>6. ASSUME NEW ok \in BOOLEAN, DeleteEnds(ok) PROVE FilesGood' /\ ServiceTyped'
  <2>0. section = Unlocked
    BY <1>6 DEF DeleteEnds, DetachWaits
  <2>1. FilesGood'
    BY <1>6, FilesGoOn, NoFileIsGood DEF DeleteEnds
  <2>2. armed' \in BOOLEAN /\ detaching' \in BOOLEAN /\ recover' \in BOOLEAN
    BY <1>0, <1>6 DEF DeleteEnds, ServiceTyped
  <2>3. UNCHANGED <<session, section, checking, dueList, oneshot, reading, stage, clock>>
    BY <1>6 DEF DeleteEnds
  <2>4. ServiceTyped'
    BY <1>0, <2>0, <2>2, <2>3 DEF ServiceTyped
  <2>5. QED  BY <2>1, <2>4
<1>7. QED  BY <1>1, <1>2, <1>3, <1>4, <1>5, <1>6

\* The steps of the runner and of the session.
LEMMA RunnerSteps ==
  ASSUME TimerInv, GoesOn(queue, queue'),
         \/ RunnerDrops \/ UserPauses
         \/ \E p \in Filings : \/ RunnerTakes(p) \/ UserDeletes(p)
                               \/ \E outcome \in {"completed", "failed"}, drop \in BOOLEAN :
                                    RunnerEnds(p, outcome, drop)
         \/ \E pause \in BOOLEAN : RecoverAutoRuns(pause)
         \/ \E r \in BOOLEAN, k \in Threads : SessionChanges(r, k)
  PROVE  FilesGood' /\ ServiceTyped'
PROOF
<1>0. GoodQueue(queue) /\ ServiceTyped /\ TRUE \in BOOLEAN /\ FALSE \in BOOLEAN
  BY DEF TimerInv
<1>1. UNCHANGED <<timerFile, copy, section, detaching, checking, armed, dueList, reading, stage, clock>>
  BY DEF RunnerDrops, UserPauses, RunnerTakes, UserDeletes, RunnerEnds, RunnerStep, RecoverAutoRuns,
     SessionChanges
<1>2. FilesGood'
  BY <1>1, FilesGoOn
<1>3. oneshot' \subseteq Filings
  BY <1>0 DEF ServiceTyped, RunnerDrops, UserPauses, RunnerTakes, UserDeletes, RunnerEnds, RunnerStep,
     RecoverAutoRuns, SessionChanges
<1>4. session' \in [ready : BOOLEAN, thread : ThreadT]
  <2>1. session' = session \/ \E r \in BOOLEAN, k \in Threads : session' = [ready |-> r, thread |-> k]
    BY DEF RunnerDrops, UserPauses, RunnerTakes, UserDeletes, RunnerEnds, RunnerStep, RecoverAutoRuns,
       SessionChanges
  <2>2. QED  BY <1>0, <2>1 DEF ServiceTyped, ThreadT
<1>5. recover' \in BOOLEAN
  BY <1>0 DEF ServiceTyped, RunnerDrops, UserPauses, RunnerTakes, UserDeletes, RunnerEnds, RunnerStep,
     RecoverAutoRuns, SessionChanges
<1>6. ServiceTyped'
  BY <1>0, <1>1, <1>3, <1>4, <1>5 DEF ServiceTyped
<1>7. QED  BY <1>2, <1>6

LEMMA TimerInvNext ==
  ASSUME TimerInv, [TimerNext]_timerVars
  PROVE  TimerInv'
PROOF
<1>1. GoesOn(queue, queue') /\ GoodQueue(queue)'
  BY QueueGoesOn DEF GoesOn
<1>2. SUFFICES FilesGood' /\ ServiceTyped'
  BY <1>1 DEF TimerInv
<1>3. CASE UNCHANGED timerVars
  BY <1>3 DEF timerVars, TimerInv, FilesGood, GoodFile, ServiceTyped
<1>4. CASE TimerSystem
  BY <1>1, <1>4, FileSteps, TriggerSteps, SectionEndSteps, CheckDueSteps, RunnerSteps, StartSteps
  DEF TimerSystem
<1>5. CASE TimerUser
  BY <1>1, <1>5, DialogSteps, RunNowSteps, FileSteps, RunnerSteps, RestartSteps DEF TimerUser
<1>6. QED  BY <1>3, <1>4, <1>5 DEF TimerNext

LEMMA TimerInvAlways ==
  TimerSpec => []TimerInv
PROOF
<1>1. TimerInit => TimerInv
  BY TimerInvInit
<1>2. TimerInv /\ [TimerNext]_timerVars => TimerInv'
  BY TimerInvNext
<1>3. QED  BY <1>1, <1>2, PTL DEF TimerSpec

LEMMA TypesFollow == TimerInv => TimerTypes /\ OccurrenceQueued
PROOF
<1> SUFFICES ASSUME TimerInv PROVE TimerTypes /\ OccurrenceQueued
  OBVIOUS
<1>1. \A p \in Filings : queue[p] \in FilingT
  BY DEF TimerInv, GoodQueue
<1>2. \A p \in Filings : queue[p].status \in {"none", "pending", "running", "completed", "failed",
                                              "interrupted", "deleted"}
  BY <1>1 DEF FilingT
<1>3. TimerTypes
  BY <1>2, GoodFileTyped, Zenon
     DEF TimerTypes, TimerInv, GoodQueue, FlagsWait, FilesGood, Scheduled, ServiceTyped
<1>4. OccurrenceQueued
  BY GoodFileTyped, Zenon DEF OccurrenceQueued, TimerInv, FilesGood, TellsTruth
<1>5. QED  BY <1>3, <1>4

\* A timer that is on has its next moment, and what it says it queued is in the queue, also
\* when pages read and write the timers while the service reads them without the lock.
THEOREM SaidIsQueued == TimerSpec => [](TimerTypes /\ OccurrenceQueued)
PROOF
BY TimerInvAlways, TypesFollow, PTL

\* No prompt of a timer that has run waits again, whatever is read or restarted meanwhile
\* (materializePrompts looks for the names of the batch).
THEOREM NothingRunsTwice == TimerSpec => RunsOnce
PROOF
<1>1. TimerInv /\ [TimerNext]_timerVars =>
        [\A p \in Filings : queue[p].status \notin {"none", "pending", "deleted"}
                      => queue'[p].status \notin {"none", "pending"}]_timerVars
  <2>1. SUFFICES ASSUME TimerInv, [TimerNext]_timerVars
                 PROVE  \A p \in Filings : queue[p].status \notin {"none", "pending", "deleted"}
                           => queue'[p].status \notin {"none", "pending"}
    OBVIOUS
  <2>2. QED  BY <2>1, QueueGoesOn DEF GoesOn, Ran
<1>2. QED  BY <1>1, TimerInvAlways, PTL DEF RunsOnce, TimerSpec

-----------------------------------------------------------------------------
\* What the host stays up for, when no read races with a write.

LEMMA HeldOf ==
  ASSUME NEW q, GoodQueue(q)
  PROVE  Held(q) \subseteq Filings
         /\ ((\A p \in Filings : q[p].status = "none") => Held(q) = {})
PROOF
BY DEF Held, NeedsHold, GoodQueue, FlagsWait

\* An event about the prompts that changed keeps what is held exact.
LEMMA DeltaExact ==
  ASSUME NEW q, GoodQueue(queue), GoodQueue(q), hold = Held(queue), copy # NoFile
  PROVE  Delta(q) = Held(q)
PROOF
<1>1. \A p \in Filings : p \in Delta(q) <=> p \in Held(q)
  BY Zenon DEF Delta, Held, NeedsHold
<1>2. Delta(q) \subseteq Filings
  BY HeldOf DEF Delta
<1>3. QED  BY <1>1, <1>2, HeldOf

LEMMA DeltaOfNothing ==
  ASSUME NEW q, GoodQueue(q), hold = {}, \A p \in Filings : q[p].status = "none"
  PROVE  Delta(q) = {}
PROOF
BY HeldOf DEF Delta

LEMMA WriteHolds ==
  ASSUME TimerInv, HoldInv, NEW q, WriteQueue(q), GoodQueue(q), Onward(queue, q) \/ ~ Fresh,
         UNCHANGED <<timerFile, stage>>, Fresh => section' = section,
         section' # Unlocked => section'.next.rev # 0, copy' = copy
  PROVE  FirstWrite' /\ HoldExact'
PROOF
<1>0. GoodQueue(queue) /\ queue' = q /\ hold' = Delta(q) /\ (Fresh' <=> Fresh)
  BY DEF TimerInv, WriteQueue, Fresh
<1>1. Fresh => (\A p \in Filings : q[p].status = "none") /\ Delta(q) = {} /\ Held(q) = {}
  <2>1. SUFFICES ASSUME Fresh PROVE (\A p \in Filings : q[p].status = "none") /\ Delta(q) = {} /\ Held(q) = {}
    OBVIOUS
  <2>2. \A p \in Filings : q[p].status = "none"
    BY <2>1, Zenon DEF HoldInv, FirstWrite, Onward
  <2>3. QED  BY <2>1, <2>2, HeldOf, DeltaOfNothing DEF HoldInv, FirstWrite
<1>2. FirstWrite'
  BY <1>0, <1>1 DEF HoldInv, FirstWrite
<1>3. HoldExact'
  <2>1. SUFFICES ASSUME stage = "done", timerFile # NoFile PROVE Delta(q) = Held(q)
    BY <1>0 DEF HoldExact
  <2>2. CASE copy = NoFile
    BY <2>1, <2>2, <1>1 DEF HoldInv, FirstWrite
  <2>3. CASE copy # NoFile
    BY <2>1, <2>3, <1>0, DeltaExact DEF HoldInv, HoldExact
  <2>4. QED  BY <2>2, <2>3
<1>4. QED  BY <1>2, <1>3

\* Steps that write no file: what they do to the queue is heard of.
LEMMA RunnerHolds ==
  ASSUME TimerInv, HoldInv,
         \/ RunnerDrops \/ UserPauses \/ DeleteBegins
         \/ \E p \in Filings : \/ RunnerTakes(p) \/ UserDeletes(p)
                               \/ \E outcome \in {"completed", "failed"}, drop \in BOOLEAN :
                                    RunnerEnds(p, outcome, drop)
         \/ \E r \in BOOLEAN, k \in Threads : SessionChanges(r, k)
  PROVE  HoldInv'
PROOF
<1>1. UNCHANGED <<timerFile, copy, section, checking, armed, reading, stage>> /\ WriteQueue(queue')
  BY DEF RunnerDrops, UserPauses, DeleteBegins, RunnerTakes, UserDeletes, RunnerEnds, RunnerStep,
     SessionChanges, WriteQueue
<1>2. Rewrites(queue, queue')
  BY RunnerRewrites, ServiceRewrites
<1>3. GoodQueue(queue') /\ Onward(queue, queue')
  BY <1>2, RewriteGoesOn DEF TimerInv, GoesOn, Rewrites
<1>4. FirstWrite' /\ HoldExact'
  BY <1>1, <1>3, WriteHolds DEF HoldInv, FirstWrite
<1>5. ReadingsAgree'
  BY <1>1 DEF HoldInv, ReadingsAgree
<1>6. QED  BY <1>4, <1>5 DEF HoldInv

LEMMA RecoverHolds ==
  ASSUME TimerInv, HoldInv, NEW pause \in BOOLEAN, RecoverAutoRuns(pause)
  PROVE  HoldInv'
PROOF
<1>0. GoodQueue(queue)
  BY DEF TimerInv
<1>1. UNCHANGED <<timerFile, copy, section, checking, armed, reading, stage>> /\ (Fresh' <=> Fresh)
  BY DEF RecoverAutoRuns, Fresh
<1>2. queue' = queue \/ Rewrites(queue, queue')
  BY ServiceRewrites
<1>3. GoodQueue(queue') /\ \A p \in Filings : queue[p].status = "none" => queue'[p].status = "none"
  BY <1>0, <1>2, RewriteGoesOn, Zenon DEF GoesOn, Rewrites, Onward
<1>4. hold' = Held(queue') \/ (hold' = hold /\ queue' = queue)
  BY DEF RecoverAutoRuns
<1>5. Fresh => hold' = {}
  BY <1>3, <1>4, HeldOf DEF HoldInv, FirstWrite
<1>6. FirstWrite'
  BY <1>1, <1>3, <1>5 DEF HoldInv, FirstWrite
<1>7. HoldExact'
  BY <1>1, <1>4 DEF HoldInv, HoldExact
<1>8. ReadingsAgree'
  BY <1>1 DEF HoldInv, ReadingsAgree
<1>9. QED  BY <1>6, <1>7, <1>8 DEF HoldInv

LEMMA DialogHolds ==
  ASSUME ~ Races, TimerInv, HoldInv, NEW t \in Timers,
         DeleteTimer(t) \/ \E s \in Schedules, on \in BOOLEAN : SaveTimer(t, s, on)
  PROVE  HoldInv'
PROOF
<1>1. /\ section = Unlocked /\ reading = NoFile /\ timerFile # NoFile
      /\ UNCHANGED <<section, reading, queue, hold, stage, checking>>
  BY DEF DeleteTimer, SaveTimer, Attached, Unraced, Rest
<1>2. PICK value : WriteTimer(t, value)
  BY DEF DeleteTimer, SaveTimer
<1>3. /\ copy' = timerFile' /\ (armed' => stage # "off")
      /\ timerFile' = [rev |-> timerFile.rev + 1, timers |-> [timerFile.timers EXCEPT ![t] = value]]
  BY <1>2 DEF WriteTimer, Remember
<1>4. timerFile \in FileT
  BY <1>1, GoodFileTyped DEF TimerInv, FilesGood
<1>5. timerFile'.rev = timerFile.rev + 1 /\ timerFile.rev \in Nat
  BY <1>3, <1>4 DEF FileT
<1>6. timerFile' # NoFile /\ ~ Fresh'
  <2>1. NoFile.rev = -1  BY DEF NoFile
  <2>2. QED  BY <2>1, <1>5 DEF Fresh
<1>7. ReadingsAgree'
  BY <1>1, <1>3, UnlockedTyped DEF HoldInv, ReadingsAgree, SameOn
<1>8. FirstWrite' /\ HoldExact'
  BY <1>1, <1>3, <1>6 DEF HoldInv, FirstWrite, HoldExact
<1>9. QED  BY <1>7, <1>8 DEF HoldInv

LEMMA NotFresh ==
  ASSUME HoldInv, NEW t \in Timers, timerFile.timers[t] # NoTimer
  PROVE  ~ Fresh
PROOF
BY DEF HoldInv, FirstWrite

LEMMA TriggerHolds ==
  ASSUME ~ Races, TimerInv, HoldInv, Trigger
  PROVE  HoldInv'
PROOF
<1>0. GoodQueue(queue) /\ ServiceTyped
  BY DEF TimerInv
<1>1. /\ dueList # <<>> /\ section = Unlocked /\ reading = NoFile
      /\ UNCHANGED <<timerFile, copy, reading, stage, armed, checking>>
  BY DEF Trigger, Unraced
<1>2. CASE section' = section
  <2>1. UNCHANGED <<queue, hold>>
    <3>1. SUFFICES ASSUME TriggerPrompts(Head(dueList)[1], Head(dueList)[2]) PROVE FALSE
      BY DEF Trigger
    <3>2. section'.who = "trigger"
      BY <3>1 DEF TriggerPrompts
    <3>3. QED  BY <1>1, <1>2, <3>2, UnlockedTyped
  <2>2. QED
    BY <1>1, <1>2, <2>1 DEF HoldInv, ReadingsAgree, FirstWrite, HoldExact, Fresh, Held, NeedsHold
<1>3. CASE section' # section
  <2> DEFINE t == Head(dueList)[1]
             when == Head(dueList)[2]
  <2>1. TriggerPrompts(t, when) /\ Current(Head(dueList))
    BY <1>3 DEF Trigger
  <2>2. t \in Timers /\ when \in Whens /\ timerFile \in FileT
    BY <1>1, <2>1, CurrentIsDue
  <2>3. ~ Fresh
    <3>1. timerFile.timers[t].on
      BY <2>1 DEF Current
    <3>2. timerFile.timers[t] # NoTimer
      BY <3>1, NoTimerTyped
    <3>3. QED  BY <2>2, <3>2, NotFresh
  <2>4. \E value : section'.next = Moved(t, value)
    BY <2>1 DEF TriggerPrompts
  <2>5. section'.who = "trigger" /\ section'.next.rev # 0
    <3>1. timerFile.rev \in Nat  BY <2>2 DEF FileT
    <3>2. section'.next.rev = timerFile.rev + 1
      BY <2>4 DEF Moved
    <3>3. QED  BY <2>1, <3>1, <3>2 DEF TriggerPrompts
  <2>6. checking
    BY <1>0, <1>1 DEF ServiceTyped
  <2>7. ReadingsAgree'
    BY <1>1, <2>5, <2>6, UnlockedTyped DEF HoldInv, ReadingsAgree
  <2>8. CASE queue' = queue /\ hold' = hold
    BY <1>1, <2>3, <2>5, <2>7, <2>8 DEF HoldInv, FirstWrite, HoldExact, Fresh
  <2>9. CASE WriteQueue(Filed(t, when))
    <3>1. GoodQueue(Filed(t, when))
      BY <1>0, <2>2, FiledIsGood
    <3> DEFINE q == Filed(t, when)
    <3>2. WriteQueue(q)  BY <2>9
    <3> HIDE DEF q, t, when
    <3>3. FirstWrite' /\ HoldExact'
      BY <1>1, <2>3, <2>5, <3>1, <3>2, WriteHolds DEF q
    <3>4. QED  BY <2>7, <3>3 DEF HoldInv
  <2>10. QED
    BY <2>1, <2>8, <2>9 DEF TriggerPrompts
<1>4. QED  BY <1>2, <1>3

LEMMA RunNowHolds ==
  ASSUME ~ Races, TimerInv, HoldInv, NEW t \in Timers, NEW k \in Keys, RunNow(t, k)
  PROVE  HoldInv'
PROOF
<1>0. GoodQueue(queue)
  BY DEF TimerInv
<1>1. /\ section = Unlocked /\ reading = NoFile /\ timerFile.timers[t] # NoTimer /\ timerFile \in FileT
      /\ UNCHANGED <<timerFile, copy, reading, stage, armed, checking>> /\ k \in Whens
      /\ Scheduled(timerFile)
  BY GoodFileTyped DEF RunNow, Unraced, Attached, TimerInv, FilesGood, Whens
<1>2. ~ Fresh
  BY <1>1, NotFresh
<1>3. CASE \A p \in Batch(t, k) : Exists(p)
  <2>1. UNCHANGED <<queue, hold, section>>
    BY <1>3 DEF RunNow
  <2>2. QED
    BY <1>1, <1>2, <2>1 DEF HoldInv, ReadingsAgree, FirstWrite, HoldExact, Fresh
<1>4. CASE ~ \A p \in Batch(t, k) : Exists(p)
  <2> DEFINE value == [timerFile.timers[t] EXCEPT !.last = "queued", !.lastAt = k]
             q == Filed(t, k)
  <2>1. /\ WriteQueue(q) /\ section'.who = "run"
        /\ section'.next = [rev |-> timerFile.rev + 1, timers |-> [timerFile.timers EXCEPT ![t] = value]]
    BY <1>4 DEF RunNow, Moved
  <2>2. GoodQueue(q)
    BY <1>0, <1>1, FiledIsGood
  <2>3. section'.next.rev # 0
    <3>1. timerFile.rev \in Nat  BY <1>1 DEF FileT
    <3>2. QED  BY <2>1, <3>1
  <2>4. value.on = timerFile.timers[t].on
    BY <1>1, RunTyped
  <2> HIDE DEF value, q
  <2>5. SameOn(section'.next, timerFile)
    BY <1>1, <2>1, <2>4 DEF SameOn, FileT
  <2>6. ReadingsAgree'
    BY <1>1, <2>1, <2>5, UnlockedTyped DEF HoldInv, ReadingsAgree
  <2>7. FirstWrite' /\ HoldExact'
    BY <1>1, <1>2, <2>1, <2>2, <2>3, WriteHolds
  <2>8. QED  BY <2>6, <2>7 DEF HoldInv
<1>5. QED  BY <1>3, <1>4

LEMMA SectionHolds ==
  ASSUME TimerInv, HoldInv, SectionEnds
  PROVE  HoldInv'
PROOF
<1>0. ServiceTyped
  BY DEF TimerInv
<1>1. /\ section # Unlocked /\ timerFile' = section.next /\ copy' = section.next
      /\ section' = Unlocked /\ (armed' => stage # "off")
      /\ UNCHANGED <<queue, reading, hold, stage, checking>>
  BY DEF SectionEnds, Remember
<1>2. section.next \in FileT /\ timerFile \in FileT /\ section.next # NoFile /\ timerFile # NoFile
  BY <1>0, <1>1, NoFileIsNone DEF ServiceTyped
<1>3. section.next.rev # 0
  BY <1>1 DEF HoldInv, FirstWrite
<1>4. reading # NoFile => SameOn(reading, section.next)
  <2>1. section.who \in {"trigger", "run"}
    BY <1>0, <1>1 DEF ServiceTyped, LockT
  <2>2. QED  BY <2>1 DEF HoldInv, ReadingsAgree, SameOn
<1>5. ReadingsAgree'
  BY <1>1, <1>2, <1>4, UnlockedTyped DEF HoldInv, ReadingsAgree, SameOn
<1>6. FirstWrite' /\ HoldExact'
  BY <1>1, <1>2, <1>3 DEF HoldInv, FirstWrite, HoldExact, Fresh
<1>7. QED  BY <1>5, <1>6 DEF HoldInv

LEMMA StartHolds ==
  ASSUME ~ Races, TimerInv, HoldInv, StartReads \/ StartWrites
  PROVE  HoldInv'
PROOF
<1>0. GoodQueue(queue) /\ ServiceTyped
  BY DEF TimerInv
<1>1. CASE StartReads
  <2>1. /\ timerFile # NoFile /\ stage = "off" /\ stage' \in {"read", "done"}
        /\ (stage' = "done" => Fresh)
        /\ UNCHANGED <<timerFile, copy, queue, section, checking, armed, hold>>
        /\ reading' \in {reading, timerFile}
    BY <1>1 DEF StartReads, Fresh
  <2>2. section.who # "trigger"
    BY <1>0, <2>1 DEF HoldInv, ReadingsAgree, ServiceTyped
  <2>3. ReadingsAgree'
    BY <2>1, <2>2 DEF HoldInv, ReadingsAgree, SameOn
  <2>4. FirstWrite'
    BY <2>1 DEF HoldInv, FirstWrite, Fresh
  <2>5. HoldExact'
    BY <1>0, <2>1, HeldOf DEF HoldInv, FirstWrite, HoldExact
  <2>6. QED  BY <2>3, <2>4, <2>5 DEF HoldInv
<1>2. CASE StartWrites
  <2> DEFINE file == Normalised(reading)
  <2>1. /\ stage = "read" /\ section = Unlocked /\ reading' = NoFile /\ stage' = "done"
        /\ timerFile' = (IF file = reading THEN timerFile ELSE file) /\ copy' = file
        /\ hold' = Held(queue) /\ UNCHANGED <<queue, section, checking>>
    BY <1>2 DEF StartWrites
  <2>2. reading # NoFile /\ reading \in FileT /\ GoodFile(reading, queue)
    BY <1>0, <2>1, GoodFileTyped DEF TimerInv, FilesGood, ServiceTyped
  <2>3. file = reading \/ (file.rev = reading.rev + 1)
    BY DEF Normalised
  <2>4. file # NoFile
    <3>1. reading.rev \in Nat /\ NoFile.rev = -1
      BY <2>2 DEF FileT, NoFile
    <3>2. QED  BY <2>2, <2>3, <3>1
  <2> HIDE DEF file
  <2>5. timerFile # NoFile /\ SameOn(reading, timerFile)
    BY <2>2 DEF HoldInv, ReadingsAgree
  <2>6. ReadingsAgree'
    BY <2>1, <2>4, <2>5, UnlockedTyped DEF HoldInv, ReadingsAgree, SameOn
  <2>7. Fresh' => Fresh /\ timerFile' = timerFile
    <3>1. reading.rev \in Nat  BY <2>2 DEF FileT
    <3>2. QED  BY <2>1, <2>3, <2>5, <3>1 DEF Fresh
  <2>8. Fresh' => hold' = {}
    BY <1>0, <2>1, <2>7, HeldOf DEF HoldInv, FirstWrite
  <2>9. FirstWrite' /\ HoldExact'
    BY <2>1, <2>4, <2>7, <2>8 DEF HoldInv, FirstWrite, HoldExact
  <2>10. QED  BY <2>6, <2>9 DEF HoldInv
<1>3. QED  BY <1>1, <1>2

LEMMA RestartHolds ==
  ASSUME TimerInv, HoldInv, TimerRestart
  PROVE  HoldInv'
PROOF
<1>1. /\ copy' = NoFile /\ section' = Unlocked /\ ~ checking' /\ ~ armed' /\ reading' = NoFile
      /\ stage' = "off" /\ hold' = {}
  BY DEF TimerRestart
<1>2. Fresh' => /\ Fresh /\ timerFile'.timers = timerFile.timers
                /\ \A t \in Timers : timerFile'.timers[t] = NoTimer
  <2>1. SUFFICES ASSUME Fresh' PROVE /\ Fresh
                                     /\ timerFile'.timers = timerFile.timers
                                     /\ \A t \in Timers : timerFile'.timers[t] = NoTimer
    OBVIOUS
  <2>2. timerFile # NoFile
    BY <2>1 DEF Fresh, TimerRestart
  <2>3. timerFile \in FileT
    BY <2>2, GoodFileTyped DEF TimerInv, FilesGood
  <2>4. PICK S \in {{}, Timers} :
          timerFile' = [timerFile EXCEPT !.timers = [t \in Timers |->
                         IF t \in S /\ @[t] # NoTimer THEN [@[t] EXCEPT !.stale = TRUE] ELSE @[t]]]
    BY <2>2 DEF TimerRestart
  <2> DEFINE marked == [t \in Timers |->
               IF t \in S /\ timerFile.timers[t] # NoTimer
               THEN [timerFile.timers[t] EXCEPT !.stale = TRUE] ELSE timerFile.timers[t]]
  <2>5. timerFile' = [timerFile EXCEPT !.timers = marked]
    BY <2>4
  <2>6. Fresh
    <3> HIDE DEF marked
    <3>1. timerFile'.rev = timerFile.rev  BY <2>3, <2>5 DEF FileT
    <3>2. QED  BY <2>1, <2>2, <3>1 DEF Fresh
  <2>7. \A t \in Timers : timerFile.timers[t] = NoTimer
    BY <2>6 DEF HoldInv, FirstWrite
  <2>8. marked = [t \in Timers |-> timerFile.timers[t]]
    BY <2>7
  <2>9. marked = timerFile.timers
    BY <2>3, <2>8 DEF FileT
  <2> HIDE DEF marked
  <2>10. timerFile'.timers = marked
    BY <2>3, <2>5 DEF FileT
  <2>11. QED  BY <2>6, <2>7, <2>9, <2>10
<1>3. \A p \in Filings : queue[p].status = "none" => queue'[p].status = "none"
  BY ServiceRewrites, Zenon DEF Rewrites, Onward
<1>4. ReadingsAgree'
  BY <1>1, UnlockedTyped DEF ReadingsAgree
<1>5. FirstWrite' /\ HoldExact'
  BY <1>1, <1>2, <1>3 DEF HoldInv, FirstWrite, HoldExact
<1>6. QED  BY <1>4, <1>5 DEF HoldInv

LEMMA FileHolds ==
  ASSUME ~ Races, TimerInv, HoldInv,
         \/ ReadLands \/ PageReads \/ CheckDue \/ CheckOver \/ Tick \/ UNCHANGED timerVars
         \/ \E ok \in BOOLEAN : DeleteEnds(ok)
  PROVE  HoldInv'
PROOF
<1>1. CASE ReadLands
  <2>1. reading # NoFile /\ copy' = reading /\ reading' = NoFile /\ (armed' => stage # "off")
        /\ UNCHANGED <<timerFile, queue, section, hold, checking, stage>>
    BY <1>1 DEF ReadLands, Remember
  <2>2. QED  BY <2>1 DEF HoldInv, ReadingsAgree, FirstWrite, HoldExact, Fresh
<1>2. CASE PageReads
  <2>1. /\ section = Unlocked /\ timerFile # NoFile /\ reading' = timerFile
        /\ UNCHANGED <<timerFile, copy, queue, section, checking, armed, hold, stage>>
    BY <1>2 DEF PageReads, Attached
  <2>2. QED  BY <2>1, UnlockedTyped DEF HoldInv, ReadingsAgree, FirstWrite, HoldExact, Fresh, SameOn
<1>3. CASE CheckDue \/ CheckOver \/ Tick \/ UNCHANGED timerVars
  <2>1. /\ UNCHANGED <<timerFile, copy, queue, section, reading, hold, stage>>
        /\ armed' \/ checking' => armed \/ checking
    <3>1. CASE CheckDue  BY <3>1 DEF CheckDue
    <3>2. CASE CheckOver  BY <3>2 DEF CheckOver, CheckEnds
    <3>3. CASE Tick \/ UNCHANGED timerVars  BY <3>3 DEF Tick, timerVars
    <3>4. QED  BY <1>3, <3>1, <3>2, <3>3
  <2>2. QED  BY <2>1 DEF HoldInv, ReadingsAgree, FirstWrite, HoldExact, Fresh
<1>4. ASSUME NEW ok \in BOOLEAN, DeleteEnds(ok) PROVE HoldInv'
  <2>1. /\ section = Unlocked /\ reading = NoFile /\ timerFile # NoFile
        /\ UNCHANGED <<queue, section, checking, reading, stage>>
    BY <1>4 DEF DeleteEnds, DetachWaits, Unraced
  <2>2. CASE ok
    <3>1. timerFile' = NoFile /\ ~ armed'
      BY <1>4, <2>2 DEF DeleteEnds
    <3>2. ~ Fresh'
      BY <3>1 DEF Fresh
    <3>3. QED  BY <2>1, <3>1, <3>2, UnlockedTyped DEF HoldInv, ReadingsAgree, FirstWrite, HoldExact
  <2>3. CASE ~ ok
    <3>1. /\ UNCHANGED <<timerFile, hold>> /\ (armed' => stage # "off")
          /\ copy' = (IF timerFile.rev # 0 THEN timerFile ELSE NoFile)
      BY <1>4, <2>3 DEF DeleteEnds
    <3>2. ReadingsAgree'
      BY <2>1, <3>1, UnlockedTyped DEF HoldInv, ReadingsAgree, SameOn
    <3>3. FirstWrite' /\ HoldExact'
      BY <2>1, <3>1 DEF HoldInv, FirstWrite, HoldExact, Fresh
    <3>4. QED  BY <3>2, <3>3 DEF HoldInv
  <2>4. QED  BY <2>2, <2>3
<1>5. QED  BY <1>1, <1>2, <1>3, <1>4

LEMMA HoldInvInit ==
  ASSUME TimerInit
  PROVE  HoldInv
PROOF
<1>1. \A t \in Timers : timerFile.timers[t] = NoTimer
  BY DEF TimerInit
<1>2. \A p \in Filings : queue[p].status = "none"
  BY DEF TimerInit, Absent
<1>3. Fresh
  <2>1. timerFile.rev = 0 /\ NoFile.rev = -1  BY DEF TimerInit, NoFile
  <2>2. QED  BY <2>1 DEF Fresh
<1>4. QED
  BY <1>1, <1>2, <1>3, UnlockedTyped DEF TimerInit, HoldInv, ReadingsAgree, FirstWrite, HoldExact

LEMMA HoldInvNext ==
  ASSUME ~ Races, TimerInv, HoldInv, [TimerNext]_timerVars
  PROVE  HoldInv'
PROOF
<1>1. CASE UNCHANGED timerVars
  BY <1>1, FileHolds
<1>2. CASE TimerSystem
  BY <1>2, FileHolds, TriggerHolds, SectionHolds, RunnerHolds, RecoverHolds, StartHolds DEF TimerSystem
<1>3. CASE TimerUser
  BY <1>3, DialogHolds, RunNowHolds, FileHolds, RunnerHolds, RestartHolds DEF TimerUser
<1>4. QED  BY <1>1, <1>2, <1>3 DEF TimerNext

LEMMA HoldFollows == TimerInv /\ HoldInv => HoldCovers
PROOF
<1>1. SUFFICES ASSUME TimerInv, HoldInv, stage = "done", section = Unlocked, timerFile # NoFile
               PROVE  (Enabled(timerFile) => Enabled(copy)) /\ Held(queue) = hold
  BY DEF HoldCovers
<1>2. Held(queue) = hold
  BY <1>1 DEF HoldInv, HoldExact
<1>3. ASSUME Enabled(timerFile) PROVE Enabled(copy)
  <2>1. timerFile \in FileT /\ DOMAIN timerFile.timers = Timers
    BY <1>1, GoodFileTyped DEF TimerInv, FilesGood, FileT
  <2>2. PICK t \in Timers : timerFile.timers[t].on
    BY <1>3, <2>1 DEF Enabled
  <2>3. timerFile.timers[t] # NoTimer
    BY <2>2, NoTimerTyped
  <2>4. copy # NoFile
    BY <1>1, <2>3, NotFresh DEF HoldInv, FirstWrite
  <2>5. DOMAIN copy.timers = Timers
    BY <1>1, <2>4, GoodFileTyped DEF TimerInv, FilesGood, FileT
  <2>6. copy.timers[t].on
    BY <1>1, <2>2, <2>4 DEF HoldInv, ReadingsAgree, SameOn
  <2>7. QED  BY <2>5, <2>6 DEF Enabled
<1>4. QED  BY <1>2, <1>3

\* Where no page reads or writes the timers while the service reads them without the lock:
\* a timer that is on has its next moment, what a timer says it queued is in the queue, and
\* the host stays up for exactly the prompts that need it, in every state between steps.
THEOREM OccurrencesStayKept == ~ Races => (TimerSpec => []OccurrencesKept)
PROOF
<1>1. SUFFICES ASSUME ~ Races PROVE TimerSpec => []OccurrencesKept
  OBVIOUS
<1>2. TimerInit => HoldInv
  BY HoldInvInit
<1>3. TimerInv /\ HoldInv /\ [TimerNext]_timerVars => HoldInv'
  BY <1>1, HoldInvNext
<1>4. TimerInv /\ HoldInv => OccurrencesKept
  BY TypesFollow, HoldFollows DEF OccurrencesKept
<1>5. QED  BY <1>2, <1>3, <1>4, TimerInvAlways, PTL DEF TimerSpec
=============================================================================
