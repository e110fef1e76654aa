---------------------------- MODULE TabFilesProofs ----------------------------
(***************************************************************************)
(* What the locked sections preserve of the tab files: every file keeps    *)
(* its schema, and every prompt that was not deleted stays in the queue's  *)
(* order, so that a choice "first of the queue" always finds a prompt.     *)
(***************************************************************************)
EXTENDS TabFiles, SequenceTheorems, WellFoundedInduction, TLAPS

OrderCovers(files) == \A p \in Prompts : Present(files, p) => p \in ToSet(files.order)

FilesOK(files) == files \in TabRecord /\ OrderCovers(files)

-----------------------------------------------------------------------------
(* Minima, maxima and sequences. *)

\* A non-empty set of naturals has a least element, and Min is that element.
LEMMA LeastElement ==
    ASSUME NEW S, S \subseteq Nat, S # {}
    PROVE  \E x \in S : \A y \in S : x =< y
<1> DEFINE less == OpToRel(<, Nat)
<1>1. less = {ss \in Nat \X Nat : ss[1] < ss[2]}
  BY DEF OpToRel
<1>2. IsWellFoundedOn(less, Nat)
  BY NatLessThanWellFounded
<1> HIDE DEF less
<1>3. PICK x \in S : \A y \in S : ~(<<y, x>> \in less)
  BY <1>2, WFMin
<1>4. ASSUME NEW y \in S PROVE x =< y
  <2>1. x \in Nat /\ y \in Nat /\ <<y, x>> \in Nat \X Nat
    BY <1>3
  <2>2. ~(y < x)
    BY <1>1, <1>3, <2>1
  <2> QED
    BY <2>1, <2>2
<1> QED
  BY <1>3, <1>4

LEMMA MinIn ==
    ASSUME NEW S, S \subseteq Nat, S # {}
    PROVE  Min(S) \in S
BY LeastElement DEF Min

\* A non-empty set of numbers up to a bound has a greatest element.
LEMMA MaxIn ==
    ASSUME NEW n \in Nat, NEW S, S \subseteq 1..n, S # {}
    PROVE  Max(S) \in S
<1> DEFINE D == {n - x : x \in S}
<1>1. \A x \in S : x \in Nat /\ x =< n /\ n - x \in Nat
  OBVIOUS
<1>2. D \subseteq Nat /\ D # {}
  BY <1>1
<1>3. PICK d \in D : \A e \in D : d =< e
  BY <1>2, LeastElement
<1>4. PICK x \in S : d = n - x
  BY <1>3
<1>5. ASSUME NEW y \in S PROVE x >= y
  <2>1. d =< n - y /\ x \in Nat /\ y \in Nat
    BY <1>1, <1>3
  <2> QED
    BY <1>4, <2>1
<1> QED
  BY <1>5 DEF Max

\* The elements of a concatenation.
LEMMA ConcatElements ==
    ASSUME NEW T, NEW s \in Seq(T), NEW t \in Seq(T)
    PROVE  ToSet(s) \cup ToSet(t) \subseteq ToSet(s \o t)
<1>1. \A i \in 1..Len(s) : i \in DOMAIN (s \o t) /\ (s \o t)[i] = s[i]
  BY ConcatProperties, LenProperties
<1>2. \A i \in 1..Len(t) : i + Len(s) \in DOMAIN (s \o t) /\ (s \o t)[i + Len(s)] = t[i]
  BY ConcatProperties, LenProperties
<1> QED
  BY <1>1, <1>2, LenProperties DEF ToSet

\* The elements of a part of a sequence.
LEMMA PartElements ==
    ASSUME NEW T, NEW s \in Seq(T), NEW m \in 1..Len(s)+1, NEW n \in 0..Len(s)
    PROVE  /\ SubSeq(s, m, n) \in Seq(T)
           /\ \A i \in m..n : s[i] \in ToSet(SubSeq(s, m, n))
<1>1. m \in Int /\ n \in Int /\ m >= 1 /\ n =< Len(s) /\ Len(s) \in Nat
  BY LenProperties
<1>2. \A i \in m..n : s[i] \in T
  BY <1>1, ElementOfSeq
<1>3. SubSeq(s, m, n) \in Seq(T)
  BY <1>1, <1>2, SubSeqProperties
<1>4. ASSUME NEW i \in m..n PROVE s[i] \in ToSet(SubSeq(s, m, n))
  <2> DEFINE j == i - m + 1
  <2>1. j \in 1..n-m+1 /\ m <= n
    BY <1>1
  <2>2. Len(SubSeq(s, m, n)) = n-m+1 /\ SubSeq(s, m, n)[j] = s[m+j-1]
    BY <1>1, <1>2, <2>1, SubSeqProperties
  <2>3. DOMAIN SubSeq(s, m, n) = 1..n-m+1
    BY <1>3, <2>2, LenProperties
  <2>4. m+j-1 = i
    BY <1>1
  <2> QED
    BY <2>1, <2>2, <2>3, <2>4 DEF ToSet
<1> QED
  BY <1>3, <1>4

LEMMA RemoveElements ==
    ASSUME NEW T, NEW s \in Seq(T), NEW i \in 1..Len(s)
    PROVE  /\ RemoveAt(s, i) \in Seq(T)
           /\ ToSet(s) \subseteq ToSet(RemoveAt(s, i)) \cup {s[i]}
<1> DEFINE a == SubSeq(s, 1, i-1)  b == SubSeq(s, i+1, Len(s))
<1>1. /\ Len(s) \in Nat /\ DOMAIN s = 1..Len(s)
      /\ i-1 \in 0..Len(s) /\ i+1 \in 1..Len(s)+1 /\ 1 \in 1..Len(s)+1 /\ Len(s) \in 0..Len(s)
  BY LenProperties
<1>2. a \in Seq(T) /\ \A j \in 1..i-1 : s[j] \in ToSet(a)
  BY <1>1, PartElements
<1>3. b \in Seq(T) /\ \A j \in i+1..Len(s) : s[j] \in ToSet(b)
  BY <1>1, PartElements
<1>4. a \o b \in Seq(T) /\ ToSet(a) \cup ToSet(b) \subseteq ToSet(a \o b)
  BY <1>2, <1>3, ConcatElements, ConcatProperties
<1>5. \A j \in 1..Len(s) : j \in 1..i-1 \/ j = i \/ j \in i+1..Len(s)
  BY <1>1
<1> HIDE DEF a, b
<1>6. ToSet(s) \subseteq ToSet(a \o b) \cup {s[i]}
  BY <1>1, <1>2, <1>3, <1>4, <1>5 DEF ToSet
<1> QED
  BY <1>4, <1>6 DEF RemoveAt, a, b

LEMMA InsertElements ==
    ASSUME NEW T, NEW s \in Seq(T), NEW i \in 1..Len(s)+1, NEW e \in T
    PROVE  /\ InsertAt(s, i, e) \in Seq(T)
           /\ ToSet(s) \cup {e} \subseteq ToSet(InsertAt(s, i, e))
<1> DEFINE a == SubSeq(s, 1, i-1)  b == SubSeq(s, i, Len(s))
<1>1. /\ Len(s) \in Nat /\ DOMAIN s = 1..Len(s)
      /\ i-1 \in 0..Len(s) /\ 1 \in 1..Len(s)+1 /\ Len(s) \in 0..Len(s)
  BY LenProperties
<1>2. a \in Seq(T) /\ \A j \in 1..i-1 : s[j] \in ToSet(a)
  BY <1>1, PartElements
<1>3. b \in Seq(T) /\ \A j \in i..Len(s) : s[j] \in ToSet(b)
  BY <1>1, PartElements
<1>4. <<e>> \in Seq(T) /\ e \in ToSet(<<e>>)
  BY DEF ToSet
<1> HIDE DEF a, b
<1>5. a \o <<e>> \in Seq(T) /\ ToSet(a) \cup ToSet(<<e>>) \subseteq ToSet(a \o <<e>>)
  BY <1>2, <1>4, ConcatElements, ConcatProperties
<1>6. (a \o <<e>>) \o b \in Seq(T) /\ ToSet(a \o <<e>>) \cup ToSet(b) \subseteq ToSet((a \o <<e>>) \o b)
  BY <1>3, <1>5, ConcatElements, ConcatProperties
<1>7. \A j \in 1..Len(s) : j \in 1..i-1 \/ j \in i..Len(s)
  BY <1>1
<1>8. ToSet(s) \cup {e} \subseteq ToSet((a \o <<e>>) \o b)
  BY <1>1, <1>2, <1>3, <1>4, <1>5, <1>6, <1>7 DEF ToSet
<1> QED
  BY <1>6, <1>8 DEF InsertAt, a, b

LEMMA AppendElements ==
    ASSUME NEW T, NEW s \in Seq(T), NEW e \in T
    PROVE  /\ Append(s, e) \in Seq(T)
           /\ ToSet(s) \cup {e} \subseteq ToSet(Append(s, e))
<1>1. /\ Append(s, e) \in Seq(T) /\ Len(Append(s, e)) = Len(s) + 1 /\ Len(s) \in Nat
      /\ \A i \in 1..Len(s) : Append(s, e)[i] = s[i]
      /\ Append(s, e)[Len(s)+1] = e
  BY AppendProperties, LenProperties
<1>2. DOMAIN s = 1..Len(s) /\ DOMAIN Append(s, e) = 1..Len(s)+1
  BY <1>1, LenProperties
<1> QED
  BY <1>1, <1>2 DEF ToSet

-----------------------------------------------------------------------------
(* Choosing from the order. *)

LEMMA OrderProperties ==
    ASSUME NEW files, FilesOK(files)
    PROVE  /\ files.order \in Seq(Prompts)
           /\ Len(files.order) \in Nat
           /\ DOMAIN files.order = 1..Len(files.order)
           /\ \A i \in DOMAIN files.order : files.order[i] \in Prompts
BY LenProperties, ElementOfSeq DEF FilesOK, TabRecord

LEMMA FirstOfIn ==
    ASSUME NEW files, FilesOK(files), NEW S, S \cap ToSet(files.order) # {}
    PROVE  FirstOf(files, S) \in S /\ FirstOf(files, S) \in Prompts
<1> DEFINE at == {i \in DOMAIN files.order : files.order[i] \in S}
<1>1. at \subseteq Nat /\ at # {}
  BY OrderProperties DEF ToSet
<1>2. Min(at) \in at
  BY <1>1, MinIn
<1> QED
  BY <1>2, OrderProperties DEF FirstOf

\* an index at which p stands, and the order without it
LEMMA WithoutElements ==
    ASSUME NEW files, FilesOK(files), NEW p \in ToSet(files.order)
    PROVE  /\ Without(files, p) \in Seq(Prompts)
           /\ ToSet(files.order) \subseteq ToSet(Without(files, p)) \cup {p}
<1> DEFINE at == {i \in DOMAIN files.order : files.order[i] = p}
<1>1. at \subseteq Nat /\ at # {}
  BY OrderProperties DEF ToSet
<1>2. Min(at) \in at
  BY <1>1, MinIn
<1>3. Min(at) \in 1..Len(files.order) /\ files.order[Min(at)] = p
  BY <1>2, OrderProperties
<1>4. Without(files, p) = RemoveAt(files.order, Min(at))
  BY DEF Without
<1> HIDE DEF at
<1>5. /\ RemoveAt(files.order, Min(at)) \in Seq(Prompts)
      /\ ToSet(files.order) \subseteq ToSet(RemoveAt(files.order, Min(at))) \cup {files.order[Min(at)]}
  BY <1>3, OrderProperties, RemoveElements
<1> QED
  BY <1>3, <1>4, <1>5

LEMMA OpenerIn ==
    ASSUME NEW files, FilesOK(files), NEW S, S \subseteq {p \in Prompts : Present(files, p)},
           NEW default \in Prompts \cup {NoPrompt}
    PROVE  Opener(files, S, default) \in S \cup {default}
<1> DEFINE own == {p \in S : ~files.prompts[p].steered}
<1>1. CASE own = {}
  BY <1>1 DEF Opener
<1>2. CASE own # {}
  <2>1. own \cap ToSet(files.order) # {}
    BY <1>2 DEF FilesOK, OrderCovers
  <2>2. FirstOf(files, own) \in own
    BY <2>1, FirstOfIn
  <2> QED
    BY <1>2, <2>2 DEF Opener
<1> QED
  BY <1>1, <1>2

-----------------------------------------------------------------------------
(* The schema of the files in four parts. *)

LEMMA FilesTyped ==
    ASSUME NEW files, FilesOK(files)
    PROVE  /\ files.prompts \in [Prompts -> PromptRecord]
           /\ files.answers \in [TurnIds -> AnswerRecord]
           /\ files.runner \in RunnerRecord
           /\ files.thread \in Threads \cup {NoThread}
           /\ files.clients \in Clients
BY DEF FilesOK, TabRecord

LEMMA NoTurnTyped == NoTurn \in TurnIds /\ NoClient \in Clients
BY FilesAssumption DEF NoTurn, TurnIds, NoClient, Clients

LEMMA PromptTyped ==
    ASSUME NEW files, FilesOK(files), NEW p \in Prompts
    PROVE  files.prompts[p] \in PromptRecord
BY FilesTyped

\* A section that changes the runner only.
LEMMA RunnerSection ==
    ASSUME NEW files, FilesOK(files), NEW runner \in RunnerRecord
    PROVE  FilesOK([files EXCEPT !.runner = runner])
BY DEF FilesOK, TabRecord, OrderCovers, Present

\* A section that changes one prompt, which is there already.
LEMMA PromptSection ==
    ASSUME NEW files, FilesOK(files), NEW p \in Prompts, Present(files, p), NEW r \in PromptRecord
    PROVE  FilesOK([files EXCEPT !.prompts[p] = r])
BY DEF FilesOK, TabRecord, OrderCovers, Present

\* A section that changes prompts and puts none in the queue.
LEMMA PromptsSection ==
    ASSUME NEW files, FilesOK(files), NEW prompts \in [Prompts -> PromptRecord],
           \A p \in Prompts : prompts[p].status \notin {"unused", "deleted"} => Present(files, p)
    PROVE  FilesOK([files EXCEPT !.prompts = prompts])
BY DEF FilesOK, TabRecord, OrderCovers, Present

LEMMA AnswersSection ==
    ASSUME NEW files, FilesOK(files), NEW answers \in [TurnIds -> AnswerRecord]
    PROVE  FilesOK([files EXCEPT !.answers = answers])
BY DEF FilesOK, TabRecord, OrderCovers, Present

LEMMA AnswerSection ==
    ASSUME NEW files, FilesOK(files), NEW t, NEW card \in AnswerRecord
    PROVE  FilesOK([files EXCEPT !.answers[t] = card])
BY DEF FilesOK, TabRecord, OrderCovers, Present

LEMMA ClearAutoOK ==
    ASSUME NEW files, FilesOK(files)
    PROVE  FilesOK(ClearAuto(files))
<1> DEFINE prompts == [p \in Prompts |-> [files.prompts[p] EXCEPT !.auto = FALSE]]
<1>1. \A p \in Prompts : [files.prompts[p] EXCEPT !.auto = FALSE] \in PromptRecord
  BY PromptTyped DEF PromptRecord
<1>2. \A p \in Prompts : prompts[p].status = files.prompts[p].status
  BY FilesTyped DEF PromptRecord
<1>3. \A p \in Prompts : p # NoPrompt
  BY FilesAssumption
<1> QED
  BY <1>1, <1>2, <1>3, PromptsSection DEF ClearAuto, Present

LEMMA SetRunnerStateOK ==
    ASSUME NEW files, FilesOK(files), NEW state \in RunnerState,
           NEW p \in Prompts \cup {NoPrompt}, NEW t \in TurnIds
    PROVE  FilesOK(SetRunnerState(files, state, p, t))
BY DEF FilesOK, TabRecord, OrderCovers, Present, SetRunnerState, RunnerRecord

LEMMA FailRunnerOK ==
    ASSUME NEW files, FilesOK(files)
    PROVE  FilesOK(FailRunner(files))
BY RunnerSection, NoTurnTyped DEF FailRunner, RunnerRecord, RunnerState

LEMMA PauseRunnerOK ==
    ASSUME NEW files, FilesOK(files)
    PROVE  FilesOK(PauseRunner(files)) /\ FilesOK(KeepGoing(files)) /\ FilesOK(Boot(files)) /\ FilesOK(Arm(files))
BY FilesAssumption DEF FilesOK, TabRecord, OrderCovers, Present, PauseRunner, RunnerRecord, RunnerState, KeepGoing, Boot, Arm, NoTurn, TurnIds

\* A section that numbers a new attempt.
LEMMA AttemptSection ==
    ASSUME NEW files, FilesOK(files), NEW c \in Clients,
           NEW p \in Prompts, Present(files, p), NEW r \in PromptRecord
    PROVE  FilesOK([files EXCEPT !.clients = c, !.prompts[p] = r])
BY DEF FilesOK, TabRecord, OrderCovers, Present

LEMMA NextClient ==
    ASSUME NEW files, FilesOK(files), files.clients < MaxClients
    PROVE  files.clients + 1 \in Clients
BY FilesAssumption, FilesTyped DEF Clients

LEMMA ReserveOK ==
    ASSUME NEW files, FilesOK(files), files.clients < MaxClients,
           NEW p \in Prompts, Present(files, p)
    PROVE  FilesOK(Reserve(files, p)) /\ Reserve(files, p).clients \in Clients
<1> DEFINE c == files.clients + 1
           r == [files.prompts[p] EXCEPT !.status = "dispatching", !.thread = files.thread,
                                         !.client = c, !.auto = FALSE]
<1>1. c \in Clients
  BY NextClient
<1>2. r \in PromptRecord
  <2>1. files.prompts[p] \in PromptRecord /\ files.thread \in Threads \cup {NoThread}
    BY PromptTyped, FilesTyped
  <2> QED
    BY <1>1, <2>1 DEF PromptRecord, PromptStatus
<1>3. Reserve(files, p) = [files EXCEPT !.clients = c, !.prompts[p] = r]
  BY DEF Reserve
<1>4. Reserve(files, p).clients = c
  BY <1>3 DEF FilesOK, TabRecord
<1> HIDE DEF c, r
<1>5. FilesOK([files EXCEPT !.clients = c, !.prompts[p] = r])
  BY <1>1, <1>2, AttemptSection
<1> QED
  BY <1>1, <1>3, <1>4, <1>5

LEMMA ReserveSteerOK ==
    ASSUME NEW files, FilesOK(files), files.clients < MaxClients,
           NEW p \in Prompts, Present(files, p),
           NEW thread \in Threads \cup {NoThread}, NEW t \in TurnIds
    PROVE  FilesOK(ReserveSteer(files, p, thread, t)) /\ ReserveSteer(files, p, thread, t).clients \in Clients
<1> DEFINE c == files.clients + 1
           r == [files.prompts[p] EXCEPT !.status = "dispatching", !.thread = thread, !.turn = t,
                                         !.client = c, !.steered = TRUE, !.auto = FALSE]
<1>1. c \in Clients
  BY NextClient
<1>2. r \in PromptRecord
  <2>1. files.prompts[p] \in PromptRecord
    BY PromptTyped
  <2> QED
    BY <1>1, <2>1 DEF PromptRecord, PromptStatus
<1>3. ReserveSteer(files, p, thread, t) = [files EXCEPT !.clients = c, !.prompts[p] = r]
  BY DEF ReserveSteer
<1>4. ReserveSteer(files, p, thread, t).clients = c
  BY <1>3 DEF FilesOK, TabRecord
<1> HIDE DEF c, r
<1>5. FilesOK([files EXCEPT !.clients = c, !.prompts[p] = r])
  BY <1>1, <1>2, AttemptSection
<1> QED
  BY <1>1, <1>3, <1>4, <1>5

\* A prompt's attempt moves to another status, or is linked to a turn.
LEMMA StatusOK ==
    ASSUME NEW files, FilesOK(files), NEW p \in Prompts, NEW status \in PromptStatus, Present(files, p)
    PROVE  FilesOK([files EXCEPT !.prompts[p].status = status])
<1>1. files.prompts[p] \in PromptRecord
  BY PromptTyped
<1>2. [files.prompts[p] EXCEPT !.status = status] \in PromptRecord
  BY <1>1 DEF PromptRecord
<1> QED
  BY <1>2, PromptSection

LEMMA SteeredOK ==
    ASSUME NEW files, FilesOK(files), NEW p \in Prompts \cup {NoPrompt}, NEW c
    PROVE  FilesOK(Steered(files, p, c))
BY StatusOK DEF Steered, Present, PromptStatus

LEMMA RelinkOK ==
    ASSUME NEW files, FilesOK(files), NEW p \in Prompts, Present(files, p), NEW status \in PromptStatus,
           NEW thread \in Threads \cup {NoThread}, NEW turn \in TurnIds, NEW steered \in BOOLEAN
    PROVE  FilesOK([files EXCEPT !.prompts[p] = [@ EXCEPT !.status = status, !.thread = thread,
                                                          !.turn = turn, !.steered = steered]])
<1> DEFINE r == [files.prompts[p] EXCEPT !.status = status, !.thread = thread,
                                         !.turn = turn, !.steered = steered]
<1>1. files.prompts[p] \in PromptRecord
  BY PromptTyped
<1>2. r \in PromptRecord
  BY <1>1 DEF PromptRecord
<1> QED
  BY <1>2, PromptSection

LEMMA UndoSteerOK ==
    ASSUME NEW files, FilesOK(files), NEW p \in Prompts \cup {NoPrompt}, NEW c,
           NEW prev \in [thread : Threads \cup {NoThread}, turn : TurnIds, client : Clients, steered : BOOLEAN]
    PROVE  FilesOK(UndoSteer(files, p, c, prev))
<1> DEFINE r == [files.prompts[p] EXCEPT !.status = "pending", !.thread = prev.thread,
                                     !.turn = prev.turn, !.client = prev.client,
                                     !.steered = prev.steered]
<1>1. CASE Present(files, p)
  <2>0. p \in Prompts /\ files.prompts[p] \in PromptRecord
    BY <1>1, FilesTyped DEF Present
  <2>1. r \in PromptRecord
    BY <2>0 DEF PromptRecord, PromptStatus
  <2> QED
    BY <1>1, <2>0, <2>1, PromptSection DEF UndoSteer
<1> QED
  BY <1>1 DEF UndoSteer

LEMMA AcceptedOK ==
    ASSUME NEW files, FilesOK(files), NEW p \in Prompts \cup {NoPrompt},
           NEW thread \in Threads \cup {NoThread}, NEW t \in TurnIds
    PROVE  FilesOK(Accepted(files, p, thread, t))
BY RelinkOK DEF Accepted, Present, PromptStatus

\* The cards.
LEMMA CardOK ==
    ASSUME NEW status \in AnswerStatus, NEW p \in Prompts \cup {NoPrompt}
    PROVE  Card(status, p) \in AnswerRecord /\ NoAnswer \in AnswerRecord
BY DEF Card, AnswerRecord, NoAnswer, AnswerStatus

LEMMA DropCardOK ==
    ASSUME NEW card \in AnswerRecord
    PROVE  DropCard(card) \in AnswerRecord
BY DEF DropCard, AnswerRecord, NoAnswer, AnswerStatus

LEMMA CompleteSlashOK ==
    ASSUME NEW files, FilesOK(files), NEW p \in Prompts \cup {NoPrompt}, NEW t \in TurnIds
    PROVE  FilesOK(CompleteSlash(files, p, t))
<1> DEFINE r == [files.prompts[p] EXCEPT !.status = "completed", !.turn = IF t # NoTurn THEN t ELSE @]
           answers == [u \in TurnIds |->
                IF files.answers[u].prompt = p THEN DropCard(files.answers[u]) ELSE files.answers[u]]
<1>1. CASE Present(files, p) /\ p \in SlashPrompts
  <2>0. p \in Prompts /\ files.prompts[p] \in PromptRecord
    BY <1>1, FilesTyped DEF Present
  <2>1. r \in PromptRecord
    BY <2>0 DEF PromptRecord, PromptStatus
  <2>2. answers \in [TurnIds -> AnswerRecord]
    BY DropCardOK, FilesTyped
  <2>3. FilesOK([files EXCEPT !.prompts[p] = r])
    BY <1>1, <2>0, <2>1, PromptSection
  <2>4. FilesOK([[files EXCEPT !.prompts[p] = r] EXCEPT !.answers = answers])
    BY <2>2, <2>3, AnswersSection
  <2> QED
    BY <1>1, <2>4 DEF CompleteSlash
<1> QED
  BY <1>1 DEF CompleteSlash

LEMMA MarkFailureOK ==
    ASSUME NEW files, FilesOK(files), NEW p \in Prompts \cup {NoPrompt}, NEW t \in TurnIds
    PROVE  FilesOK(MarkFailure(files, p, t))
<1> DEFINE marked == [files EXCEPT !.prompts[p].status = "failed"]
           old == files.answers[t]
           card == IF t = NoTurn \/ files.prompts[p].thread = NoThread THEN old
                   ELSE Card("failed", IF old = NoAnswer THEN p ELSE old.prompt)
<1>1. CASE Present(files, p)
  <2>1. p \in Prompts
    BY <1>1 DEF Present
  <2>2. FilesOK(marked)
    BY <1>1, <2>1, StatusOK DEF PromptStatus
  <2>3. old \in AnswerRecord /\ old.prompt \in Prompts \cup {NoPrompt}
    BY FilesTyped DEF AnswerRecord
  <2>4. card \in AnswerRecord
    BY <2>1, <2>3, CardOK DEF AnswerStatus
  <2>5. marked.answers = files.answers
    BY DEF FilesOK, TabRecord
  <2>6. MarkFailure(files, p, t) = [marked EXCEPT !.answers[t] = card]
    BY <1>1, <2>5 DEF MarkFailure
  <2> HIDE DEF marked, card
  <2>7. FilesOK([marked EXCEPT !.answers[t] = card])
    BY <2>2, <2>4, AnswerSection
  <2> QED
    BY <2>6, <2>7
<1> QED
  BY <1>1 DEF MarkFailure

LEMMA MarkLocalTurnOK ==
    ASSUME NEW files, FilesOK(files), NEW p \in Prompts \cup {NoPrompt}, NEW c \in Clients
    PROVE  FilesOK(MarkLocalTurn(files, p, c)) /\ LocalTurn(c) \in TurnIds
<1>1. LocalTurn(c) \in TurnIds
  BY FilesAssumption DEF LocalTurn, TurnIds, Clients
<1> DEFINE t == LocalTurn(c)
           r == [files.prompts[p] EXCEPT !.turn = t, !.steered = FALSE]
<1> HIDE DEF t
<1>2. CASE Present(files, p) /\ files.prompts[p].client = c /\ files.prompts[p].status = "dispatching"
  <2>1. p \in Prompts /\ files.prompts[p] \in PromptRecord
    BY <1>2, PromptTyped DEF Present
  <2>2. r \in PromptRecord
    BY <1>1, <2>1 DEF PromptRecord, t
  <2>3. FilesOK([files EXCEPT !.prompts[p] = r])
    BY <1>2, <2>1, <2>2, PromptSection
  <2>4. MarkLocalTurn(files, p, c) = [files EXCEPT !.prompts[p] = r]
    BY <1>2, <2>1 DEF MarkLocalTurn, t, FilesOK, TabRecord
  <2> QED
    BY <1>1, <2>3, <2>4
<1> QED
  BY <1>1, <1>2 DEF MarkLocalTurn

LEMMA ClearAutoOfOK ==
    ASSUME NEW files, FilesOK(files), NEW S
    PROVE  FilesOK(ClearAutoOf(files, S))
<1> DEFINE prompts == [p \in Prompts |->
        IF p \in S THEN [files.prompts[p] EXCEPT !.auto = FALSE] ELSE files.prompts[p]]
<1>1. \A p \in Prompts : [files.prompts[p] EXCEPT !.auto = FALSE] \in PromptRecord
  BY PromptTyped DEF PromptRecord
<1>2. \A p \in Prompts : prompts[p].status = files.prompts[p].status
  BY FilesTyped DEF PromptRecord
<1>3. \A p \in Prompts : p # NoPrompt
  BY FilesAssumption
<1>4. prompts \in [Prompts -> PromptRecord]
  BY <1>1, PromptTyped
<1> QED
  BY <1>2, <1>3, <1>4, PromptsSection DEF ClearAutoOf, Present

LEMMA PauseAfterFailureOK ==
    ASSUME NEW files, FilesOK(files)
    PROVE  FilesOK(PauseAfterFailure(files))
<1> DEFINE cleared == ClearAuto(files)
<1>1. FilesOK(cleared)
  BY ClearAutoOK
<1> HIDE DEF cleared
<1>2. FilesOK([cleared EXCEPT !.runner.desired = "paused", !.runner.state = "error",
                              !.runner.activePrompt = NoPrompt, !.runner.activeTurn = NoTurn])
  BY <1>1, NoTurnTyped DEF FilesOK, TabRecord, OrderCovers, Present, RunnerRecord, RunnerState
<1> QED
  BY <1>2 DEF PauseAfterFailure, cleared

LEMMA ClearActiveOK ==
    ASSUME NEW files, FilesOK(files), NEW failed \in BOOLEAN, NEW p, NEW t
    PROVE  FilesOK(ClearActive(files, failed, p, t))
<1> DEFINE state == IF failed THEN "error" ELSE IF files.runner.desired = "running" THEN "dispatching"
                    ELSE "paused"
           runner == [files.runner EXCEPT !.activePrompt = NoPrompt, !.activeTurn = NoTurn,
                                          !.error = failed, !.state = state]
<1>1. state \in RunnerState
  BY DEF RunnerState
<1> HIDE DEF state
<1>2. runner \in RunnerRecord
  BY <1>1, FilesTyped, NoTurnTyped DEF RunnerRecord
<1>3. FilesOK([files EXCEPT !.runner = runner])
  BY <1>2, RunnerSection
<1>4. ClearActive(files, failed, p, t) \in {files, [files EXCEPT !.runner = runner]}
  BY DEF ClearActive, state, FilesOK, TabRecord
<1> QED
  BY <1>3, <1>4

LEMMA WaitForPromptOK ==
    ASSUME NEW files, FilesOK(files)
    PROVE  FilesOK(WaitForPrompt(files))
BY SetRunnerStateOK, NoTurnTyped DEF WaitForPrompt, RunnerState

LEMMA FinalizeInterruptedOK ==
    ASSUME NEW files, FilesOK(files), NEW thread, NEW t
    PROVE  FilesOK(FinalizeInterrupted(files, thread, t))
<1> DEFINE linked == {p \in Prompts : /\ Present(files, p) /\ files.prompts[p].thread = thread
                                      /\ files.prompts[p].turn = t /\ files.prompts[p].status \in Active}
           slashOnly == linked \subseteq SlashPrompts
           prompts == [p \in Prompts |->
             IF p \in linked
             THEN [files.prompts[p] EXCEPT !.status = IF slashOnly THEN "completed" ELSE "interrupted"]
             ELSE files.prompts[p]]
           card == IF slashOnly THEN DropCard(files.answers[t])
                   ELSE Card("interrupted", Opener(files, linked, FirstOf(files, linked)))
           settled == [files EXCEPT !.prompts = prompts]
           new == [settled EXCEPT !.answers[t] = card]
           rest == [desired |-> "paused", state |-> "paused", activePrompt |-> NoPrompt,
                    activeTurn |-> NoTurn, error |-> FALSE]
<1>1. CASE linked = {}
  BY <1>1 DEF FinalizeInterrupted
<1>2. CASE linked # {}
  <2>1. \A p \in linked : files.prompts[p] \in PromptRecord
    BY PromptTyped
  <2>2. prompts \in [Prompts -> PromptRecord]
    <3> HIDE DEF linked, slashOnly
    <3>1. \A p \in Prompts : files.prompts[p] \in PromptRecord
      BY PromptTyped
    <3>2. \A p \in Prompts : \A status \in PromptStatus : [files.prompts[p] EXCEPT !.status = status] \in PromptRecord
      BY <3>1 DEF PromptRecord
    <3>3. "completed" \in PromptStatus /\ "interrupted" \in PromptStatus
      BY DEF PromptStatus
    <3> QED
      BY <3>1, <3>2, <3>3
  <2>3. \A p \in Prompts : prompts[p].status \notin {"unused", "deleted"} => Present(files, p)
    BY <2>1, FilesAssumption DEF Present, PromptRecord
  <2>4. FilesOK(settled)
    <3> HIDE DEF prompts
    <3> QED BY <2>2, <2>3, PromptsSection
  <2>5. linked \cap ToSet(files.order) # {}
    BY <1>2 DEF FilesOK, OrderCovers
  <2>6. FirstOf(files, linked) \in linked
    BY <2>5, FirstOfIn
  <2>7. Opener(files, linked, FirstOf(files, linked)) \in linked
    <3> HIDE DEF linked
    <3>1. linked \subseteq {p \in Prompts : Present(files, p)}
      BY DEF linked
    <3>2. FirstOf(files, linked) \in Prompts
      BY <2>6, <3>1
    <3> QED
      BY <2>6, <3>1, <3>2, OpenerIn
  <2>8. t \in TurnIds => card \in AnswerRecord
    <3>1. t \in TurnIds => DropCard(files.answers[t]) \in AnswerRecord
      BY DropCardOK, FilesTyped
    <3>2. Card("interrupted", Opener(files, linked, FirstOf(files, linked))) \in AnswerRecord
      BY <2>7, CardOK DEF AnswerStatus
    <3> QED
      BY <3>1, <3>2
  <2>9. FilesOK(new)
    <3> HIDE DEF card, settled
    <3>1. CASE t \in TurnIds
      BY <2>4, <2>8, <3>1, AnswerSection
    <3>2. CASE t \notin TurnIds
      BY <2>4, <3>2 DEF FilesOK, TabRecord, OrderCovers, Present
    <3> QED
      BY <3>1, <3>2
  <2>10. FilesOK([new EXCEPT !.runner = rest])
    <3>1. rest \in RunnerRecord
      BY NoTurnTyped DEF RunnerRecord, RunnerState
    <3> HIDE DEF new, rest
    <3> QED
      BY <2>9, <3>1, RunnerSection
  <2>11. settled.answers = files.answers
    BY DEF FilesOK, TabRecord
  <2>12. new = [files EXCEPT !.prompts = prompts, !.answers[t] = card]
    BY <2>11
  <2>13. FinalizeInterrupted(files, thread, t) \in {new, [new EXCEPT !.runner = rest]}
    <3> HIDE DEF new
    <3>1. FinalizeInterrupted(files, thread, t) =
            IF files.runner.activeTurn = t \/ files.runner.activePrompt \in linked
            THEN [new EXCEPT !.runner = rest] ELSE new
      BY <1>2, <2>12 DEF FinalizeInterrupted
    <3> QED
      BY <3>1
  <2> QED
    BY <2>9, <2>10, <2>13
<1> QED
  BY <1>1, <1>2

-----------------------------------------------------------------------------
(* The records of a turn. *)

LEMMA LinkedIn ==
    ASSUME NEW files, NEW thread, NEW t
    PROVE  Linked(files, thread, t) \subseteq {p \in Prompts : Present(files, p)}
BY DEF Linked

LEMMA RecordTurnStartedOK ==
    ASSUME NEW files, FilesOK(files), NEW p \in Prompts, NEW thread, NEW t \in TurnIds
    PROVE  FilesOK(RecordTurnStarted(files, p, thread, t))
<1> DEFINE opener == Opener(files, Linked(files, thread, t), p)
           old == files.answers[t]
           card == IF old.status \notin {"none", "running"} THEN old ELSE Card("running", opener)
<1>1. old \in AnswerRecord
  BY FilesTyped
<1>2. opener \in Prompts
  BY LinkedIn, OpenerIn
<1>3. DropCard(old) \in AnswerRecord
  BY <1>1, DropCardOK
<1>4. card \in AnswerRecord
  BY <1>1, <1>2, CardOK DEF AnswerStatus
<1> HIDE DEF card
<1>5. FilesOK([files EXCEPT !.answers[t] = DropCard(old)])
  BY <1>3, AnswerSection
<1>6. FilesOK([files EXCEPT !.answers[t] = card])
  BY <1>4, AnswerSection
<1>7. RecordTurnStarted(files, p, thread, t) \in
        {[files EXCEPT !.answers[t] = DropCard(old)], [files EXCEPT !.answers[t] = card]}
  BY DEF RecordTurnStarted, card
<1> QED
  BY <1>5, <1>6, <1>7

\* The owner of a turn is a prompt of the queue, an unused one, or nobody.
LEMMA RecordOwnerIn ==
    ASSUME NEW files, FilesOK(files), NEW p \in Prompts \cup {NoPrompt}, NEW thread, NEW t
    PROVE  \/ RecordOwner(files, p, thread, t) = NoPrompt
           \/ /\ RecordOwner(files, p, thread, t) \in Prompts
              /\ \/ Present(files, RecordOwner(files, p, thread, t))
                 \/ RecordOwner(files, p, thread, t) \in Unused(files)
<1> DEFINE created == IF Unused(files) = {} THEN NoPrompt ELSE CHOOSE q \in Unused(files) : TRUE
<1>1. created = NoPrompt \/ created \in Unused(files)
  OBVIOUS
<1>2. Unused(files) \subseteq Prompts
  BY DEF Unused
<1> HIDE DEF created
<1>3. Opener(files, Linked(files, thread, t), created) \in Linked(files, thread, t) \cup {created}
  BY <1>1, <1>2, LinkedIn, OpenerIn
<1>4. RecordOwner(files, p, thread, t) =
        IF Present(files, p) THEN p ELSE Opener(files, Linked(files, thread, t), created)
  BY DEF RecordOwner, created
<1> QED
  BY <1>1, <1>2, <1>3, <1>4, LinkedIn DEF Present

\* What recordTurn may decide.
LEMMA VerdictIn ==
    ASSUME NEW affected, NEW outcome, NEW queued
    PROVE  TurnVerdict(affected, outcome, queued) \in {"completed", "slash", "failed", "interrupted", "untouched"}
BY DEF TurnVerdict

LEMMA RecordTurnOK ==
    ASSUME NEW files, FilesOK(files), NEW p \in Prompts \cup {NoPrompt}, NEW client \in Clients,
           NEW thread \in Threads \cup {NoThread}, NEW t \in TurnIds, NEW outcome, NEW queued
    PROVE  FilesOK(RecordTurn(files, p, client, thread, t, outcome, queued))
<1> DEFINE owner == RecordOwner(files, p, thread, t)
           affected == (Linked(files, thread, t) \cup {owner}) \ {NoPrompt}
           verdict == TurnVerdict(affected, outcome, queued)
           rebound(q) == IF q # owner THEN files.prompts[q]
                         ELSE [files.prompts[q] EXCEPT !.turn = t, !.thread = thread, !.steered = FALSE,
                                 !.client = IF client # NoClient THEN client ELSE @,
                                 !.status = IF @ = "unused" THEN "pending" ELSE @]
           settled(q) == IF verdict = "untouched" \/ q \notin affected THEN rebound(q)
                         ELSE [rebound(q) EXCEPT !.thread = thread, !.turn = t,
                                 !.status = IF verdict = "slash" THEN "completed" ELSE verdict]
           prompts == [q \in Prompts |-> settled(q)]
           order == IF owner \in Unused(files) THEN Append(files.order, owner) ELSE files.order
           old == files.answers[t]
           card == CASE verdict = "slash" -> DropCard(old)
                     [] verdict = "untouched" -> old
                     [] OTHER -> Card(verdict, owner)
           new == [files EXCEPT !.prompts = prompts, !.order = order, !.answers[t] = card]
<1>1. verdict \in {"completed", "slash", "failed", "interrupted", "untouched"}
  BY VerdictIn
<1>2. \/ owner = NoPrompt
      \/ owner \in Prompts /\ (Present(files, owner) \/ owner \in Unused(files))
  BY RecordOwnerIn
<1>3. \A q \in affected : q = owner \/ Present(files, q)
  BY LinkedIn
<1> HIDE DEF owner, affected, verdict
<1>4. \A q \in Prompts : rebound(q) \in PromptRecord
  <2>1. \A q \in Prompts : files.prompts[q] \in PromptRecord
    BY PromptTyped
  <2>2. ASSUME NEW r \in PromptRecord, NEW c \in Clients, NEW s \in PromptStatus
        PROVE  [r EXCEPT !.turn = t, !.thread = thread, !.steered = FALSE, !.client = c, !.status = s] \in PromptRecord
    BY <2>2 DEF PromptRecord
  <2>3. \A r \in PromptRecord : r.client \in Clients /\ r.status \in PromptStatus /\ "pending" \in PromptStatus
    BY DEF PromptRecord, PromptStatus
  <2> QED
    BY <2>1, <2>2, <2>3
<1>5. \A q \in Prompts : settled(q) \in PromptRecord
  <2> HIDE DEF rebound
  <2>1. ASSUME NEW r \in PromptRecord, NEW s \in PromptStatus
        PROVE  [r EXCEPT !.thread = thread, !.turn = t, !.status = s] \in PromptRecord
    BY <2>1 DEF PromptRecord
  <2>2. verdict # "untouched" => (IF verdict = "slash" THEN "completed" ELSE verdict) \in PromptStatus
    BY <1>1 DEF PromptStatus
  <2> QED
    BY <1>4, <2>1, <2>2
<1>6. ASSUME NEW q \in Prompts, q # owner, settled(q).status \notin {"unused", "deleted"}
      PROVE  Present(files, q)
  BY <1>3, <1>6, FilesAssumption DEF Present
<1>7. /\ order \in Seq(Prompts) /\ ToSet(files.order) \subseteq ToSet(order)
      /\ owner \in Prompts => owner \in ToSet(order)
  <2>1. CASE owner \in Unused(files)
    BY <2>1, OrderProperties, AppendElements DEF Unused
  <2>2. CASE owner \notin Unused(files)
    BY <1>2, <2>2, OrderProperties, FilesAssumption DEF FilesOK, OrderCovers
  <2> QED
    BY <2>1, <2>2
<1>8. card \in AnswerRecord
  <2>1. old \in AnswerRecord /\ DropCard(old) \in AnswerRecord
    BY FilesTyped, DropCardOK
  <2>2. verdict \in AnswerStatus => Card(verdict, owner) \in AnswerRecord
    BY <1>2, CardOK
  <2> QED
    BY <1>1, <2>1, <2>2 DEF AnswerStatus
<1>9. prompts \in [Prompts -> PromptRecord]
  BY <1>5
<1>10. \A q \in Prompts : prompts[q].status \notin {"unused", "deleted"} => q \in ToSet(order)
  BY <1>6, <1>7 DEF FilesOK, OrderCovers
<1> HIDE DEF prompts, order, card
<1>11. new \in TabRecord /\ new.prompts = prompts /\ new.order = order
  BY <1>7, <1>8, <1>9 DEF FilesOK, TabRecord
<1>12. FilesOK(new)
  BY <1>10, <1>11 DEF FilesOK, OrderCovers, Present
<1>13. RecordTurn(files, p, client, thread, t, outcome, queued) = new
  BY DEF RecordTurn, owner, affected, verdict, prompts, order, card
<1> QED
  BY <1>12, <1>13

-----------------------------------------------------------------------------
(* The edits of the queue. *)

LEMMA InsertPromptOK ==
    ASSUME NEW files, FilesOK(files), NEW p \in Prompts, NEW i \in 1..Len(files.order)+1,
           NEW auto \in BOOLEAN, NEW thread \in Threads \cup {NoThread}
    PROVE  FilesOK(InsertPrompt(files, p, i, auto, thread))
<1> DEFINE order == InsertAt(files.order, i, p)
           r == [NewPrompt EXCEPT !.auto = auto, !.thread = thread]
           new == [files EXCEPT !.order = order, !.prompts[p] = r]
<1>1. r \in PromptRecord
  BY NoTurnTyped DEF NewPrompt, PromptRecord, PromptStatus
<1>2. order \in Seq(Prompts) /\ ToSet(files.order) \cup {p} \subseteq ToSet(order)
  BY OrderProperties, InsertElements
<1> HIDE DEF order, r
<1>3. new \in TabRecord /\ new.prompts = [files.prompts EXCEPT ![p] = r] /\ new.order = order
  BY <1>1, <1>2 DEF FilesOK, TabRecord
<1>4. \A q \in Prompts : q # p => new.prompts[q] = files.prompts[q]
  BY <1>3 DEF FilesOK, TabRecord
<1>5. FilesOK(new)
  BY <1>2, <1>3, <1>4 DEF FilesOK, OrderCovers, Present
<1> QED
  BY <1>5 DEF InsertPrompt, order, r

LEMMA DeletePromptOK ==
    ASSUME NEW files, FilesOK(files), NEW p \in Prompts, Present(files, p)
    PROVE  FilesOK(DeletePrompt(files, p))
<1> DEFINE order == Without(files, p)
           r == [files.prompts[p] EXCEPT !.status = "deleted"]
           new == [files EXCEPT !.order = order, !.prompts[p] = r]
<1>1. files.prompts[p] \in PromptRecord
  BY PromptTyped
<1>2. r \in PromptRecord /\ r.status = "deleted"
  BY <1>1 DEF PromptRecord, PromptStatus
<1>3. order \in Seq(Prompts) /\ ToSet(files.order) \subseteq ToSet(order) \cup {p}
  BY WithoutElements DEF FilesOK, OrderCovers
<1> HIDE DEF order, r
<1>4. new \in TabRecord /\ new.prompts = [files.prompts EXCEPT ![p] = r] /\ new.order = order
  BY <1>2, <1>3 DEF FilesOK, TabRecord
<1>5. new.prompts[p] = r /\ \A q \in Prompts : q # p => new.prompts[q] = files.prompts[q]
  BY <1>4 DEF FilesOK, TabRecord
<1>6. FilesOK(new)
  BY <1>2, <1>3, <1>4, <1>5 DEF FilesOK, OrderCovers, Present
<1>7. DeletePrompt(files, p) = new
  BY DEF DeletePrompt, order, r, FilesOK, TabRecord
<1> QED
  BY <1>6, <1>7

LEMMA RetryOK ==
    ASSUME NEW files, FilesOK(files), NEW p \in Prompts, Present(files, p)
    PROVE  FilesOK(Retry(files, p)) /\ FilesOK(Skip(files, p))
BY StatusOK DEF Retry, Skip, PromptStatus

LEMMA MoveToFrontOK ==
    ASSUME NEW files, FilesOK(files), NEW p \in Prompts, Present(files, p), NEW thread
    PROVE  FilesOK(MoveToFront(files, p, thread))
<1> DEFINE rest == Without(files, p)
           choices == {Len(rest) + 1} \cup {i \in DOMAIN rest : Eligible(files, rest[i], thread)}
           at == Min(choices)
           order == InsertAt(rest, at, p)
           new == [files EXCEPT !.order = order]
<1>1. rest \in Seq(Prompts) /\ ToSet(files.order) \subseteq ToSet(rest) \cup {p}
  BY WithoutElements DEF FilesOK, OrderCovers
<1> HIDE DEF rest
<1>2. Len(rest) \in Nat /\ DOMAIN rest = 1..Len(rest)
  BY <1>1, LenProperties
<1>3. choices \subseteq 1..Len(rest)+1 /\ choices \subseteq Nat /\ choices # {}
  BY <1>2
<1> HIDE DEF choices
<1>4. at \in choices
  BY <1>3, MinIn
<1>5. at \in 1..Len(rest)+1
  BY <1>3, <1>4
<1> HIDE DEF at
<1>6. order \in Seq(Prompts) /\ ToSet(rest) \cup {p} \subseteq ToSet(order)
  BY <1>1, <1>5, InsertElements
<1> HIDE DEF order
<1>7. new \in TabRecord /\ new.prompts = files.prompts /\ new.order = order
  BY <1>6 DEF FilesOK, TabRecord
<1>8. FilesOK(new)
  BY <1>1, <1>6, <1>7 DEF FilesOK, OrderCovers, Present
<1>9. MoveToFront(files, p, thread) \in {files, new}
  BY DEF MoveToFront, rest, choices, at, order
<1> QED
  BY <1>8, <1>9
=============================================================================
