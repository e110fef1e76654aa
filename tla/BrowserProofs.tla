----------------------------- MODULE BrowserProofs -----------------------------
(***************************************************************************)
(* Proofs about a page: a document that is read in chunks, for any number  *)
(* of documents, chunks, requests, aborts and restarts; the keys of a      *)
(* terminal, for any number of pages, keys, lost sockets and looks away;   *)
(* and the sidebar, for any number of writes, refreshes and lost sockets.  *)
(***************************************************************************)
EXTENDS TerminalInput, DocumentView, IndexMirror, SequenceTheorems, FiniteSetTheorems, FunctionTheorems, TLAPS

-----------------------------------------------------------------------------
(* Sequences that lose an element. *)

\* A non-empty set of naturals has a least element, which Min finds.
LEMMA LeastOne ==
    ASSUME NEW S, S \subseteq Nat, S # {}
    PROVE  Min(S) \in S /\ \A y \in S : Min(S) <= y
<1> DEFINE less == OpToRel(<, Nat)
<1>1. less = {ss \in Nat \X Nat : ss[1] < ss[2]}
  BY DEF OpToRel
<1>2. IsWellFoundedOn(less, Nat)
  BY NatLessThanWellFounded
<1> HIDE DEF less
<1>3. PICK x \in S : \A y \in S : <<y, x>> \notin less
  BY <1>2, WFMin
<1>4. ASSUME NEW y \in S PROVE x =< y
  <2>1. x \in Nat /\ y \in Nat /\ <<y, x>> \in Nat \X Nat
    BY <1>3
  <2>2. ~ (y < x)
    BY <1>1, <1>3, <2>1
  <2> QED
    BY <2>1, <2>2
<1> QED
  BY <1>4 DEF Min

\* What is left of a sequence without one of its elements.
LEMMA RemovedAt ==
    ASSUME NEW T, NEW s \in Seq(T), NEW i \in 1..Len(s)
    PROVE  /\ RemoveAt(s, i) \in Seq(T)
           /\ Len(RemoveAt(s, i)) = Len(s) - 1
           /\ \A j \in 1..Len(s) - 1 : RemoveAt(s, i)[j] = (IF j < i THEN s[j] ELSE s[j + 1])
<1> DEFINE a == SubSeq(s, 1, i-1)  b == SubSeq(s, i+1, Len(s))
<1>1. Len(s) \in Nat /\ i \in Nat /\ i >= 1 /\ i <= Len(s)
  BY LenProperties
<1>2. \A j \in 1..i-1 : s[j] \in T
  BY <1>1, ElementOfSeq
<1>3. \A j \in i+1..Len(s) : s[j] \in T
  BY <1>1, ElementOfSeq
<1>4. a \in Seq(T) /\ Len(a) = i - 1 /\ \A j \in 1..i-1 : a[j] = s[j]
  <2>1. /\ a \in Seq(T) /\ Len(a) = (IF 1 <= i - 1 THEN i - 1 - 1 + 1 ELSE 0)
        /\ \A j \in 1..i-1-1+1 : a[j] = s[1+j-1]
    BY <1>1, <1>2, SubSeqProperties
  <2> HIDE DEF a
  <2> QED
    BY <1>1, <2>1
<1>5. b \in Seq(T) /\ Len(b) = Len(s) - i /\ \A j \in 1..Len(s) - i : b[j] = s[j + i]
  <2>1. /\ b \in Seq(T) /\ Len(b) = (IF i + 1 <= Len(s) THEN Len(s) - (i + 1) + 1 ELSE 0)
        /\ \A j \in 1..Len(s)-(i+1)+1 : b[j] = s[(i+1)+j-1]
    BY <1>1, <1>3, SubSeqProperties
  <2> HIDE DEF b
  <2>2. ASSUME NEW j \in 1..Len(s) - i PROVE (i+1)+j-1 = j + i /\ j \in 1..Len(s)-(i+1)+1
    BY <1>1
  <2> QED
    BY <1>1, <2>1, <2>2
<1> HIDE DEF a, b
<1>6. /\ a \o b \in Seq(T) /\ Len(a \o b) = Len(a) + Len(b)
      /\ \A j \in 1..Len(a) + Len(b) : (a \o b)[j] = (IF j <= Len(a) THEN a[j] ELSE b[j - Len(a)])
  BY <1>4, <1>5, ConcatProperties
<1>7. ASSUME NEW j \in 1..Len(s) - 1 PROVE (a \o b)[j] = (IF j < i THEN s[j] ELSE s[j + 1])
  <2>1. j \in 1..Len(a) + Len(b)
    BY <1>1, <1>4, <1>5
  <2>2. CASE j < i
    BY <1>1, <1>4, <1>6, <2>1, <2>2
  <2>3. CASE ~ (j < i)
    <3>1. j - Len(a) \in 1..Len(s) - i /\ ~ (j <= Len(a)) /\ (j - Len(a)) + i = j + 1
      BY <1>1, <1>4, <2>3
    <3> QED
      BY <1>5, <1>6, <2>1, <2>3, <3>1
  <2> QED
    BY <2>2, <2>3
<1>8. Len(a \o b) = Len(s) - 1
  BY <1>1, <1>4, <1>5, <1>6
<1> QED
  BY <1>6, <1>7, <1>8 DEF RemoveAt, a, b

-----------------------------------------------------------------------------
(* A document.  What makes DocumentHolds inductive. *)

Numbered == Documents \cup {0}
Requests == [doc : Numbered, parent : Numbered, base : Numbered]
Codes == {"none", "ok", "parentUnknown", "idUnknown", "changed", "failed"}
CallRecord ==
    [kind : {"open", "chunk"}, epoch : Nat, attempt : Nat, aborted : BOOLEAN, settled : BOOLEAN,
     phase : {"sent", "statted", "read", "answered"}, code : Codes, request : Requests, version : Nat,
     bytes : Nat, index : Nat, from : Requests, fromDoc : Numbered, depth : Nat, link : Requests,
     frees : BOOLEAN]
ViewerRecord ==
    [status : {"closed", "opening", "open", "loading", "error"}, reserved : BOOLEAN, source : Requests,
     doc : Numbered, version : Nat, shown : Seq([doc : Numbered, version : Nat, index : Nat]),
     fed : Seq(Nat), complete : BOOLEAN, error : Codes, epoch : Nat, attempt : Nat, inFlight : BOOLEAN,
     active : BOOLEAN, reopened : BOOLEAN, left : BOOLEAN]

DocumentTyped ==
    /\ files \in [Documents -> Nat] /\ memo \in Seq([doc : Documents, version : Nat]) /\ Len(memo) <= MemoMax
    /\ viewer \in ViewerRecord /\ wanted \in Numbered
    /\ calls \subseteq CallRecord /\ IsFiniteSet(calls)
    /\ funds \in [{"asks", "reads", "writes", "restarts", "fails", "looks"} -> Nat]

\* A link that is to be followed stands in the document that is asked for first.
LinkHolds(c) ==
    c.link # NoRequest => c.link.doc \in Documents /\ c.link.base = c.request.doc /\ c.fromDoc = 0

\* A call for which the page waits is for what it shows, or is about to.
WantedHolds(c, v, w) ==
    ~ c.aborted /\ c.epoch = v.epoch /\ c.attempt = v.attempt =>
    IF c.kind = "open"
    THEN /\ v.status = "opening" /\ v.source = c.request
         /\ w = (IF c.link = NoRequest THEN c.request.doc ELSE c.link.doc)
    ELSE /\ v.doc # 0 /\ v.status = "loading" /\ c.request.doc = v.doc
         /\ c.version = v.version /\ c.index = Len(v.shown)

\* What never changes of a call.
CallShape(c) ==
    /\ c.request.doc # 0
    /\ c.settled => c.aborted
    /\ c.code = "parentUnknown" => c.kind = "open" /\ c.request.parent # 0
    /\ c.kind = "open" => /\ c.request.parent = c.request.base /\ c.from.parent = c.from.base
                          /\ c.fromDoc # 0 => c.from.doc = c.fromDoc
                          /\ LinkHolds(c)
    /\ c.kind = "chunk" => c.frees

\* While the answer to an open may come the page shows no document, and has not asked since.
CallHolds(c, v, w) ==
    /\ CallShape(c) /\ WantedHolds(c, v, w)
    /\ c.attempt <= v.attempt /\ c.epoch <= v.epoch
    /\ c.kind = "open" => (c.settled \/ v.doc = 0) /\ (c.aborted \/ c.attempt = v.attempt)

\* What a chunk has read lies between the version it was asked for and the one the file has.
BytesHold(c, fs) ==
    c.kind = "chunk" =>
      /\ c.phase \in {"statted", "read"} => c.version <= fs[c.request.doc]
      /\ c.phase = "read" => c.version <= c.bytes /\ c.bytes <= fs[c.request.doc]
      /\ c.phase = "answered" /\ c.code = "ok" => c.bytes = c.version

OneEach(cs) == \A c, d \in cs : c.attempt = d.attempt => c = d

ViewerHolds(v, w) ==
    /\ v.source.parent = v.source.base
    /\ v.doc # 0 => v.doc = v.source.doc /\ v.doc = w
    /\ v.status \in {"open", "loading"} => v.doc # 0
    /\ v.status \in {"closed", "opening"} => v.doc = 0
    /\ v.status # "closed" => v.source.doc # 0
    /\ v.doc = 0 => v.shown = <<>>
    /\ (v.status = "closed") = (w = 0)

DocumentInv ==
    /\ DocumentTyped /\ OneEach(calls) /\ ViewerHolds(viewer, wanted)
    /\ \A c \in calls : CallHolds(c, viewer, wanted) /\ BytesHold(c, files)
    /\ TextIsOneVersion /\ SpinnersEnd

\* No document has the number 0, and nothing is asked for without one.
LEMMA NumbersApart ==
    /\ Documents \subseteq Nat /\ 0 \notin Documents /\ MemoMax \in Nat /\ DocChunks \in [Documents -> Nat]
    /\ NoRequest \in Requests /\ NoRequest.doc = 0 /\ NoRequest.parent = NoRequest.base
<1>1. Documents \subseteq Nat /\ 0 \notin Documents /\ MemoMax \in Nat /\ DocChunks \in [Documents -> Nat]
  BY DocumentsAssumption
<1> QED
  BY <1>1 DEF NoRequest, Request, Requests, Numbered

\* The counts of a load go down and stay counts.
LEMMA SpendsTyped ==
    ASSUME DocumentTyped, NEW what \in {"asks", "reads", "writes", "restarts", "fails", "looks"}, Spends(what)
    PROVE  funds' \in [{"asks", "reads", "writes", "restarts", "fails", "looks"} -> Nat]
BY DEF DocumentTyped, Spends

-----------------------------------------------------------------------------
(* A call as the server changes it. *)

SameCall(c, d) ==
    /\ d.kind = c.kind /\ d.epoch = c.epoch /\ d.attempt = c.attempt /\ d.aborted = c.aborted
    /\ d.settled = c.settled /\ d.request = c.request /\ d.index = c.index /\ d.from = c.from
    /\ d.fromDoc = c.fromDoc /\ d.link = c.link /\ d.frees = c.frees
    /\ c.kind = "chunk" => d.version = c.version

LEMMA SameHolds ==
    ASSUME NEW c \in CallRecord, NEW d, NEW v, NEW w, CallHolds(c, v, w), SameCall(c, d),
           d.code = "parentUnknown" => d.kind = "open" /\ d.request.parent # 0
    PROVE  CallHolds(d, v, w)
<1>1. CallShape(d)
  BY DEF CallHolds, CallShape, LinkHolds, SameCall
<1>2. WantedHolds(d, v, w)
  <2>1. c.kind \in {"open", "chunk"}
    BY DEF CallRecord
  <2> QED
    BY <2>1 DEF CallHolds, WantedHolds, SameCall
<1> QED
  BY <1>1, <1>2 DEF CallHolds, SameCall

\* The answer to a call, and the two ways it comes nearer to one.
LEMMA AnswerTyped ==
    ASSUME NEW c \in CallRecord, NEW code \in Codes
    PROVE  LET d == [c EXCEPT !.phase = "answered", !.code = code]
           IN  d \in CallRecord /\ SameCall(c, d) /\ d.phase = "answered" /\ d.code = code /\ d.bytes = c.bytes
                 /\ d.version = c.version
BY DEF CallRecord, SameCall

LEMMA AdvanceTyped ==
    ASSUME NEW c \in CallRecord, NEW version \in Nat, c.kind = "chunk" => version = c.version
    PROVE  LET d == [c EXCEPT !.phase = "statted", !.version = version]
           IN  d \in CallRecord /\ SameCall(c, d) /\ d.phase = "statted" /\ d.code = c.code /\ d.version = version
BY DEF CallRecord, SameCall

LEMMA ReadTyped ==
    ASSUME NEW c \in CallRecord, NEW bytes \in Nat
    PROVE  LET d == [c EXCEPT !.phase = "read", !.bytes = bytes]
           IN  d \in CallRecord /\ SameCall(c, d) /\ d.phase = "read" /\ d.code = c.code /\ d.bytes = bytes
                 /\ d.version = c.version
BY DEF CallRecord, SameCall

\* Whatever the server does, the page shows what it showed and waits for what it waited for.
LEMMA ServerHolds ==
    ASSUME DocumentInv, DocumentTyped', UNCHANGED <<viewer, wanted>>, OneEach(calls'),
           \A d \in calls' : /\ BytesHold(d, files')
                             /\ d.code = "parentUnknown" => d.kind = "open" /\ d.request.parent # 0
                             /\ \E c \in calls : SameCall(c, d),
           \A c \in calls : ~ c.settled => \E d \in calls' : SameCall(c, d)
    PROVE  DocumentInv'
<1>1. ASSUME NEW d \in calls' PROVE CallHolds(d, viewer', wanted')
  <2>1. PICK c \in calls : SameCall(c, d)
    OBVIOUS
  <2>2. c \in CallRecord /\ CallHolds(c, viewer', wanted')
    BY DEF DocumentInv, DocumentTyped
  <2> QED
    BY <2>1, <2>2, SameHolds
<1>2. ASSUME NEW c \in calls, StillWanted(c)
      PROVE  \E d \in calls' : d.kind = c.kind
             /\ (~ d.aborted /\ d.epoch = viewer'.epoch /\ d.attempt = viewer'.attempt)
  <2>1. ~ c.settled
    BY <1>2 DEF DocumentInv, CallHolds, CallShape, StillWanted
  <2> QED
    BY <1>2, <2>1 DEF SameCall, StillWanted
<1>3. SpinnersEnd'
  BY <1>2 DEF DocumentInv, SpinnersEnd, StillWanted
<1>4. TextIsOneVersion'
  BY DEF DocumentInv, TextIsOneVersion
<1>5. ViewerHolds(viewer', wanted')
  BY DEF DocumentInv
<1> QED
  BY <1>1, <1>3, <1>4, <1>5 DEF DocumentInv

\* One call takes a step at the server, or is dropped there because nobody waits for it.
LEMMA OneServed ==
    ASSUME DocumentInv, UNCHANGED <<files, viewer, wanted>>, NEW c \in calls, NEW d \in CallRecord, SameCall(c, d),
           memo' \in Seq([doc : Documents, version : Nat]), Len(memo') <= MemoMax,
           funds' \in [{"asks", "reads", "writes", "restarts", "fails", "looks"} -> Nat],
           BytesHold(d, files), d.code = "parentUnknown" => d.kind = "open" /\ d.request.parent # 0,
           \/ calls' = (calls \ {c}) \cup {d}
           \/ c.settled /\ calls' = (calls \ {c}) \cup {}
    PROVE  DocumentInv'
<1>1. calls' \subseteq CallRecord /\ IsFiniteSet(calls')
  <2>1. IsFiniteSet(calls \ {c}) /\ IsFiniteSet((calls \ {c}) \cup {d})
    BY FS_RemoveElement, FS_AddElement DEF DocumentInv, DocumentTyped
  <2>2. (calls \ {c}) \cup {} = calls \ {c}
    OBVIOUS
  <2> QED
    BY <2>1, <2>2 DEF DocumentInv, DocumentTyped
<1>2. DocumentTyped'
  BY <1>1 DEF DocumentInv, DocumentTyped
<1>3. OneEach(calls')
  BY DEF OneEach, SameCall, DocumentInv
<1>4. \A e \in calls : SameCall(e, e)
  BY DEF SameCall
<1>5. \A e \in calls' : \E b \in calls : SameCall(b, e)
  BY <1>4
<1>6. \A b \in calls : ~ b.settled => \E e \in calls' : SameCall(b, e)
  BY <1>4
<1>7. \A e \in calls : BytesHold(e, files') /\ (e.code = "parentUnknown" => e.kind = "open" /\ e.request.parent # 0)
  BY DEF DocumentInv, CallHolds, CallShape
<1>8. \A e \in calls' : e \in calls \/ e = d
  OBVIOUS
<1> QED
  BY <1>2, <1>3, <1>5, <1>6, <1>7, <1>8, ServerHolds

-----------------------------------------------------------------------------
(* The steps of the server. *)

LEMMA CallKnown ==
    ASSUME DocumentInv, NEW c \in calls
    PROVE  /\ c \in CallRecord /\ CallHolds(c, viewer, wanted) /\ CallShape(c) /\ BytesHold(c, files)
           /\ c.request.doc \in Documents /\ files[c.request.doc] \in Nat
<1>1. c \in CallRecord /\ CallHolds(c, viewer, wanted) /\ CallShape(c) /\ BytesHold(c, files)
  BY DEF DocumentInv, DocumentTyped, CallHolds
<1>2. c.request \in Requests
  BY <1>1 DEF CallRecord
<1>3. c.request.doc \in Documents
  BY <1>1, <1>2 DEF Requests, Numbered, CallShape
<1> QED
  BY <1>1, <1>3 DEF DocumentInv, DocumentTyped

\* The memory stays within its bound.
LEMMA TouchedTyped ==
    ASSUME DocumentTyped, NEW d \in Documents, NEW version \in Nat
    PROVE  Touched(d, version) \in Seq([doc : Documents, version : Nat]) /\ Len(Touched(d, version)) <= MemoMax
<1> DEFINE Entry == [doc : Documents, version : Nat]
           new == [doc |-> d, version |-> version]
           at == {i \in 1..Len(memo) : memo[i].doc = d}
           without == RemoveFirstMatch(memo, LAMBDA m : m.doc = d)
           rest == Append(without, new)
           size == IF Len(rest) > MemoMax THEN MemoMax ELSE Len(rest)
<1>1. memo \in Seq(Entry) /\ Len(memo) \in Nat /\ MemoMax \in Nat
  BY NumbersApart, LenProperties DEF DocumentTyped
<1>2. without \in Seq(Entry)
  <2>1. CASE \E i \in 1..Len(memo) : memo[i].doc = d
    <3>1. at # {} /\ at \subseteq 1..Len(memo) /\ at \subseteq Nat
      BY <2>1
    <3>2. without = RemoveAt(memo, Min(at))
      BY <2>1, <3>1 DEF RemoveFirstMatch, SelectInSeq
    <3>3. Min(at) \in 1..Len(memo)
      BY <3>1, LeastOne
    <3> HIDE DEF at, without
    <3> QED
      BY <1>1, <3>2, <3>3, RemovedAt
  <2>2. CASE ~ \E i \in 1..Len(memo) : memo[i].doc = d
    BY <1>1, <2>2 DEF RemoveFirstMatch
  <2> QED
    BY <2>1, <2>2
<1> HIDE DEF without
<1>3. rest \in Seq(Entry) /\ Len(rest) \in Nat
  BY <1>2, AppendProperties, LenProperties
<1> HIDE DEF rest
<1>4. size \in Nat /\ size <= MemoMax /\ size <= Len(rest)
  <2>1. CASE Len(rest) > MemoMax
    BY <1>1, <1>3, <2>1
  <2>2. CASE ~ (Len(rest) > MemoMax)
    BY <1>1, <1>3, <2>2
  <2> QED
    BY <2>1, <2>2
<1> HIDE DEF size
<1>5. ASSUME NEW i \in Len(rest) - size + 1 .. Len(rest) PROVE rest[i] \in Entry
  <2>1. i \in 1..Len(rest)
    BY <1>3, <1>4
  <2> HIDE DEF Entry
  <2> QED
    BY <1>3, <2>1, ElementOfSeq
<1>6. /\ SubSeq(rest, Len(rest) - size + 1, Len(rest)) \in Seq(Entry)
      /\ Len(SubSeq(rest, Len(rest) - size + 1, Len(rest)))
           = (IF Len(rest) - size + 1 <= Len(rest) THEN Len(rest) - (Len(rest) - size + 1) + 1 ELSE 0)
  BY <1>3, <1>4, <1>5, SubSeqProperties
<1>7. Len(SubSeq(rest, Len(rest) - size + 1, Len(rest))) <= MemoMax
  BY <1>1, <1>3, <1>4, <1>6
<1>8. Touched(d, version) = SubSeq(rest, Len(rest) - size + 1, Len(rest))
  BY DEF Touched, rest, size, without
<1> QED
  BY <1>6, <1>7, <1>8

\* An answer that leaves files and page alone keeps the invariant.
LEMMA ReplyHolds ==
    ASSUME DocumentInv, UNCHANGED <<files, viewer, wanted>>, NEW c \in calls, NEW code \in Codes, Replies(c, code),
           memo' \in Seq([doc : Documents, version : Nat]), Len(memo') <= MemoMax,
           funds' \in [{"asks", "reads", "writes", "restarts", "fails", "looks"} -> Nat],
           code = "parentUnknown" => c.kind = "open" /\ c.request.parent # 0,
           code = "ok" /\ c.kind = "chunk" => c.bytes = c.version
    PROVE  DocumentInv'
<1> DEFINE d == [c EXCEPT !.phase = "answered", !.code = code]
<1>1. c \in CallRecord
  BY CallKnown
<1>2. /\ d \in CallRecord /\ SameCall(c, d) /\ d.phase = "answered" /\ d.code = code /\ d.bytes = c.bytes
      /\ d.version = c.version
  BY <1>1, AnswerTyped
<1>3. \/ calls' = (calls \ {c}) \cup {d}
      \/ c.settled /\ calls' = (calls \ {c}) \cup {}
  BY DEF Replies
<1> HIDE DEF d
<1>4. BytesHold(d, files)
  BY <1>2 DEF BytesHold, SameCall
<1>5. d.code = "parentUnknown" => d.kind = "open" /\ d.request.parent # 0
  BY <1>2 DEF SameCall
<1> QED
  BY <1>2, <1>3, <1>4, <1>5, OneServed

\* A step at the server on the way to an answer.
LEMMA AdvanceHolds ==
    ASSUME DocumentInv, UNCHANGED <<files, viewer, wanted, funds>>, NEW c \in calls, NEW version \in Nat,
           Advances(c, "statted", version), c.kind = "chunk" => version = c.version
           /\ version <= files[c.request.doc],
           memo' \in Seq([doc : Documents, version : Nat]), Len(memo') <= MemoMax
    PROVE  DocumentInv'
<1> DEFINE d == [c EXCEPT !.phase = "statted", !.version = version]
<1>1. c \in CallRecord /\ CallShape(c)
  BY CallKnown
<1>2. d \in CallRecord /\ SameCall(c, d) /\ d.phase = "statted" /\ d.code = c.code /\ d.version = version
  BY <1>1, AdvanceTyped
<1>3. calls' = (calls \ {c}) \cup {d}
  BY DEF Advances
<1> HIDE DEF d
<1>4. BytesHold(d, files)
  BY <1>2 DEF BytesHold, SameCall
<1>5. d.code = "parentUnknown" => d.kind = "open" /\ d.request.parent # 0
  BY <1>1, <1>2 DEF SameCall, CallShape
<1>6. funds' \in [{"asks", "reads", "writes", "restarts", "fails", "looks"} -> Nat]
  BY DEF DocumentInv, DocumentTyped
<1> QED
  BY <1>2, <1>3, <1>4, <1>5, <1>6, OneServed

LEMMA MemoStays ==
    ASSUME DocumentInv, UNCHANGED memo
    PROVE  memo' \in Seq([doc : Documents, version : Nat]) /\ Len(memo') <= MemoMax
BY DEF DocumentInv, DocumentTyped

LEMMA FundsStay ==
    ASSUME DocumentInv, UNCHANGED funds
    PROVE  funds' \in [{"asks", "reads", "writes", "restarts", "fails", "looks"} -> Nat]
BY DEF DocumentInv, DocumentTyped

LEMMA OpenStatsHolds ==
    ASSUME DocumentInv, NEW c \in calls, OpenStats(c)
    PROVE  DocumentInv'
<1>1. UNCHANGED <<files, memo, viewer, wanted, funds>> /\ c.kind = "open"
  BY DEF OpenStats
<1>2. CASE c.request.parent # 0 /\ ~ Known(c.request.parent)
  <2>1. Replies(c, "parentUnknown") /\ "parentUnknown" \in Codes
    BY <1>2 DEF OpenStats, Codes
  <2> QED
    BY <1>1, <1>2, <2>1, MemoStays, FundsStay, ReplyHolds
<1>3. CASE ~ (c.request.parent # 0 /\ ~ Known(c.request.parent))
  <2>1. Advances(c, "statted", files[c.request.doc]) /\ files[c.request.doc] \in Nat
    BY <1>3, CallKnown DEF OpenStats
  <2> QED
    BY <1>1, <2>1, MemoStays, AdvanceHolds
<1> QED
  BY <1>2, <1>3

LEMMA OpenIssuesHolds ==
    ASSUME DocumentInv, NEW c \in calls, OpenIssues(c)
    PROVE  DocumentInv'
<1>1. UNCHANGED <<files, viewer, wanted, funds>> /\ c.kind = "open" /\ memo' = Touched(c.request.doc, c.version)
      /\ Replies(c, "ok") /\ "ok" \in Codes
  BY DEF OpenIssues, Codes
<1>2. c.request.doc \in Documents /\ c.version \in Nat
  BY CallKnown DEF CallRecord
<1>3. memo' \in Seq([doc : Documents, version : Nat]) /\ Len(memo') <= MemoMax
  BY <1>1, <1>2, TouchedTyped DEF DocumentInv
<1> QED
  BY <1>1, <1>3, FundsStay, ReplyHolds

LEMMA ChunkStatsHolds ==
    ASSUME DocumentInv, NEW c \in calls, ChunkStats(c)
    PROVE  DocumentInv'
<1>1. UNCHANGED <<files, viewer, wanted, funds>> /\ c.kind = "chunk"
  BY DEF ChunkStats
<1>2. CASE ~ Known(c.request.doc)
  <2>1. Replies(c, "idUnknown") /\ UNCHANGED memo /\ "idUnknown" \in Codes
    BY <1>2 DEF ChunkStats, Codes
  <2> QED
    BY <1>1, <2>1, MemoStays, FundsStay, ReplyHolds
<1>3. CASE Known(c.request.doc)
  <2> DEFINE m == CHOOSE x \in ToSet(memo) : x.doc = c.request.doc
  <2>1. m \in ToSet(memo) /\ m.doc = c.request.doc
    BY <1>3 DEF Known, ToSet
  <2>2. m \in [doc : Documents, version : Nat]
    <3>1. memo \in Seq([doc : Documents, version : Nat])
      BY DEF DocumentInv, DocumentTyped
    <3>2. \A i \in DOMAIN memo : memo[i] \in [doc : Documents, version : Nat]
      BY <3>1, LenProperties
    <3> HIDE DEF m
    <3> QED
      BY <2>1, <3>2 DEF ToSet
  <2>3. /\ memo' = Touched(m.doc, m.version)
        /\ IF files[m.doc] # c.version \/ m.version # c.version THEN Replies(c, "changed")
           ELSE Advances(c, "statted", c.version)
    BY <1>3 DEF ChunkStats
  <2> HIDE DEF m
  <2>4. memo' \in Seq([doc : Documents, version : Nat]) /\ Len(memo') <= MemoMax
    BY <2>2, <2>3, TouchedTyped DEF DocumentInv
  <2>5. CASE files[m.doc] # c.version \/ m.version # c.version
    <3>1. Replies(c, "changed") /\ "changed" \in Codes
      BY <2>3, <2>5 DEF Codes
    <3> QED
      BY <1>1, <2>4, <3>1, FundsStay, ReplyHolds
  <2>6. CASE ~ (files[m.doc] # c.version \/ m.version # c.version)
    <3>1. Advances(c, "statted", c.version) /\ files[c.request.doc] = c.version /\ c.version \in Nat
      BY <2>1, <2>3, <2>6, CallKnown
    <3>2. c.version <= files[c.request.doc]
      BY <3>1
    <3> QED
      BY <1>1, <2>4, <3>1, <3>2, AdvanceHolds
  <2> QED
    BY <2>5, <2>6
<1> QED
  BY <1>2, <1>3

LEMMA ChunkReadsHolds ==
    ASSUME DocumentInv, NEW c \in calls, ChunkReads(c)
    PROVE  DocumentInv'
<1> DEFINE d == [c EXCEPT !.phase = "read", !.bytes = files[c.request.doc]]
<1>1. /\ c \in CallRecord /\ CallShape(c) /\ BytesHold(c, files) /\ files[c.request.doc] \in Nat
      /\ c.kind = "chunk" /\ c.phase = "statted" /\ calls' = (calls \ {c}) \cup {d}
      /\ UNCHANGED <<files, memo, viewer, wanted, funds>>
  BY CallKnown DEF ChunkReads
<1>2. /\ d \in CallRecord /\ SameCall(c, d) /\ d.phase = "read" /\ d.code = c.code
      /\ d.bytes = files[c.request.doc] /\ d.version = c.version
  BY <1>1, ReadTyped
<1> HIDE DEF d
<1>3. BytesHold(d, files)
  BY <1>1, <1>2 DEF BytesHold, SameCall
<1>4. d.code = "parentUnknown" => d.kind = "open" /\ d.request.parent # 0
  BY <1>1, <1>2 DEF SameCall, CallShape
<1> QED
  BY <1>1, <1>2, <1>3, <1>4, MemoStays, FundsStay, OneServed

LEMMA ChunkSendsHolds ==
    ASSUME DocumentInv, NEW c \in calls, ChunkSends(c)
    PROVE  DocumentInv'
<1> DEFINE code == IF files[c.request.doc] # c.version THEN "changed" ELSE "ok"
<1>1. /\ c \in CallRecord /\ BytesHold(c, files) /\ c.kind = "chunk" /\ c.phase = "read"
      /\ Replies(c, code) /\ code \in Codes /\ UNCHANGED <<files, memo, viewer, wanted, funds>>
      /\ files[c.request.doc] \in Nat
  BY CallKnown DEF ChunkSends, Codes
<1>2. code = "ok" => c.bytes = c.version
  <2>1. c.bytes \in Nat /\ c.version \in Nat
    BY <1>1 DEF CallRecord
  <2>2. c.version <= c.bytes /\ c.bytes <= files[c.request.doc]
    BY <1>1 DEF BytesHold
  <2> QED
    BY <1>1, <2>1, <2>2
<1>3. code # "parentUnknown"
  OBVIOUS
<1> HIDE DEF code
<1> QED
  BY <1>1, <1>2, <1>3, MemoStays, FundsStay, ReplyHolds

LEMMA CallFailsHolds ==
    ASSUME DocumentInv, NEW c \in calls, CallFails(c)
    PROVE  DocumentInv'
<1>1. UNCHANGED <<files, memo, viewer, wanted>> /\ Replies(c, "failed") /\ Spends("fails") /\ "failed" \in Codes
  BY DEF CallFails, Codes
<1>2. funds' \in [{"asks", "reads", "writes", "restarts", "fails", "looks"} -> Nat]
  BY <1>1, SpendsTyped DEF DocumentInv
<1> QED
  BY <1>1, <1>2, MemoStays, ReplyHolds

LEMMA FileSavedHolds ==
    ASSUME DocumentInv, NEW d \in Documents, FileSaved(d)
    PROVE  DocumentInv'
<1>1. /\ UNCHANGED <<memo, viewer, calls, wanted>> /\ Spends("writes") /\ files \in [Documents -> Nat]
      /\ files' = [files EXCEPT ![d] = @ + 1]
  BY DEF FileSaved, DocumentInv, DocumentTyped
<1>2. files' \in [Documents -> Nat] /\ \A e \in Documents : files[e] \in Nat /\ files[e] <= files'[e]
  BY <1>1
<1>3. funds' \in [{"asks", "reads", "writes", "restarts", "fails", "looks"} -> Nat]
  BY <1>1, SpendsTyped DEF DocumentInv
<1>4. DocumentTyped'
  BY <1>1, <1>2, <1>3 DEF DocumentInv, DocumentTyped
<1>5. ASSUME NEW c \in calls PROVE BytesHold(c, files')
  <2>1. /\ c \in CallRecord /\ BytesHold(c, files) /\ c.request.doc \in Documents
        /\ files[c.request.doc] \in Nat
    BY CallKnown
  <2>2. c.version \in Nat /\ c.bytes \in Nat
    BY <2>1 DEF CallRecord
  <2>3. files'[c.request.doc] \in Nat /\ files[c.request.doc] <= files'[c.request.doc]
    BY <1>2, <2>1
  <2> QED
    BY <2>1, <2>2, <2>3 DEF BytesHold
<1>6. \A c \in calls : SameCall(c, c) /\ (c.code = "parentUnknown" => c.kind = "open" /\ c.request.parent # 0)
  BY CallKnown DEF SameCall, CallShape
<1>7. OneEach(calls')
  BY <1>1 DEF DocumentInv
<1> QED
  BY <1>1, <1>4, <1>5, <1>6, <1>7, ServerHolds

LEMMA RestartHolds ==
    ASSUME DocumentInv, DocumentServerRestarts
    PROVE  DocumentInv'
<1> DEFINE Lost(c) == IF c.phase = "answered" THEN c ELSE [c EXCEPT !.phase = "answered", !.code = "failed"]
           awaited == {d \in calls : ~ d.settled}
           f == [c \in awaited |-> Lost(c)]
<1>1. /\ UNCHANGED <<files, viewer, wanted>> /\ memo' = <<>> /\ Spends("restarts")
      /\ calls' = {Lost(c) : c \in awaited}
  BY DEF DocumentServerRestarts
<1>2. ASSUME NEW c \in awaited
      PROVE  /\ Lost(c) \in CallRecord /\ SameCall(c, Lost(c)) /\ BytesHold(Lost(c), files)
             /\ Lost(c).code = "parentUnknown" => Lost(c).kind = "open" /\ Lost(c).request.parent # 0
  <2>1. c \in CallRecord /\ CallShape(c) /\ BytesHold(c, files) /\ SameCall(c, c) /\ "failed" \in Codes
    BY CallKnown DEF SameCall, Codes
  <2>2. CASE c.phase = "answered"
    BY <2>1, <2>2 DEF CallShape
  <2>3. CASE c.phase # "answered"
    <3> DEFINE d == [c EXCEPT !.phase = "answered", !.code = "failed"]
    <3>1. d \in CallRecord /\ SameCall(c, d) /\ d.phase = "answered" /\ d.code = "failed"
      BY <2>1, AnswerTyped
    <3>2. Lost(c) = d
      BY <2>3
    <3> HIDE DEF d
    <3>3. BytesHold(d, files)
      BY <3>1 DEF BytesHold
    <3> HIDE DEF Lost
    <3> QED
      BY <3>1, <3>2, <3>3
  <2> QED
    BY <2>2, <2>3
<1>3. IsFiniteSet(calls')
  <2>1. IsFiniteSet(awaited)
    BY FS_Subset DEF DocumentInv, DocumentTyped
  <2>2. f \in Surjection(awaited, calls')
    BY <1>1 DEF Surjection
  <2> QED
    BY <2>1, <2>2, FS_Surjection
<1> HIDE DEF Lost, f
<1>4. funds' \in [{"asks", "reads", "writes", "restarts", "fails", "looks"} -> Nat]
  BY <1>1, SpendsTyped DEF DocumentInv
<1>5. DocumentTyped'
  <2>1. memo' \in Seq([doc : Documents, version : Nat]) /\ Len(memo') <= MemoMax
    BY <1>1, NumbersApart
  <2> QED
    BY <1>1, <1>2, <1>3, <1>4, <2>1 DEF DocumentInv, DocumentTyped
<1>6. OneEach(calls')
  BY <1>1, <1>2 DEF OneEach, SameCall, DocumentInv
<1>7. \A d \in calls' : /\ BytesHold(d, files')
                        /\ d.code = "parentUnknown" => d.kind = "open" /\ d.request.parent # 0
                        /\ \E c \in calls : SameCall(c, d)
  BY <1>1, <1>2
<1>8. \A c \in calls : ~ c.settled => \E d \in calls' : SameCall(c, d)
  BY <1>1, <1>2
<1> QED
  BY <1>1, <1>5, <1>6, <1>7, <1>8, ServerHolds

-----------------------------------------------------------------------------
(* The steps of the page. *)

\* The calls that are left when one lands, or is aborted: no more than there were, each asked
\* for as before, and one that was not aborted was not either.
Behind(others) ==
    /\ others \subseteq CallRecord /\ IsFiniteSet(others) /\ OneEach(others)
    /\ \A d \in others :
         /\ CallShape(d) /\ BytesHold(d, files) /\ d.attempt <= viewer.attempt /\ d.epoch <= viewer.epoch
         /\ d \in calls \/ d.aborted
         /\ d.kind = "open" => (d.settled \/ viewer.doc = 0) /\ (d.aborted \/ d.attempt = viewer.attempt)

LEMMA CallsBehind ==
    ASSUME DocumentInv
    PROVE  Behind(calls)
BY DEF DocumentInv, DocumentTyped, Behind, CallHolds

LEMMA AbortTyped ==
    ASSUME NEW c \in CallRecord
    PROVE  LET d == [c EXCEPT !.aborted = TRUE]
           IN  /\ d \in CallRecord /\ d.aborted /\ d.attempt = c.attempt /\ d.epoch = c.epoch /\ d.kind = c.kind
               /\ d.settled = c.settled /\ (CallShape(c) => CallShape(d))
                  /\ (BytesHold(c, files) => BytesHold(d, files))
<1> DEFINE d == [c EXCEPT !.aborted = TRUE]
<1>1. d \in CallRecord
  BY DEF CallRecord
<1>2. /\ d.aborted /\ d.attempt = c.attempt /\ d.epoch = c.epoch /\ d.kind = c.kind /\ d.settled = c.settled
      /\ d.request = c.request /\ d.from = c.from /\ d.fromDoc = c.fromDoc /\ d.link = c.link /\ d.frees = c.frees
      /\ d.phase = c.phase /\ d.code = c.code /\ d.version = c.version /\ d.bytes = c.bytes
  BY DEF CallRecord
<1> HIDE DEF d
<1>3. CallShape(c) => CallShape(d)
  BY <1>2 DEF CallShape, LinkHolds
<1>4. BytesHold(c, files) => BytesHold(d, files)
  BY <1>2 DEF BytesHold
<1> QED
  BY <1>1, <1>2, <1>3, <1>4 DEF d

LEMMA SettleTyped ==
    ASSUME NEW c \in CallRecord, c.aborted
    PROVE  LET d == [c EXCEPT !.settled = TRUE]
           IN  /\ d \in CallRecord /\ d.aborted /\ d.attempt = c.attempt /\ d.epoch = c.epoch /\ d.kind = c.kind
               /\ d.settled /\ (CallShape(c) => CallShape(d)) /\ (BytesHold(c, files) => BytesHold(d, files))
<1> DEFINE d == [c EXCEPT !.settled = TRUE]
<1>1. d \in CallRecord
  BY DEF CallRecord
<1>2. /\ d.aborted /\ d.attempt = c.attempt /\ d.epoch = c.epoch /\ d.kind = c.kind /\ d.settled
      /\ d.request = c.request /\ d.from = c.from /\ d.fromDoc = c.fromDoc /\ d.link = c.link /\ d.frees = c.frees
      /\ d.phase = c.phase /\ d.code = c.code /\ d.version = c.version /\ d.bytes = c.bytes
  BY DEF CallRecord
<1> HIDE DEF d
<1>3. CallShape(c) => CallShape(d)
  BY <1>2 DEF CallShape, LinkHolds
<1>4. BytesHold(c, files) => BytesHold(d, files)
  BY <1>2 DEF BytesHold
<1> QED
  BY <1>1, <1>2, <1>3, <1>4 DEF d

\* What lands is out of the way.
LEMMA LeftBehind ==
    ASSUME DocumentInv, NEW c \in calls, MayLand(c)
    PROVE  Behind(LeftBy(c)) /\ \A d \in LeftBy(c) : d \in calls \ {c} \/ (d.aborted /\ d.settled)
<1> DEFINE e == [c EXCEPT !.settled = TRUE]
<1>1. c \in CallRecord /\ CallHolds(c, viewer, wanted) /\ CallShape(c) /\ BytesHold(c, files)
  BY CallKnown
<1>2. IsFiniteSet(calls \ {c}) /\ IsFiniteSet((calls \ {c}) \cup {e})
  BY FS_RemoveElement, FS_AddElement DEF DocumentInv, DocumentTyped
<1>3. \A d \in calls \ {c} : d \in calls
  OBVIOUS
<1>4. CASE c.phase = "answered"
  <2>1. LeftBy(c) = calls \ {c}
    BY <1>4 DEF LeftBy
  <2>2. Behind(calls)
    BY CallsBehind
  <2>3. OneEach(calls \ {c}) /\ calls \ {c} \subseteq CallRecord
    BY <2>2 DEF Behind, OneEach
  <2>4. Behind(calls \ {c})
    BY <1>2, <1>3, <2>2, <2>3 DEF Behind
  <2> QED
    BY <2>1, <2>4
<1>5. CASE c.phase # "answered"
  <2>1. LeftBy(c) = (calls \ {c}) \cup {e} /\ c.aborted
    BY <1>5 DEF LeftBy, MayLand
  <2>2. /\ e \in CallRecord /\ e.aborted /\ e.attempt = c.attempt /\ e.epoch = c.epoch /\ e.kind = c.kind
        /\ e.settled /\ CallShape(e) /\ BytesHold(e, files)
    BY <1>1, <2>1, SettleTyped
  <2> HIDE DEF e
  <2>3. Behind(calls)
    BY CallsBehind
  <2>4. OneEach(LeftBy(c))
    BY <2>1, <2>2, <2>3 DEF Behind, OneEach
  <2>5. e.attempt <= viewer.attempt /\ e.epoch <= viewer.epoch
    BY <1>1, <2>2 DEF CallHolds
  <2>6. LeftBy(c) \subseteq CallRecord /\ IsFiniteSet(LeftBy(c))
    BY <1>2, <2>1, <2>2, <2>3 DEF Behind, e
  <2>7. ASSUME NEW d \in LeftBy(c)
        PROVE  /\ CallShape(d) /\ BytesHold(d, files) /\ d.attempt <= viewer.attempt /\ d.epoch <= viewer.epoch
               /\ d \in calls \/ d.aborted
               /\ d.kind = "open" => (d.settled \/ viewer.doc = 0) /\ (d.aborted \/ d.attempt = viewer.attempt)
               /\ d \in calls \ {c} \/ (d.aborted /\ d.settled)
    <3>1. CASE d = e
      BY <2>2, <2>5, <3>1
    <3>2. CASE d # e
      <4>1. d \in calls /\ d \in calls \ {c}
        BY <2>1, <3>2
      <4> QED
        BY <2>3, <4>1 DEF Behind
    <3> QED
      BY <3>1, <3>2
  <2> QED
    BY <2>4, <2>6, <2>7 DEF Behind
<1> QED
  BY <1>4, <1>5

\* What is aborted is not waited for.
LEMMA AbortedBehind ==
    ASSUME DocumentInv, NEW others, Behind(others)
    PROVE  /\ Behind(Aborted(others))
           /\ \A d \in Aborted(others) : d.kind = "open" => d.aborted
<1> DEFINE A(c) == IF c.attempt = viewer.attempt THEN [c EXCEPT !.aborted = TRUE] ELSE c
           f == [c \in others |-> A(c)]
<1>1. Aborted(others) = {A(c) : c \in others}
  BY DEF Aborted
<1>2. ASSUME NEW c \in others
      PROVE  /\ A(c) \in CallRecord /\ A(c).attempt = c.attempt /\ A(c).epoch = c.epoch /\ A(c).kind = c.kind
             /\ A(c).settled = c.settled /\ CallShape(A(c)) /\ BytesHold(A(c), files) /\ (A(c) = c \/ A(c).aborted)
             /\ (c.aborted => A(c).aborted) /\ (c.attempt = viewer.attempt => A(c).aborted)
  <2>1. c \in CallRecord /\ CallShape(c) /\ BytesHold(c, files)
    BY DEF Behind
  <2>2. CASE c.attempt = viewer.attempt
    <3> DEFINE d == [c EXCEPT !.aborted = TRUE]
    <3>1. /\ d \in CallRecord /\ d.aborted /\ d.attempt = c.attempt /\ d.epoch = c.epoch /\ d.kind = c.kind
          /\ d.settled = c.settled /\ CallShape(d) /\ BytesHold(d, files)
      BY <2>1, AbortTyped
    <3>2. A(c) = d
      BY <2>2
    <3> HIDE DEF d, A
    <3> QED
      BY <2>2, <3>1, <3>2
  <2>3. CASE c.attempt # viewer.attempt
    <3>1. A(c) = c
      BY <2>3
    <3> HIDE DEF A
    <3> QED
      BY <2>1, <2>3, <3>1
  <2> QED
    BY <2>2, <2>3
<1>3. IsFiniteSet(Aborted(others))
  <2>1. f \in Surjection(others, Aborted(others))
    BY <1>1 DEF Surjection
  <2> QED
    BY <2>1, FS_Surjection DEF Behind
<1> HIDE DEF A, f
<1>4. OneEach(Aborted(others))
  BY <1>1, <1>2 DEF Behind, OneEach
<1>5. \A d \in Aborted(others) : d.kind = "open" => d.aborted
  BY <1>1, <1>2 DEF Behind
<1>6. Aborted(others) \subseteq CallRecord
  BY <1>1, <1>2
<1>7. ASSUME NEW d \in Aborted(others)
      PROVE  /\ CallShape(d) /\ BytesHold(d, files) /\ d.attempt <= viewer.attempt /\ d.epoch <= viewer.epoch
             /\ d \in calls \/ d.aborted
             /\ d.kind = "open" => (d.settled \/ viewer.doc = 0) /\ (d.aborted \/ d.attempt = viewer.attempt)
  <2>1. PICK c \in others : d = A(c)
    BY <1>1
  <2>2. /\ c.attempt <= viewer.attempt /\ c.epoch <= viewer.epoch /\ (c \in calls \/ c.aborted)
        /\ c.kind = "open" => c.settled \/ viewer.doc = 0
    BY DEF Behind
  <2> QED
    BY <1>2, <1>5, <2>1, <2>2
<1> QED
  BY <1>3, <1>4, <1>5, <1>6, <1>7 DEF Behind

\* The new call of an open, and the viewer that waits for it.
Opening(v, request, reopened) ==
    [v EXCEPT !.status = "opening", !.source = request, !.doc = 0, !.version = 0, !.shown = <<>>,
              !.fed = <<>>, !.complete = FALSE, !.error = "none", !.inFlight = FALSE,
              !.reopened = reopened, !.left = FALSE, !.epoch = @ + 1, !.attempt = @ + 2]

OpeningIs(w, v, request) ==
    /\ w \in ViewerRecord /\ w.status = "opening" /\ w.source = request /\ w.doc = 0 /\ w.version = 0
    /\ w.shown = <<>> /\ w.fed = <<>> /\ w.inFlight = FALSE /\ w.left = FALSE
    /\ w.epoch = v.epoch + 1 /\ w.attempt = v.attempt + 2
CallIs(n, kind, v, request, version) ==
    /\ n \in CallRecord /\ n.kind = kind /\ n.epoch = v.epoch /\ n.attempt = v.attempt
    /\ n.aborted = FALSE /\ n.settled = FALSE /\ n.phase = "sent" /\ n.code = "none" /\ n.request = request
    /\ n.version = version /\ n.index = Len(v.shown) /\ (kind = "chunk" => n.frees)
AskedFrom(n, from, fromDoc, depth, link, frees) ==
    [n EXCEPT !.from = from, !.fromDoc = fromDoc, !.depth = depth, !.link = link, !.frees = frees]
AskedIs(e, n, from, fromDoc, link) ==
    /\ e \in CallRecord /\ e.kind = n.kind /\ e.epoch = n.epoch /\ e.attempt = n.attempt
    /\ e.aborted = n.aborted /\ e.settled = n.settled /\ e.phase = n.phase /\ e.code = n.code
    /\ e.request = n.request /\ e.from = from /\ e.fromDoc = fromDoc /\ e.link = link

LEMMA OpenTyped ==
    ASSUME NEW v \in ViewerRecord, NEW request \in Requests, NEW reopened \in BOOLEAN
    PROVE  OpeningIs(Opening(v, request, reopened), v, request)
<1> DEFINE w == Opening(v, request, reopened)  empty == <<>>
<1>1. /\ empty \in Seq([doc : Numbered, version : Nat, index : Nat]) /\ empty \in Seq(Nat)
      /\ 0 \in Numbered /\ "none" \in Codes /\ v.epoch + 1 \in Nat /\ v.attempt + 2 \in Nat
  BY DEF Numbered, Codes, ViewerRecord
<1> HIDE DEF empty
<1>2. w \in ViewerRecord
  BY <1>1 DEF ViewerRecord, Opening, empty
<1>3. /\ w.status = "opening" /\ w.source = request /\ w.doc = 0 /\ w.version = 0
      /\ w.shown = <<>> /\ w.fed = <<>> /\ w.inFlight = FALSE /\ w.left = FALSE
      /\ w.epoch = v.epoch + 1 /\ w.attempt = v.attempt + 2
  BY DEF ViewerRecord, Opening
<1> QED
  BY <1>2, <1>3 DEF OpeningIs

LEMMA CallTyped ==
    ASSUME NEW v \in ViewerRecord, NEW kind \in {"open", "chunk"}, NEW request \in Requests, NEW version \in Nat
    PROVE  CallIs(NewCall(kind, v, request, version), kind, v, request, version)
<1> DEFINE n == NewCall(kind, v, request, version)  l == Len(v.shown)  none == NoRequest
<1>1. /\ l \in Nat /\ v.epoch \in Nat /\ v.attempt \in Nat /\ none \in Requests /\ 0 \in Numbered
      /\ "none" \in Codes
  BY NumbersApart, LenProperties DEF ViewerRecord, Numbered, Codes
<1> HIDE DEF l, none, n
<1>2. n = [kind |-> kind, epoch |-> v.epoch, attempt |-> v.attempt, aborted |-> FALSE, settled |-> FALSE,
           phase |-> "sent", code |-> "none", request |-> request, version |-> version, bytes |-> 0, index |-> l,
           from |-> none, fromDoc |-> 0, depth |-> 0, link |-> none, frees |-> kind = "chunk"]
  BY DEF NewCall, l, none, n
<1>3. n \in CallRecord
  BY <1>1, <1>2 DEF CallRecord
<1>4. /\ n.kind = kind /\ n.epoch = v.epoch /\ n.attempt = v.attempt
      /\ n.aborted = FALSE /\ n.settled = FALSE /\ n.phase = "sent" /\ n.code = "none" /\ n.request = request
      /\ n.version = version /\ n.index = Len(v.shown)
  BY <1>2 DEF l
<1>5. n.frees = (kind = "chunk")
  BY <1>2
<1>6. kind = "chunk" => n.frees
  BY <1>5
<1> QED
  BY <1>3, <1>4, <1>6 DEF CallIs, n

LEMMA AskedTyped ==
    ASSUME NEW n \in CallRecord, NEW from \in Requests, NEW fromDoc \in Numbered, NEW depth \in Nat,
           NEW link \in Requests, NEW frees \in BOOLEAN
    PROVE  AskedIs(AskedFrom(n, from, fromDoc, depth, link, frees), n, from, fromDoc, link)
BY DEF AskedIs, AskedFrom, CallRecord

\* An open begins: for what the reader asked for, for a document the server has forgotten, or
\* for the one a link stands in.
LEMMA OpensHolds ==
    ASSUME DocumentInv, UNCHANGED <<files, memo>>,
           funds' \in [{"asks", "reads", "writes", "restarts", "fails", "looks"} -> Nat],
           NEW v \in ViewerRecord, v.epoch = viewer.epoch, v.attempt = viewer.attempt,
           v.source.parent = v.source.base, v.doc # 0 => v.doc = v.source.doc,
           NEW request \in Requests, request.doc # 0, request.parent = request.base,
           NEW reopened \in BOOLEAN, NEW depth \in Nat, NEW frees \in BOOLEAN, NEW others, Behind(others),
           NEW link \in Requests, link # NoRequest => link.doc \in Documents /\ link.base = request.doc /\ v.doc = 0,
           Opens(v, request, reopened, depth, link, frees, others),
           wanted' = (IF link = NoRequest THEN request.doc ELSE link.doc)
    PROVE  DocumentInv'
<1> DEFINE w == Opening(v, request, reopened)
           n == NewCall("open", w, request, 0)
           e == AskedFrom(n, v.source, v.doc, depth, link, frees)
<1>1. viewer' = w /\ calls' = Aborted(others) \cup {e}
  BY DEF Opens, Opening, AskedFrom
<1>2. OpeningIs(w, v, request)
  BY OpenTyped
<1> HIDE DEF w
<1>3. CallIs(n, "open", w, request, 0)
  BY <1>2, CallTyped DEF OpeningIs
<1> HIDE DEF n
<1>4. /\ v.source \in Requests /\ v.doc \in Numbered
      /\ v.epoch \in Nat /\ v.attempt \in Nat /\ viewer.epoch \in Nat /\ viewer.attempt \in Nat
  BY DEF ViewerRecord, DocumentInv, DocumentTyped
<1>5. AskedIs(e, n, v.source, v.doc, link)
  BY <1>3, <1>4, AskedTyped DEF CallIs
<1> HIDE DEF e
<1>a. /\ w \in ViewerRecord /\ w.status = "opening" /\ w.source = request /\ w.doc = 0 /\ w.version = 0
      /\ w.shown = <<>> /\ w.fed = <<>> /\ w.inFlight = FALSE /\ w.left = FALSE
      /\ w.epoch = v.epoch + 1 /\ w.attempt = v.attempt + 2
  BY <1>2 DEF OpeningIs
<1>b. /\ e \in CallRecord /\ e.kind = "open" /\ e.epoch = w.epoch /\ e.attempt = w.attempt
      /\ e.aborted = FALSE /\ e.settled = FALSE /\ e.phase = "sent" /\ e.code = "none" /\ e.request = request
      /\ e.from = v.source /\ e.fromDoc = v.doc /\ e.link = link
  BY <1>3, <1>5 DEF CallIs, AskedIs
<1>6. Behind(Aborted(others)) /\ \A d \in Aborted(others) : d.kind = "open" => d.aborted
  BY AbortedBehind
<1>7. w.epoch = viewer.epoch + 1 /\ w.attempt = viewer.attempt + 2
  BY <1>a
<1>8. \A d \in Aborted(others) : d.attempt \in Nat /\ d.attempt < w.attempt /\ d.epoch \in Nat /\ d.epoch < w.epoch
  BY <1>4, <1>6, <1>7 DEF Behind, CallRecord
<1>9. wanted' \in Documents /\ wanted' # 0 /\ request.doc \in Documents
  BY NumbersApart DEF Requests, Numbered
<1>10. DocumentTyped'
  <2>1. calls' \subseteq CallRecord /\ IsFiniteSet(calls')
    BY <1>1, <1>b, <1>6, FS_AddElement DEF Behind
  <2> QED
    BY <1>1, <1>a, <1>9, <2>1 DEF DocumentInv, DocumentTyped, Numbered
<1>11. OneEach(calls')
  BY <1>1, <1>b, <1>6, <1>8 DEF Behind, OneEach
<1>12. ViewerHolds(viewer', wanted')
  BY <1>1, <1>a, <1>9 DEF ViewerHolds
<1>13. ASSUME NEW d \in calls' PROVE CallHolds(d, viewer', wanted') /\ BytesHold(d, files')
  <2>1. CASE d = e
    <3>1. CallShape(e)
      BY <1>4, <1>b DEF CallShape, LinkHolds
    <3>2. WantedHolds(e, viewer', wanted')
      BY <1>1, <1>a, <1>b DEF WantedHolds
    <3>3. e.attempt <= w.attempt /\ e.epoch <= w.epoch
      BY <1>b DEF CallRecord
    <3>4. CallHolds(e, viewer', wanted')
      BY <1>1, <1>a, <1>b, <3>1, <3>2, <3>3 DEF CallHolds
    <3> QED
      BY <1>b, <2>1, <3>4 DEF BytesHold
  <2>2. CASE d # e
    <3>1. d \in Aborted(others)
      BY <1>1, <2>2
    <3>2. CallShape(d) /\ BytesHold(d, files)
      BY <1>6, <3>1 DEF Behind
    <3>3. WantedHolds(d, viewer', wanted')
      BY <1>1, <1>8, <3>1, <1>a, <1>4 DEF WantedHolds
    <3>4. d.attempt <= w.attempt /\ d.epoch <= w.epoch
      BY <1>8, <3>1, <1>7, <1>4
    <3>5. CallHolds(d, viewer', wanted')
      BY <1>1, <1>a, <1>6, <3>1, <3>2, <3>3, <3>4 DEF CallHolds
    <3> QED
      BY <3>2, <3>5
  <2> QED
    BY <2>1, <2>2
<1>14. TextIsOneVersion'
  BY <1>1, <1>a DEF TextIsOneVersion
<1>15. SpinnersEnd'
  <2>1. e \in calls' /\ ~ e.aborted /\ e.epoch = viewer'.epoch /\ e.attempt = viewer'.attempt
    BY <1>1, <1>b
  <2> QED
    BY <1>1, <1>a, <2>1 DEF SpinnersEnd, StillWanted
<1> QED
  BY <1>10, <1>11, <1>12, <1>13, <1>14, <1>15 DEF DocumentInv

\* The viewer but for its lock, which is at most opened.
Alike(v) ==
    /\ v \in ViewerRecord /\ v.status = viewer.status /\ v.source = viewer.source /\ v.doc = viewer.doc
    /\ v.version = viewer.version /\ v.shown = viewer.shown /\ v.fed = viewer.fed /\ v.epoch = viewer.epoch
    /\ v.attempt = viewer.attempt /\ v.left = viewer.left /\ v.reopened = viewer.reopened
    /\ v.inFlight => viewer.inFlight

LEMMA FreedAlike ==
    ASSUME DocumentInv, NEW c \in calls
    PROVE  Alike(Freed(c)) /\ (c.frees => ~ Freed(c).inFlight)
<1>1. c.frees \in BOOLEAN /\ viewer \in ViewerRecord /\ viewer.inFlight \in BOOLEAN
  BY CallKnown DEF CallRecord, DocumentInv, DocumentTyped, ViewerRecord
<1> DEFINE still == viewer.inFlight /\ ~ c.frees
           v == [viewer EXCEPT !.inFlight = still]
<1>2. Freed(c) = v
  BY DEF Freed
<1>3. still \in BOOLEAN /\ (still => viewer.inFlight) /\ (c.frees => ~ still)
  BY <1>1
<1> HIDE DEF still
<1>4. v \in ViewerRecord /\ v.inFlight = still
  BY <1>1, <1>3 DEF ViewerRecord
<1>5. /\ v.status = viewer.status /\ v.source = viewer.source /\ v.doc = viewer.doc
      /\ v.version = viewer.version /\ v.shown = viewer.shown /\ v.fed = viewer.fed /\ v.epoch = viewer.epoch
      /\ v.attempt = viewer.attempt /\ v.left = viewer.left /\ v.reopened = viewer.reopened
  BY <1>1 DEF ViewerRecord
<1> HIDE DEF v
<1>6. v.inFlight => viewer.inFlight
  BY <1>3, <1>4
<1>7. c.frees => ~ v.inFlight
  BY <1>3, <1>4
<1> QED
  BY <1>2, <1>4, <1>5, <1>6, <1>7 DEF Alike

\* A call that nobody waits for lands: nothing that is shown changes.
LEMMA UnwantedLands ==
    ASSUME DocumentInv, UNCHANGED <<files, memo, wanted, funds>>, NEW c \in calls, MayLand(c), ~ StillWanted(c),
           viewer' = Freed(c), calls' = LeftBy(c)
    PROVE  DocumentInv'
<1>1. Behind(calls') /\ \A d \in calls' : d \in calls \ {c} \/ (d.aborted /\ d.settled)
  BY LeftBehind
<1>2. Alike(viewer')
  BY FreedAlike
<1>3. DocumentTyped'
  BY <1>1, <1>2 DEF DocumentInv, DocumentTyped, Alike, Behind
<1>4. ASSUME NEW d \in calls' PROVE CallHolds(d, viewer', wanted') /\ BytesHold(d, files')
  <2>1. /\ CallShape(d) /\ BytesHold(d, files) /\ d.attempt <= viewer.attempt /\ d.epoch <= viewer.epoch
        /\ d.kind = "open" => (d.settled \/ viewer.doc = 0) /\ (d.aborted \/ d.attempt = viewer.attempt)
    BY <1>1 DEF Behind
  <2>2. WantedHolds(d, viewer', wanted')
    <3>1. CASE d \in calls
      <4>1. WantedHolds(d, viewer, wanted)
        BY <3>1 DEF DocumentInv, CallHolds
      <4> QED
        BY <1>2, <4>1 DEF WantedHolds, Alike
    <3>2. CASE d.aborted
      BY <3>2 DEF WantedHolds
    <3> QED
      BY <1>1, <3>1, <3>2 DEF Behind
  <2> QED
    BY <1>2, <2>1, <2>2 DEF CallHolds, Alike
<1>5. ViewerHolds(viewer', wanted')
  BY <1>2 DEF DocumentInv, ViewerHolds, Alike
<1>6. TextIsOneVersion'
  BY <1>2 DEF DocumentInv, TextIsOneVersion, Alike
<1>7. ASSUME NEW d \in calls, StillWanted(d)
      PROVE  d \in calls' /\ ~ d.aborted /\ d.epoch = viewer'.epoch /\ d.attempt = viewer'.attempt
  BY <1>2, <1>7 DEF LeftBy, Alike, StillWanted
<1>8. SpinnersEnd'
  BY <1>2, <1>7 DEF DocumentInv, SpinnersEnd, StillWanted, Alike
<1> QED
  BY <1>1, <1>3, <1>4, <1>5, <1>6, <1>8 DEF DocumentInv, Behind

\* A call that is waited for is the only one, and no other open is under way with it.
LEMMA OnlyWanted ==
    ASSUME DocumentInv, NEW c \in calls, MayLand(c), StillWanted(c)
    PROVE  /\ c.phase = "answered" /\ LeftBy(c) = calls \ {c} /\ WantedHolds(c, viewer, wanted)
           /\ \A d \in calls \ {c} : ~ StillWanted(d) /\ d.attempt # viewer.attempt
           /\ c.kind = "open" => /\ viewer.inFlight = FALSE
                                 /\ \A d \in calls \ {c} : d.kind = "open" => d.settled
<1>1. c.phase = "answered" /\ LeftBy(c) = calls \ {c}
  BY DEF MayLand, StillWanted, LeftBy
<1>2. WantedHolds(c, viewer, wanted)
  BY CallKnown DEF CallHolds
<1>3. \A d \in calls \ {c} : ~ StillWanted(d) /\ d.attempt # viewer.attempt
  BY DEF DocumentInv, OneEach, StillWanted
<1>4. ASSUME c.kind = "open" PROVE viewer.inFlight = FALSE
  <2>1. viewer.inFlight \in BOOLEAN
    BY DEF DocumentInv, DocumentTyped, ViewerRecord
  <2>2. ~ viewer.inFlight
    <3>1. ASSUME viewer.inFlight PROVE FALSE
      <4>1. PICK d \in calls : d.kind = "chunk" /\ StillWanted(d)
        BY <3>1 DEF DocumentInv, SpinnersEnd
      <4> QED
        BY <1>3, <1>4, <4>1
    <3> QED
      BY <3>1
  <2> QED
    BY <2>1, <2>2
<1>5. ASSUME c.kind = "open", NEW d \in calls \ {c}, d.kind = "open", ~ d.settled PROVE FALSE
  <2>1. d.attempt <= viewer.attempt /\ (d.aborted \/ d.attempt = viewer.attempt)
    BY <1>5 DEF DocumentInv, CallHolds
  <2>2. d.aborted => d.attempt >= c.attempt
    BY <1>5 DEF MayLand
  <2>3. d.attempt \in Nat /\ viewer.attempt \in Nat /\ c.attempt = viewer.attempt
    BY DEF DocumentInv, DocumentTyped, CallRecord, ViewerRecord, StillWanted
  <2>4. d.attempt = viewer.attempt
    BY <2>1, <2>2, <2>3
  <2> QED
    BY <1>3, <2>4
<1> QED
  BY <1>1, <1>2, <1>3, <1>4, <1>5

\* A call that is waited for lands, and what it was waited for has come or has failed.
LEMMA WantedLands ==
    ASSUME DocumentInv, UNCHANGED <<files, memo, wanted, funds>>, NEW c \in calls, MayLand(c), StillWanted(c),
           NEW v \in ViewerRecord, viewer' = v, calls' = LeftBy(c),
           v.attempt = viewer.attempt, v.epoch = viewer.epoch, v.inFlight = FALSE,
           v.status \in {"open", "error"}, ViewerHolds(v, wanted), TextIsOneVersion',
           c.kind = "open" \/ v.doc = viewer.doc
    PROVE  DocumentInv'
<1>1. /\ c.phase = "answered" /\ calls' = calls \ {c}
      /\ \A d \in calls \ {c} : ~ StillWanted(d) /\ d.attempt # viewer.attempt
      /\ c.kind = "open" => \A d \in calls \ {c} : d.kind = "open" => d.settled
  BY OnlyWanted
<1>2. Behind(calls')
  BY LeftBehind
<1>3. DocumentTyped'
  BY <1>2 DEF DocumentInv, DocumentTyped, Behind
<1>4. ASSUME NEW d \in calls' PROVE CallHolds(d, viewer', wanted') /\ BytesHold(d, files')
  <2>1. /\ CallShape(d) /\ BytesHold(d, files) /\ d.attempt <= viewer.attempt /\ d.epoch <= viewer.epoch
        /\ d.kind = "open" => (d.settled \/ viewer.doc = 0) /\ (d.aborted \/ d.attempt = viewer.attempt)
    BY <1>2 DEF Behind
  <2>2. WantedHolds(d, viewer', wanted')
    BY <1>1 DEF WantedHolds
  <2>3. d.kind = "open" => d.settled \/ v.doc = 0
    BY <1>1, <2>1
  <2> QED
    BY <2>1, <2>2, <2>3 DEF CallHolds
<1>5. SpinnersEnd'
  BY DEF SpinnersEnd
<1> QED
  BY <1>2, <1>3, <1>4, <1>5 DEF DocumentInv, Behind

\* What the viewer becomes when a call has failed, and when a document is open.
LEMMA FailedTyped ==
    ASSUME NEW v \in ViewerRecord, NEW code \in Codes
    PROVE  LET w == [v EXCEPT !.status = "error", !.error = code]
           IN  /\ w \in ViewerRecord /\ w.status = "error" /\ w.source = v.source /\ w.doc = v.doc
               /\ w.version = v.version /\ w.shown = v.shown /\ w.fed = v.fed /\ w.epoch = v.epoch
               /\ w.attempt = v.attempt /\ w.inFlight = v.inFlight
BY DEF ViewerRecord

OpenedDocument(v, doc, version) ==
    [v EXCEPT !.status = "open", !.reserved = TRUE, !.doc = doc, !.version = version,
              !.complete = DocChunks[doc] = 0]
OpenedIs(w, v, doc, version) ==
    /\ w \in ViewerRecord /\ w.status = "open" /\ w.source = v.source /\ w.doc = doc
    /\ w.version = version /\ w.shown = v.shown /\ w.fed = v.fed /\ w.epoch = v.epoch
    /\ w.attempt = v.attempt /\ w.inFlight = v.inFlight

LEMMA OpenedTyped ==
    ASSUME NEW v \in ViewerRecord, NEW doc \in Numbered, NEW version \in Nat
    PROVE  OpenedIs(OpenedDocument(v, doc, version), v, doc, version)
<1> DEFINE whole == DocChunks[doc] = 0  yes == TRUE
           w == [v EXCEPT !.status = "open", !.reserved = yes, !.doc = doc, !.version = version, !.complete = whole]
<1>1. whole \in BOOLEAN /\ yes \in BOOLEAN
  OBVIOUS
<1>2. OpenedDocument(v, doc, version) = w
  BY DEF OpenedDocument
<1> HIDE DEF whole, yes
<1>3. w \in ViewerRecord
  BY <1>1 DEF ViewerRecord
<1>4. /\ w.status = "open" /\ w.source = v.source /\ w.doc = doc
      /\ w.version = version /\ w.shown = v.shown /\ w.fed = v.fed /\ w.epoch = v.epoch
      /\ w.attempt = v.attempt /\ w.inFlight = v.inFlight
  BY DEF ViewerRecord
<1> QED
  BY <1>2, <1>3, <1>4 DEF OpenedIs

LEMMA FailureLands ==
    ASSUME DocumentInv, UNCHANGED <<files, memo, wanted, funds>>, NEW c \in calls, MayLand(c), StillWanted(c),
           calls' = LeftBy(c), viewer' = [Freed(c) EXCEPT !.status = "error", !.error = c.code]
    PROVE  DocumentInv'
<1> DEFINE v == Freed(c)
           w == [v EXCEPT !.status = "error", !.error = c.code]
<1>1. Alike(v) /\ (c.frees => ~ v.inFlight) /\ v \in ViewerRecord
  BY FreedAlike DEF Alike
<1>2. c.code \in Codes /\ c.kind \in {"open", "chunk"} /\ (c.kind = "chunk" => c.frees)
  BY CallKnown DEF CallRecord, CallShape
<1> HIDE DEF v
<1>3. /\ w \in ViewerRecord /\ w.status = "error" /\ w.source = v.source /\ w.doc = v.doc
      /\ w.version = v.version /\ w.shown = v.shown /\ w.fed = v.fed /\ w.epoch = v.epoch
      /\ w.attempt = v.attempt /\ w.inFlight = v.inFlight
  BY <1>1, <1>2, FailedTyped
<1>4. viewer' = w
  BY DEF v
<1> HIDE DEF w
<1>5. w.inFlight = FALSE
  <2>1. w.inFlight \in BOOLEAN
    BY <1>3 DEF ViewerRecord
  <2>2. CASE c.kind = "open"
    <3>1. viewer.inFlight = FALSE
      BY <2>2, OnlyWanted
    <3>2. ~ v.inFlight
      BY <1>1, <3>1 DEF Alike
    <3> QED
      BY <1>3, <2>1, <3>2
  <2>3. CASE c.kind = "chunk"
    <3>1. ~ v.inFlight
      BY <1>1, <1>2, <2>3
    <3> QED
      BY <1>3, <2>1, <3>1
  <2> QED
    BY <1>2, <2>2, <2>3
<1>6. WantedHolds(c, viewer, wanted)
  BY OnlyWanted
<1>7. ViewerHolds(w, wanted)
  <2>1. viewer.status # "closed"
    BY <1>6 DEF WantedHolds, StillWanted
  <2> QED
    BY <1>1, <1>3, <2>1 DEF DocumentInv, ViewerHolds, Alike
<1>8. TextIsOneVersion'
  <2>1. viewer'.shown = viewer.shown /\ viewer'.fed = viewer.fed /\ viewer'.doc = viewer.doc
        /\ viewer'.version = viewer.version
    BY <1>1, <1>3, <1>4 DEF Alike
  <2> QED
    BY <2>1 DEF DocumentInv, TextIsOneVersion
<1> QED
  BY <1>1, <1>3, <1>4, <1>5, <1>7, <1>8, WantedLands DEF Alike

LEMMA OpenLandsHolds ==
    ASSUME DocumentInv, NEW c \in calls, OpenLands(c)
    PROVE  DocumentInv'
<1> DEFINE others == LeftBy(c)
           v == Freed(c)
           opened == OpenedDocument(v, c.request.doc, c.version)
           w == IF ~ StillWanted(c) THEN v
                ELSE IF c.code = "ok" THEN opened ELSE [v EXCEPT !.status = "error", !.error = c.code]
<1>1. /\ c.kind = "open" /\ MayLand(c) /\ UNCHANGED <<files, memo, wanted, funds>>
      /\ IF StillWanted(c) /\ RefreshesParent(c)
         THEN Opens(v, c.from, FALSE, c.depth + 1, c.request, c.frees, others)
         ELSE IF c.link # NoRequest /\ w.status = "open"
         THEN Opens(w, [c.link EXCEPT !.parent = w.doc], FALSE, c.depth, NoRequest, c.frees, others)
         ELSE viewer' = w /\ calls' = others
  BY DEF OpenLands, OpenedDocument
<1>2. Alike(v)
  BY FreedAlike
<1>3. /\ c \in CallRecord /\ CallShape(c) /\ WantedHolds(c, viewer, wanted) /\ c.request.doc \in Documents
      /\ viewer.doc = 0
  BY <1>1, CallKnown DEF CallHolds, MayLand
<1>4. /\ c.request \in Requests /\ c.from \in Requests /\ c.link \in Requests /\ c.fromDoc \in Numbered
      /\ c.depth \in Nat /\ c.frees \in BOOLEAN /\ c.version \in Nat /\ c.code \in Codes
  BY <1>3 DEF CallRecord
<1>5. /\ c.request.parent = c.request.base /\ c.from.parent = c.from.base
      /\ c.fromDoc # 0 => c.from.doc = c.fromDoc
      /\ LinkHolds(c)
      /\ c.code = "parentUnknown" => c.request.parent # 0
  BY <1>1, <1>3 DEF CallShape
<1>6. Behind(others)
  BY <1>1, LeftBehind
<1>7. funds' \in [{"asks", "reads", "writes", "restarts", "fails", "looks"} -> Nat]
  BY <1>1, FundsStay
<1>8. ViewerHolds(viewer, wanted) /\ TextIsOneVersion
  BY DEF DocumentInv
<1>9. FALSE \in BOOLEAN /\ NoRequest \in Requests /\ 0 \notin Documents
  BY NumbersApart
<1>10. OpenedIs(opened, v, c.request.doc, c.version)
  <2>1. c.request.doc \in Numbered /\ v \in ViewerRecord
    BY <1>2, <1>3 DEF Numbered, Alike
  <2> QED
    BY <1>4, <2>1, OpenedTyped
<1> HIDE DEF others, v, opened, w
<1>11. CASE StillWanted(c) /\ RefreshesParent(c)
  <2>1. /\ c.code = "parentUnknown" /\ c.fromDoc = c.request.parent
        /\ Opens(v, c.from, FALSE, c.depth + 1, c.request, c.frees, others)
    BY <1>1, <1>11 DEF RefreshesParent
  <2>2. c.request.parent # 0 /\ c.from.doc = c.request.base /\ c.from.doc # 0
    BY <1>5, <2>1
  <2>3. c.link = NoRequest
    BY <1>5, <2>1, <2>2 DEF LinkHolds
  <2>4. wanted' = c.request.doc
    BY <1>1, <1>3, <1>11, <2>3 DEF WantedHolds, StillWanted
  <2>5. c.request # NoRequest
    BY <1>3, <1>9, NumbersApart
  <2>6. wanted' = (IF c.request = NoRequest THEN c.from.doc ELSE c.request.doc)
    BY <2>4, <2>5
  <2>7. /\ v \in ViewerRecord /\ v.epoch = viewer.epoch /\ v.attempt = viewer.attempt
        /\ v.source.parent = v.source.base /\ v.doc = 0
    BY <1>2, <1>3, <1>8 DEF Alike, ViewerHolds
  <2> DEFINE no == FALSE  deeper == c.depth + 1  after == c.request  asked == c.from
  <2>8. deeper \in Nat /\ no \in BOOLEAN /\ Opens(v, asked, no, deeper, after, c.frees, others)
    <3>1. Opens(v, asked, no, deeper, after, c.frees, others)
      BY <2>1
    <3>2. deeper \in Nat
      BY <1>4
    <3> QED
      BY <3>1, <3>2
  <2>9. /\ asked \in Requests /\ asked.doc # 0 /\ asked.parent = asked.base
        /\ after \in Requests /\ after.doc \in Documents /\ after.base = asked.doc
        /\ wanted' = (IF after = NoRequest THEN asked.doc ELSE after.doc)
    BY <1>3, <1>4, <1>5, <2>2, <2>6
  <2> HIDE DEF no, deeper, after, asked
  <2> QED
    BY <1>1, <1>4, <1>6, <1>7, <2>7, <2>8, <2>9, OpensHolds
<1>12. CASE ~ (StillWanted(c) /\ RefreshesParent(c)) /\ c.link # NoRequest /\ w.status = "open"
  <2>1. StillWanted(c) /\ c.code = "ok" /\ w = opened
    <3>1. v.status # "open"
      BY <1>2, <1>3, <1>8 DEF Alike, ViewerHolds
    <3>2. v \in ViewerRecord
      BY <1>2 DEF Alike
    <3>3. [v EXCEPT !.status = "error", !.error = c.code].status = "error"
      BY <1>4, <3>2, FailedTyped
    <3> QED
      BY <1>12, <3>1, <3>3 DEF w
  <2> DEFINE request == [c.link EXCEPT !.parent = w.doc]
  <2>2. /\ w \in ViewerRecord /\ w.doc = c.request.doc /\ w.source = viewer.source
        /\ w.epoch = viewer.epoch /\ w.attempt = viewer.attempt
    BY <1>2, <1>10, <2>1 DEF OpenedIs, Alike
  <2>3. viewer.source = c.request /\ wanted = c.link.doc
    BY <1>1, <1>3, <1>12, <2>1 DEF WantedHolds, StillWanted
  <2>4. c.link.doc \in Documents /\ c.link.base = c.request.doc
    BY <1>5, <1>12 DEF LinkHolds
  <2>5. w.doc \in Numbered
    BY <1>3, <2>2 DEF Numbered
  <2>6. request \in Requests /\ request.doc = c.link.doc /\ request.parent = w.doc /\ request.base = c.link.base
    BY <1>4, <2>5 DEF Requests
  <2>7. Opens(w, request, FALSE, c.depth, NoRequest, c.frees, others)
    BY <1>1, <1>12
  <2> DEFINE none == NoRequest  no == FALSE
  <2> HIDE DEF request
  <2>a. Opens(w, request, no, c.depth, none, c.frees, others) /\ none \in Requests /\ none = NoRequest
       /\ no \in BOOLEAN
    BY <1>9, <2>7
  <2> HIDE DEF none, no
  <2>8. request.doc # 0 /\ request.parent = request.base
    BY <1>9, <2>2, <2>4, <2>6
  <2>9. w.source.parent = w.source.base /\ (w.doc # 0 => w.doc = w.source.doc)
    BY <1>5, <2>2, <2>3
  <2>10. wanted' = (IF none = NoRequest THEN request.doc ELSE none.doc)
    BY <1>1, <2>3, <2>6, <2>a
  <2>11. none # NoRequest => none.doc \in Documents /\ none.base = request.doc /\ w.doc = 0
    BY <2>a
  <2> QED
    BY <1>1, <1>4, <1>6, <1>7, <2>a, <2>2, <2>6, <2>8, <2>9, <2>10, <2>11, OpensHolds
<1>13. CASE ~ (StillWanted(c) /\ RefreshesParent(c)) /\ ~ (c.link # NoRequest /\ w.status = "open")
  <2>1. viewer' = w /\ calls' = others
    BY <1>1, <1>13
  <2>2. CASE ~ StillWanted(c)
    <3>1. viewer' = Freed(c) /\ calls' = LeftBy(c)
      BY <2>1, <2>2 DEF w, v, others
    <3> QED
      BY <1>1, <2>2, <3>1, UnwantedLands
  <2>3. CASE StillWanted(c) /\ c.code # "ok"
    <3>1. viewer' = [Freed(c) EXCEPT !.status = "error", !.error = c.code] /\ calls' = LeftBy(c)
      BY <2>1, <2>3 DEF w, v, others
    <3> QED
      BY <1>1, <2>3, <3>1, FailureLands
  <2>4. CASE StillWanted(c) /\ c.code = "ok"
    <3>1. viewer' = opened /\ calls' = LeftBy(c) /\ w = opened
      BY <2>1, <2>4 DEF w, others
    <3>2. /\ opened \in ViewerRecord /\ opened.status = "open" /\ opened.source = viewer.source
          /\ opened.doc = c.request.doc /\ opened.shown = viewer.shown /\ opened.fed = viewer.fed
          /\ opened.epoch = viewer.epoch /\ opened.attempt = viewer.attempt /\ opened.inFlight = v.inFlight
      BY <1>2, <1>10 DEF OpenedIs, Alike
    <3>3. opened.inFlight = FALSE
      <4>1. viewer.inFlight = FALSE
        BY <1>1, <2>4, OnlyWanted
      <4>2. ~ v.inFlight /\ opened.inFlight \in BOOLEAN
        BY <1>2, <3>2, <4>1 DEF Alike, ViewerRecord
      <4> QED
        BY <3>2, <4>2
    <3>4. c.link = NoRequest
      BY <1>13, <3>1, <3>2
    <3>5. viewer.source = c.request /\ wanted = c.request.doc
      BY <1>1, <1>3, <2>4, <3>4 DEF WantedHolds, StillWanted
    <3>6. ViewerHolds(opened, wanted)
      BY <1>3, <1>5, <1>9, <3>2, <3>5 DEF ViewerHolds
    <3>7. viewer.shown = <<>>
      BY <1>3, <1>8 DEF ViewerHolds
    <3>8. TextIsOneVersion'
      BY <1>8, <3>1, <3>2, <3>7 DEF TextIsOneVersion
    <3> QED
      BY <1>1, <2>4, <3>1, <3>2, <3>3, <3>6, <3>8, WantedLands
  <2> QED
    BY <2>2, <2>3, <2>4
<1> QED
  BY <1>11, <1>12, <1>13

\* The chunk that was waited for is the next one, in the version that is shown.
ShownRecord == [doc : Numbered, version : Nat, index : Nat]

LEMMA ChunkShown ==
    ASSUME DocumentInv, NEW c \in calls, MayLand(c), StillWanted(c), c.kind = "chunk", c.code = "ok",
           UNCHANGED <<files, memo, wanted, funds>>, calls' = LeftBy(c),
           NEW text, text = Append(SubSeq(viewer.shown, 1, c.index),
                                   [doc |-> c.request.doc, version |-> c.bytes, index |-> c.index]),
           NEW whole \in BOOLEAN,
           viewer' = [Freed(c) EXCEPT !.status = "open", !.shown = text, !.fed = Append(@, c.index),
                                      !.error = "none", !.complete = whole]
    PROVE  DocumentInv'
<1> DEFINE v == Freed(c)
           new == [doc |-> c.request.doc, version |-> c.bytes, index |-> c.index]
           n == Len(viewer.shown)
           fed2 == Append(v.fed, c.index)
           none == "none"
           w == [v EXCEPT !.status = "open", !.shown = text, !.fed = fed2, !.error = none, !.complete = whole]
<1>1. /\ c.phase = "answered" /\ WantedHolds(c, viewer, wanted)
      /\ c \in CallRecord /\ BytesHold(c, files) /\ c.request.doc \in Documents /\ c.frees
  BY OnlyWanted, CallKnown DEF CallShape
<1>2. Alike(v) /\ ~ v.inFlight
  BY <1>1, FreedAlike
<1>3. /\ viewer.doc # 0 /\ viewer.status = "loading" /\ c.request.doc = viewer.doc
      /\ c.version = viewer.version /\ c.index = n
  BY <1>1 DEF WantedHolds, StillWanted
<1>4. c.bytes = viewer.version
  BY <1>1, <1>3 DEF BytesHold
<1>5. viewer.shown \in Seq(ShownRecord) /\ viewer.fed \in Seq(Nat) /\ viewer.version \in Nat
  BY DEF DocumentInv, DocumentTyped, ViewerRecord, ShownRecord
<1>6. n \in Nat /\ DOMAIN viewer.shown = 1..n /\ viewer.shown \in [1..n -> ShownRecord]
  BY <1>5, LenProperties
<1>7. new = [doc |-> viewer.doc, version |-> viewer.version, index |-> n]
  BY <1>3, <1>4
<1>8. new \in ShownRecord
  BY <1>1, <1>3, <1>5, <1>6, <1>7 DEF ShownRecord, Numbered
<1>9. SubSeq(viewer.shown, 1, c.index) = viewer.shown
  <2>1. \A i \in 1..n : viewer.shown[i] \in ShownRecord
    BY <1>6
  <2>2. /\ SubSeq(viewer.shown, 1, n) \in Seq(ShownRecord)
        /\ Len(SubSeq(viewer.shown, 1, n)) = (IF 1 <= n THEN n - 1 + 1 ELSE 0)
        /\ \A i \in 1..n-1+1 : SubSeq(viewer.shown, 1, n)[i] = viewer.shown[1+i-1]
    BY <1>6, <2>1, SubSeqProperties
  <2> DEFINE s == SubSeq(viewer.shown, 1, n)
  <2> HIDE DEF s, n
  <2>3. Len(s) = n /\ s \in Seq(ShownRecord)
    BY <1>6, <2>2 DEF s
  <2>4. ASSUME NEW i \in 1..n PROVE s[i] = viewer.shown[i]
    <3>1. i \in 1..n-1+1 /\ 1+i-1 = i
      BY <1>6
    <3> QED
      BY <2>2, <3>1 DEF s
  <2>5. s = viewer.shown
    BY <1>5, <2>3, <2>4, SeqEqual DEF n
  <2> QED
    BY <1>3, <2>5 DEF s, n
<1>10. text = Append(viewer.shown, new)
  BY <1>9
<1> HIDE DEF new
<1>11. /\ text \in Seq(ShownRecord) /\ Len(text) = n + 1 /\ text # <<>>
       /\ \A i \in 1..n : text[i] = viewer.shown[i]
       /\ text[n + 1] = new
  <2> DEFINE s == viewer.shown
  <2>1. s \in Seq(ShownRecord) /\ text = Append(s, new)
    BY <1>5, <1>10
  <2> HIDE DEF s
  <2>2. /\ Append(s, new) \in Seq(ShownRecord) /\ Append(s, new) # <<>> /\ Len(Append(s, new)) = Len(s) + 1
        /\ \A i \in 1..Len(s) : Append(s, new)[i] = s[i]
        /\ Append(s, new)[Len(s) + 1] = new
    BY <1>8, <2>1, AppendProperties
  <2> QED
    BY <2>1, <2>2 DEF s
<1> HIDE DEF n
<1>12. DOMAIN text = 1..n + 1
  <2>1. DOMAIN text = 1..Len(text)
    BY <1>11, LenProperties
  <2> QED
    BY <1>11, <2>1
<1>13. fed2 \in Seq(Nat) /\ fed2 = [i \in 1..n + 1 |-> i - 1]
  <2>1. viewer.fed = [i \in 1..n |-> i - 1]
    BY <1>6 DEF DocumentInv, TextIsOneVersion
  <2>2. fed2 = Append(viewer.fed, n)
    BY <1>2, <1>3 DEF Alike
  <2> HIDE DEF fed2
  <2>3. DOMAIN viewer.fed = 1..Len(viewer.fed) /\ Len(viewer.fed) \in Nat
    BY <1>5, LenProperties
  <2>4. Len(viewer.fed) = n
    <3>1. DOMAIN viewer.fed = 1..n
      BY <2>1
    <3> QED
      BY <1>6, <2>3, <3>1
  <2>5. /\ fed2 \in Seq(Nat) /\ Len(fed2) = n + 1
        /\ \A i \in 1..n : fed2[i] = viewer.fed[i]
        /\ fed2[n + 1] = n
    BY <1>5, <1>6, <2>2, <2>4, AppendProperties
  <2>6. \A i \in 1..n : fed2[i] = i - 1
    BY <2>1, <2>5
  <2>7. \A i \in 1..n + 1 : fed2[i] = i - 1
    BY <1>6, <2>5, <2>6
  <2>8. fed2 \in [1..n + 1 -> Nat]
    BY <2>5, LenProperties
  <2> QED
    BY <2>5, <2>7, <2>8
<1>14. viewer' = w
  OBVIOUS
<1> HIDE DEF fed2, v
<1>15. /\ w \in ViewerRecord /\ w.status = "open" /\ w.shown = text /\ w.fed = fed2
       /\ w.source = viewer.source /\ w.doc = viewer.doc /\ w.version = viewer.version /\ w.epoch = viewer.epoch
       /\ w.attempt = viewer.attempt /\ w.inFlight = v.inFlight
  <2>1. v \in ViewerRecord /\ text \in Seq([doc : Numbered, version : Nat, index : Nat]) /\ none \in Codes
    BY <1>2, <1>11 DEF Alike, ShownRecord, Codes
  <2> HIDE DEF none
  <2>2. w \in ViewerRecord
    BY <1>13, <2>1 DEF ViewerRecord
  <2>3. /\ w.status = "open" /\ w.shown = text /\ w.fed = fed2 /\ w.source = v.source /\ w.doc = v.doc
        /\ w.version = v.version /\ w.epoch = v.epoch /\ w.attempt = v.attempt /\ w.inFlight = v.inFlight
    BY <2>1 DEF ViewerRecord
  <2> QED
    BY <1>2, <2>2, <2>3 DEF Alike
<1> HIDE DEF w
<1>16. w.inFlight = FALSE
  BY <1>2, <1>15 DEF ViewerRecord
<1>17. ViewerHolds(w, wanted)
  BY <1>3, <1>11, <1>15 DEF DocumentInv, ViewerHolds
<1>18. TextIsOneVersion'
  <2>1. \A i \in 1..n : viewer.shown[i] = [doc |-> viewer.doc, version |-> viewer.version, index |-> i - 1]
    BY <1>6 DEF DocumentInv, TextIsOneVersion
  <2>2. \A i \in 1..n : text[i] = [doc |-> viewer.doc, version |-> viewer.version, index |-> i - 1]
    BY <1>11, <2>1
  <2>3. text[n + 1] = [doc |-> viewer.doc, version |-> viewer.version, index |-> (n + 1) - 1]
    BY <1>6, <1>7, <1>11
  <2>4. \A i \in 1..n + 1 : text[i] = [doc |-> viewer.doc, version |-> viewer.version, index |-> i - 1]
    <3>1. ASSUME NEW i \in 1..n + 1
          PROVE  text[i] = [doc |-> viewer.doc, version |-> viewer.version, index |-> i - 1]
      <4>1. i \in 1..n \/ i = n + 1
        BY <1>6
      <4> QED
        BY <2>2, <2>3, <4>1
    <3> QED
      BY <3>1
  <2>5. /\ viewer'.shown = text /\ viewer'.fed = [i \in DOMAIN text |-> i - 1] /\ viewer'.doc = viewer.doc
        /\ viewer'.version = viewer.version
    BY <1>12, <1>13, <1>14, <1>15
  <2> QED
    BY <1>12, <2>4, <2>5 DEF TextIsOneVersion
<1> QED
  BY <1>14, <1>15, <1>16, <1>17, <1>18, WantedLands

LEMMA ChunkLandsHolds ==
    ASSUME DocumentInv, NEW c \in calls, ChunkLands(c)
    PROVE  DocumentInv'
<1> DEFINE others == LeftBy(c)
           v == Freed(c)
           text == Append(SubSeq(v.shown, 1, c.index),
                          [doc |-> c.request.doc, version |-> c.bytes, index |-> c.index])
           whole == Len(text) >= DocChunks[v.doc]
<1>1. c.kind = "chunk" /\ MayLand(c) /\ UNCHANGED <<files, memo, wanted, funds>> /\ v.shown = viewer.shown
  BY FreedAlike DEF ChunkLands, Alike
<1>2. CASE ~ StillWanted(c)
  <2>1. viewer' = Freed(c) /\ calls' = LeftBy(c)
    BY <1>2 DEF ChunkLands
  <2> QED
    BY <1>1, <1>2, <2>1, UnwantedLands
<1>3. CASE StillWanted(c) /\ c.code = "ok"
  <2>1. /\ viewer' = [Freed(c) EXCEPT !.status = "open", !.shown = text, !.fed = Append(@, c.index),
                                      !.error = "none", !.complete = whole]
        /\ calls' = LeftBy(c)
    BY <1>3 DEF ChunkLands
  <2>2. whole \in BOOLEAN
    OBVIOUS
  <2>3. text = Append(SubSeq(viewer.shown, 1, c.index),
                      [doc |-> c.request.doc, version |-> c.bytes, index |-> c.index])
    BY <1>1
  <2> HIDE DEF text, whole, v, others
  <2> QED
    BY <1>1, <1>3, <2>1, <2>2, <2>3, ChunkShown
<1>4. CASE StillWanted(c) /\ c.code = "idUnknown" /\ ~ v.reopened
  <2>1. Opens(v, v.source, TRUE, 0, NoRequest, TRUE, others)
    BY <1>4 DEF ChunkLands
  <2>2. Alike(v)
    BY FreedAlike
  <2>3. Behind(others)
    BY <1>1, LeftBehind
  <2> DEFINE none == NoRequest  yes == TRUE  zero == 0
  <2> HIDE DEF v, others
  <2>4. Opens(v, v.source, yes, zero, none, yes, others) /\ none \in Requests /\ none = NoRequest
        /\ yes \in BOOLEAN /\ zero \in Nat
    BY <2>1, NumbersApart
  <2> HIDE DEF none, yes, zero
  <2>5. WantedHolds(c, viewer, wanted) /\ ViewerHolds(viewer, wanted)
    BY <1>1, <1>4, OnlyWanted DEF DocumentInv
  <2>6. viewer.doc # 0 /\ viewer.doc = viewer.source.doc /\ viewer.doc = wanted
    BY <1>1, <1>4, <2>5 DEF WantedHolds, ViewerHolds, StillWanted
  <2>7. /\ v \in ViewerRecord /\ v.epoch = viewer.epoch /\ v.attempt = viewer.attempt
        /\ v.source.parent = v.source.base /\ (v.doc # 0 => v.doc = v.source.doc) /\ v.source.doc # 0
        /\ v.source.doc = wanted
    BY <2>2, <2>5, <2>6 DEF Alike, ViewerHolds
  <2>8. v.source \in Requests
    BY <2>7 DEF ViewerRecord
  <2>9. wanted' = (IF none = NoRequest THEN v.source.doc ELSE none.doc)
    BY <1>1, <2>4, <2>7
  <2>10. none # NoRequest => none.doc \in Documents /\ none.base = v.source.doc /\ v.doc = 0
    BY <2>4
  <2> QED
    BY <1>1, <2>3, <2>4, <2>7, <2>8, <2>9, <2>10, FundsStay, OpensHolds
<1>5. CASE StillWanted(c) /\ c.code # "ok" /\ ~ (c.code = "idUnknown" /\ ~ v.reopened)
  <2>1. viewer' = [Freed(c) EXCEPT !.status = "error", !.error = c.code] /\ calls' = LeftBy(c)
    BY <1>5 DEF ChunkLands
  <2> QED
    BY <1>1, <1>5, <2>1, FailureLands
<1> QED
  BY <1>2, <1>3, <1>4, <1>5

-----------------------------------------------------------------------------
(* The reader. *)

Loading(v) == [v EXCEPT !.inFlight = TRUE, !.attempt = @ + 1, !.status = "loading", !.error = "none"]
LoadingIs(w, v) ==
    /\ w \in ViewerRecord /\ w.inFlight = TRUE /\ w.attempt = v.attempt + 1 /\ w.status = "loading"
    /\ w.source = v.source /\ w.doc = v.doc /\ w.version = v.version /\ w.shown = v.shown /\ w.fed = v.fed
    /\ w.epoch = v.epoch

LEMMA LoadingTyped ==
    ASSUME NEW v \in ViewerRecord
    PROVE  LoadingIs(Loading(v), v)
<1> DEFINE yes == TRUE  next == v.attempt + 1  none == "none"
           w == [v EXCEPT !.inFlight = yes, !.attempt = next, !.status = "loading", !.error = none]
<1>1. Loading(v) = w /\ yes \in BOOLEAN /\ yes = TRUE /\ next \in Nat /\ none \in Codes
  BY DEF Loading, ViewerRecord, Codes
<1> HIDE DEF yes, none
<1>2. w \in ViewerRecord
  BY <1>1 DEF ViewerRecord
<1>3. /\ w.inFlight = yes /\ w.attempt = next /\ w.status = "loading"
      /\ w.source = v.source /\ w.doc = v.doc /\ w.version = v.version /\ w.shown = v.shown /\ w.fed = v.fed
      /\ w.epoch = v.epoch
  BY DEF ViewerRecord
<1> QED
  BY <1>1, <1>2, <1>3 DEF LoadingIs

LEMMA LoadsNextHolds ==
    ASSUME DocumentInv, UNCHANGED <<files, memo, wanted>>, LoadsNext,
           funds' \in [{"asks", "reads", "writes", "restarts", "fails", "looks"} -> Nat]
    PROVE  DocumentInv'
<1> DEFINE w == Loading(viewer)
           request == Request(w.doc, 0, 0)
           n == NewCall("chunk", w, request, w.version)
<1>1. viewer.doc # 0 /\ viewer' = w /\ calls' = calls \cup {n}
  BY DEF LoadsNext, Loading
<1>2. viewer \in ViewerRecord /\ ViewerHolds(viewer, wanted) /\ TextIsOneVersion
  BY DEF DocumentInv, DocumentTyped
<1>3. LoadingIs(w, viewer)
  BY <1>2, LoadingTyped
<1> HIDE DEF w
<1>4. /\ w \in ViewerRecord /\ w.inFlight = TRUE /\ w.attempt = viewer.attempt + 1 /\ w.status = "loading"
      /\ w.source = viewer.source /\ w.doc = viewer.doc /\ w.version = viewer.version /\ w.shown = viewer.shown
      /\ w.fed = viewer.fed /\ w.epoch = viewer.epoch
  BY <1>3 DEF LoadingIs
<1>5. w.doc \in Numbered /\ w.version \in Nat /\ viewer.attempt \in Nat /\ viewer.epoch \in Nat
  BY <1>2, <1>4 DEF ViewerRecord
<1>6. request \in Requests /\ request.doc = w.doc
  <2>1. 0 \in Numbered
    BY DEF Numbered
  <2> QED
    BY <1>5, <2>1 DEF Request, Requests
<1> HIDE DEF request
<1>7. CallIs(n, "chunk", w, request, w.version)
  BY <1>4, <1>5, <1>6, CallTyped
<1> HIDE DEF n
<1>8. /\ n \in CallRecord /\ n.kind = "chunk" /\ n.epoch = w.epoch /\ n.attempt = w.attempt
      /\ n.aborted = FALSE /\ n.settled = FALSE /\ n.phase = "sent" /\ n.code = "none" /\ n.request = request
      /\ n.version = w.version /\ n.index = Len(w.shown) /\ n.frees
  BY <1>7 DEF CallIs
<1>9. Behind(calls)
  BY CallsBehind
<1>10. \A d \in calls : d.attempt \in Nat /\ d.attempt < w.attempt
  BY <1>4, <1>5, <1>9 DEF Behind, CallRecord
<1>11. DocumentTyped'
  <2>1. calls' \subseteq CallRecord /\ IsFiniteSet(calls')
    BY <1>1, <1>8, <1>9, FS_AddElement DEF Behind
  <2> QED
    BY <1>1, <1>4, <2>1 DEF DocumentInv, DocumentTyped
<1>12. OneEach(calls')
  BY <1>1, <1>8, <1>9, <1>10 DEF Behind, OneEach
<1>13. ViewerHolds(viewer', wanted')
  BY <1>1, <1>2, <1>4 DEF ViewerHolds
<1>14. ASSUME NEW d \in calls' PROVE CallHolds(d, viewer', wanted') /\ BytesHold(d, files')
  <2>1. CASE d = n
    <3>1. CallShape(n)
      BY <1>1, <1>4, <1>6, <1>8 DEF CallShape
    <3>2. WantedHolds(n, viewer', wanted')
      BY <1>1, <1>4, <1>6, <1>8 DEF WantedHolds
    <3>3. n.attempt <= w.attempt /\ n.epoch <= w.epoch
      BY <1>8 DEF CallRecord
    <3>4. CallHolds(n, viewer', wanted')
      BY <1>1, <1>8, <3>1, <3>2, <3>3 DEF CallHolds
    <3> QED
      BY <1>8, <2>1, <3>4 DEF BytesHold
  <2>2. CASE d # n
    <3>1. d \in calls
      BY <1>1, <2>2
    <3>2. /\ CallShape(d) /\ BytesHold(d, files) /\ d.epoch <= viewer.epoch
          /\ d.kind = "open" => d.settled
      BY <1>1, <1>9, <3>1 DEF Behind
    <3>3. d.settled => d.aborted
      BY <3>2 DEF CallShape
    <3>4. d.attempt <= w.attempt /\ d.attempt # w.attempt
      BY <1>4, <1>5, <1>10, <3>1
    <3>5. WantedHolds(d, viewer', wanted')
      BY <1>1, <3>4 DEF WantedHolds
    <3>6. CallHolds(d, viewer', wanted')
      BY <1>1, <1>4, <3>2, <3>3, <3>4, <3>5 DEF CallHolds
    <3> QED
      BY <3>2, <3>6
  <2> QED
    BY <2>1, <2>2
<1>15. TextIsOneVersion'
  <2>1. viewer'.shown = viewer.shown /\ viewer'.fed = viewer.fed /\ viewer'.doc = viewer.doc
        /\ viewer'.version = viewer.version
    BY <1>1, <1>4
  <2> QED
    BY <1>2, <2>1 DEF TextIsOneVersion
<1>16. SpinnersEnd'
  <2>1. /\ n \in calls' /\ ~ n.aborted /\ n.epoch = viewer'.epoch /\ n.attempt = viewer'.attempt /\ n.kind = "chunk"
    BY <1>1, <1>8
  <2> QED
    BY <2>1 DEF SpinnersEnd, StillWanted
<1> QED
  BY <1>11, <1>12, <1>13, <1>14, <1>15, <1>16 DEF DocumentInv

\* The reader asks for a document.
LEMMA AskHolds ==
    ASSUME DocumentInv, UNCHANGED <<files, memo>>,
           funds' \in [{"asks", "reads", "writes", "restarts", "fails", "looks"} -> Nat],
           NEW request \in Requests, request.doc # 0, request.parent = request.base, wanted' = request.doc,
           Opens(viewer, request, FALSE, 0, NoRequest, FALSE, calls)
    PROVE  DocumentInv'
<1> DEFINE none == NoRequest  no == FALSE  zero == 0
<1>1. Opens(viewer, request, no, zero, none, no, calls) /\ none \in Requests /\ none = NoRequest
      /\ no \in BOOLEAN /\ zero \in Nat
  BY NumbersApart
<1> HIDE DEF none, no, zero
<1>2. Behind(calls) /\ viewer \in ViewerRecord /\ ViewerHolds(viewer, wanted)
  BY CallsBehind DEF DocumentInv, DocumentTyped
<1>3. viewer.source.parent = viewer.source.base /\ (viewer.doc # 0 => viewer.doc = viewer.source.doc)
  BY <1>2 DEF ViewerHolds
<1>4. wanted' = (IF none = NoRequest THEN request.doc ELSE none.doc)
  BY <1>1
<1>5. none # NoRequest => none.doc \in Documents /\ none.base = request.doc /\ viewer.doc = 0
  BY <1>1
<1> QED
  BY <1>1, <1>2, <1>3, <1>4, <1>5, OpensHolds

LEMMA AsksHolds ==
    ASSUME DocumentInv, NEW d \in Documents, AsksForDocument(d) \/ FollowsLink(d)
    PROVE  DocumentInv'
<1>1. /\ UNCHANGED <<files, memo>> /\ Spends("asks") /\ wanted' = d
      /\ \/ Opens(viewer, Request(d, 0, 0), FALSE, 0, NoRequest, FALSE, calls)
         \/ Opens(viewer, Request(d, viewer.doc, viewer.doc), FALSE, 0, NoRequest, FALSE, calls)
  BY DEF AsksForDocument, FollowsLink
<1>2. funds' \in [{"asks", "reads", "writes", "restarts", "fails", "looks"} -> Nat]
  BY <1>1, SpendsTyped DEF DocumentInv
<1>3. ASSUME NEW p \in Numbered
      PROVE  /\ Request(d, p, p) \in Requests /\ Request(d, p, p).doc = d /\ d # 0
             /\ Request(d, p, p).parent = Request(d, p, p).base
  BY NumbersApart DEF Request, Requests, Numbered
<1>4. 0 \in Numbered /\ viewer.doc \in Numbered
  BY DEF DocumentInv, DocumentTyped, ViewerRecord, Numbered
<1>5. PICK request : /\ Opens(viewer, request, FALSE, 0, NoRequest, FALSE, calls)
                     /\ request = Request(d, 0, 0) \/ request = Request(d, viewer.doc, viewer.doc)
  BY <1>1
<1>6. request \in Requests /\ request.doc = d /\ d # 0 /\ request.parent = request.base
  BY <1>3, <1>4, <1>5
<1> QED
  BY <1>1, <1>2, <1>5, <1>6, AskHolds

LEMMA RetryHolds ==
    ASSUME DocumentInv, RetriesDocument
    PROVE  DocumentInv'
<1>1. UNCHANGED <<files, memo>> /\ Spends("asks") /\ viewer.status = "error"
  BY DEF RetriesDocument
<1>2. funds' \in [{"asks", "reads", "writes", "restarts", "fails", "looks"} -> Nat]
  BY <1>1, SpendsTyped DEF DocumentInv
<1>3. CASE viewer.doc = 0
  <2>1. wanted' = viewer.source.doc /\ Opens(viewer, viewer.source, FALSE, 0, NoRequest, FALSE, calls)
    BY <1>3 DEF RetriesDocument
  <2>2. viewer.source \in Requests /\ viewer.source.doc # 0 /\ viewer.source.parent = viewer.source.base
    BY <1>1 DEF DocumentInv, DocumentTyped, ViewerRecord, ViewerHolds
  <2> QED
    BY <1>1, <1>2, <2>1, <2>2, AskHolds
<1>4. CASE viewer.doc # 0
  <2>1. LoadsNext /\ UNCHANGED wanted
    BY <1>4 DEF RetriesDocument
  <2> QED
    BY <1>1, <1>2, <2>1, LoadsNextHolds
<1> QED
  BY <1>3, <1>4

\* The page stops waiting: the reader closes the document, or looks away.
LEMMA StopsHolds ==
    ASSUME DocumentInv, UNCHANGED <<files, memo>>,
           funds' \in [{"asks", "reads", "writes", "restarts", "fails", "looks"} -> Nat],
           NEW v \in ViewerRecord, viewer' = v, wanted' \in Numbered, calls' = Aborted(calls),
           v.attempt = viewer.attempt + 1, v.epoch >= viewer.epoch, v.inFlight = FALSE,
           v.doc \in {0, viewer.doc}, v.status # "loading", v.status = "opening" => v.left,
           ViewerHolds(v, wanted'), TextIsOneVersion'
    PROVE  DocumentInv'
<1>1. Behind(calls') /\ \A d \in calls' : d.kind = "open" => d.aborted
  BY CallsBehind, AbortedBehind
<1>2. DocumentTyped'
  BY <1>1 DEF DocumentInv, DocumentTyped, Behind
<1>3. viewer.attempt \in Nat /\ viewer.epoch \in Nat /\ v.epoch \in Nat
  BY DEF DocumentInv, DocumentTyped, ViewerRecord
<1>4. ASSUME NEW d \in calls' PROVE CallHolds(d, viewer', wanted') /\ BytesHold(d, files')
  <2>1. /\ d \in CallRecord /\ CallShape(d) /\ BytesHold(d, files) /\ d.attempt <= viewer.attempt
           /\ d.epoch <= viewer.epoch
        /\ d.kind = "open" => (d.settled \/ viewer.doc = 0) /\ d.aborted
    BY <1>1 DEF Behind
  <2>2. d.attempt \in Nat /\ d.epoch \in Nat
    BY <2>1 DEF CallRecord
  <2>3. d.attempt <= v.attempt /\ d.attempt # v.attempt /\ d.epoch <= v.epoch
    BY <1>3, <2>1, <2>2
  <2>4. WantedHolds(d, viewer', wanted')
    BY <2>3 DEF WantedHolds
  <2> QED
    BY <2>1, <2>3, <2>4 DEF CallHolds
<1>5. SpinnersEnd'
  BY DEF SpinnersEnd
<1> QED
  BY <1>1, <1>2, <1>4, <1>5 DEF DocumentInv, Behind

LEMMA ClosesHolds ==
    ASSUME DocumentInv, ClosesDocument
    PROVE  DocumentInv'
<1> DEFINE epoch == viewer.epoch + 1  attempt == viewer.attempt + 1  reopened == viewer.reopened
           v == [Closed EXCEPT !.epoch = epoch, !.attempt = attempt, !.reopened = reopened]
           empty == <<>>  no == FALSE  yes == TRUE  none == NoRequest  zero == 0  fine == "none"
<1>1. /\ UNCHANGED <<files, memo, funds>> /\ wanted' = 0 /\ calls' = Aborted(calls) /\ viewer' = v
  BY DEF ClosesDocument
<1>2. epoch \in Nat /\ attempt \in Nat /\ reopened \in BOOLEAN /\ viewer.epoch \in Nat
  BY DEF DocumentInv, DocumentTyped, ViewerRecord
<1>3. /\ empty \in Seq([doc : Numbered, version : Nat, index : Nat]) /\ empty \in Seq(Nat) /\ none \in Requests
      /\ zero \in Nat /\ zero \in Numbered /\ no \in BOOLEAN /\ yes \in BOOLEAN /\ fine \in Codes
      /\ none.parent = none.base /\ no = FALSE /\ zero = 0 /\ empty = <<>>
  BY NumbersApart DEF Numbered, Codes
<1> HIDE DEF epoch, attempt, reopened, empty, no, yes, none, zero, fine
<1>4. Closed \in ViewerRecord /\ Closed.inFlight = FALSE /\ Closed.doc = 0 /\ Closed.status = "closed"
      /\ Closed.shown = <<>> /\ Closed.fed = <<>> /\ Closed.source = none
  <2>1. Closed = [status |-> "closed", reserved |-> no, source |-> none, doc |-> zero, version |-> zero,
                  shown |-> empty, fed |-> empty, complete |-> no, error |-> fine, epoch |-> zero, attempt |-> zero,
                  inFlight |-> no, active |-> yes, reopened |-> no, left |-> no]
    BY DEF Closed, no, none, zero, empty, fine, yes
  <2>2. Closed \in ViewerRecord
    BY <1>3, <2>1 DEF ViewerRecord
  <2> QED
    BY <1>3, <2>1, <2>2
<1>5. v \in ViewerRecord
  BY <1>2, <1>4 DEF ViewerRecord
<1>6. /\ v.attempt = viewer.attempt + 1 /\ v.epoch = viewer.epoch + 1 /\ v.inFlight = FALSE /\ v.doc = 0
      /\ v.status = "closed" /\ v.shown = <<>> /\ v.fed = <<>> /\ v.source = none
  BY <1>4 DEF ViewerRecord, attempt, epoch
<1> HIDE DEF v
<1>7. ViewerHolds(v, wanted')
  BY <1>1, <1>3, <1>6 DEF ViewerHolds
<1>8. TextIsOneVersion'
  BY <1>1, <1>6 DEF TextIsOneVersion
<1>9. v.epoch >= viewer.epoch /\ wanted' \in Numbered /\ v.doc \in {0, viewer.doc} /\ v.status # "loading"
      /\ (v.status = "opening" => v.left)
  BY <1>1, <1>2, <1>6 DEF Numbered
<1> QED
  BY <1>1, <1>5, <1>6, <1>7, <1>8, <1>9, FundsStay, StopsHolds

LEMMA LooksAwayHolds ==
    ASSUME DocumentInv, LooksAway
    PROVE  DocumentInv'
<1> DEFINE attempt == viewer.attempt + 1  no == FALSE
           status == IF viewer.status = "loading" THEN "open" ELSE viewer.status
           left2 == viewer.left \/ viewer.status = "opening"
           v == [viewer EXCEPT !.active = no, !.inFlight = no, !.attempt = attempt, !.status = status, !.left = left2]
<1>1. UNCHANGED <<files, memo, wanted>> /\ Spends("looks") /\ calls' = Aborted(calls) /\ viewer' = v
  BY DEF LooksAway
<1>2. /\ viewer \in ViewerRecord /\ viewer.epoch \in Nat /\ attempt \in Nat /\ no \in BOOLEAN /\ no = FALSE
      /\ ViewerHolds(viewer, wanted) /\ TextIsOneVersion
  BY DEF DocumentInv, DocumentTyped, ViewerRecord
<1>3. viewer.status \in {"closed", "opening", "open", "loading", "error"} /\ viewer.left \in BOOLEAN
  BY <1>2 DEF ViewerRecord
<1>4. /\ status \in {"closed", "opening", "open", "loading", "error"} /\ status # "loading"
      /\ (status = viewer.status \/ (status = "open" /\ viewer.status = "loading"))
  BY <1>3
<1>5. left2 \in BOOLEAN /\ (status = "opening" => left2)
  BY <1>3
<1> HIDE DEF no, status, left2, attempt
<1>6. v \in ViewerRecord
  BY <1>2, <1>4, <1>5 DEF ViewerRecord
<1>7. /\ v.attempt = attempt /\ v.epoch = viewer.epoch /\ v.inFlight = no /\ v.doc = viewer.doc /\ v.status = status
      /\ v.left = left2 /\ v.shown = viewer.shown /\ v.fed = viewer.fed /\ v.source = viewer.source
      /\ v.version = viewer.version
  BY <1>2 DEF ViewerRecord
<1> HIDE DEF v
<1>8. ViewerHolds(v, wanted')
  BY <1>1, <1>2, <1>4, <1>7 DEF ViewerHolds
<1>9. TextIsOneVersion'
  <2>1. viewer'.shown = viewer.shown /\ viewer'.fed = viewer.fed /\ viewer'.doc = viewer.doc
        /\ viewer'.version = viewer.version
    BY <1>1, <1>7
  <2> QED
    BY <1>2, <2>1 DEF TextIsOneVersion
<1>10. /\ v.attempt = viewer.attempt + 1 /\ v.epoch >= viewer.epoch /\ v.inFlight = FALSE /\ v.doc \in {0, viewer.doc}
       /\ v.status # "loading" /\ wanted' \in Numbered
  BY <1>1, <1>2, <1>4, <1>7 DEF attempt, DocumentInv, DocumentTyped
<1>11. v.status = "opening" => v.left
  BY <1>5, <1>7
<1>12. funds' \in [{"asks", "reads", "writes", "restarts", "fails", "looks"} -> Nat]
  BY <1>1, SpendsTyped DEF DocumentInv
<1> QED
  BY <1>1, <1>6, <1>8, <1>9, <1>10, <1>11, <1>12, StopsHolds

LEMMA LooksBackHolds ==
    ASSUME DocumentInv, LooksBack
    PROVE  DocumentInv'
<1> DEFINE yes == TRUE
           v == [viewer EXCEPT !.active = yes]
<1>1. UNCHANGED <<files, memo, calls, wanted, funds>> /\ viewer' = v /\ yes \in BOOLEAN /\ viewer \in ViewerRecord
  BY DEF LooksBack, DocumentInv, DocumentTyped
<1> HIDE DEF yes
<1>2. /\ v \in ViewerRecord /\ v.status = viewer.status /\ v.source = viewer.source /\ v.doc = viewer.doc
      /\ v.version = viewer.version /\ v.shown = viewer.shown /\ v.fed = viewer.fed /\ v.epoch = viewer.epoch
      /\ v.attempt = viewer.attempt /\ v.left = viewer.left /\ v.inFlight = viewer.inFlight
  BY <1>1 DEF ViewerRecord
<1> HIDE DEF v
<1>3. DocumentTyped' /\ OneEach(calls')
  BY <1>1, <1>2 DEF DocumentInv, DocumentTyped
<1>4. ViewerHolds(viewer', wanted')
  BY <1>1, <1>2 DEF DocumentInv, ViewerHolds
<1>5. \A c \in calls' : CallHolds(c, viewer', wanted') /\ BytesHold(c, files')
  BY <1>1, <1>2 DEF DocumentInv, CallHolds, WantedHolds
<1>6. TextIsOneVersion'
  <2>1. viewer'.shown = viewer.shown /\ viewer'.fed = viewer.fed /\ viewer'.doc = viewer.doc
        /\ viewer'.version = viewer.version
    BY <1>1, <1>2
  <2> QED
    BY <2>1 DEF DocumentInv, TextIsOneVersion
<1>7. SpinnersEnd'
  BY <1>1, <1>2 DEF DocumentInv, SpinnersEnd, StillWanted
<1> QED
  BY <1>3, <1>4, <1>5, <1>6, <1>7 DEF DocumentInv

-----------------------------------------------------------------------------
(* The theorem. *)

LEMMA DocumentBegins ==
    ASSUME DocumentInit
    PROVE  DocumentInv
<1> DEFINE empty == <<>>  no == FALSE  yes == TRUE  none == NoRequest  zero == 0  fine == "none"
<1>1. /\ files = [d \in Documents |-> 1] /\ memo = <<>> /\ viewer = Closed /\ calls = {} /\ wanted = 0
      /\ funds \in DocumentLoads
  BY DEF DocumentInit
<1>2. /\ empty \in Seq([doc : Numbered, version : Nat, index : Nat]) /\ empty \in Seq(Nat) /\ none \in Requests
      /\ zero \in Nat /\ zero \in Numbered /\ no \in BOOLEAN /\ yes \in BOOLEAN /\ fine \in Codes
      /\ none.parent = none.base /\ no = FALSE /\ zero = 0 /\ empty = <<>>
  BY NumbersApart DEF Numbered, Codes
<1> HIDE DEF empty, no, yes, none, zero, fine
<1>3. viewer = [status |-> "closed", reserved |-> no, source |-> none, doc |-> zero, version |-> zero,
                shown |-> empty, fed |-> empty, complete |-> no, error |-> fine, epoch |-> zero, attempt |-> zero,
                inFlight |-> no, active |-> yes, reopened |-> no, left |-> no]
  BY <1>1 DEF Closed, no, none, zero, empty, fine, yes
<1>4. viewer \in ViewerRecord
  BY <1>2, <1>3 DEF ViewerRecord
<1>5. /\ viewer.status = "closed" /\ viewer.source = none /\ viewer.doc = 0 /\ viewer.shown = <<>>
         /\ viewer.fed = <<>>
      /\ viewer.inFlight = FALSE
  BY <1>2, <1>3
<1>6. DocumentTyped
  <2>1. memo \in Seq([doc : Documents, version : Nat]) /\ Len(memo) <= MemoMax
    BY <1>1, NumbersApart
  <2>2. files \in [Documents -> Nat] /\ funds \in [{"asks", "reads", "writes", "restarts", "fails", "looks"} -> Nat]
    BY <1>1, DocumentsAssumption
  <2>3. calls \subseteq CallRecord /\ IsFiniteSet(calls)
    BY <1>1, FS_EmptySet
  <2> QED
    BY <1>1, <1>2, <1>4, <2>1, <2>2, <2>3 DEF DocumentTyped, Numbered
<1>7. ViewerHolds(viewer, wanted)
  BY <1>1, <1>2, <1>5 DEF ViewerHolds
<1>8. TextIsOneVersion
  BY <1>5 DEF TextIsOneVersion
<1>9. SpinnersEnd
  BY <1>5 DEF SpinnersEnd
<1> QED
  BY <1>1, <1>6, <1>7, <1>8, <1>9 DEF DocumentInv, OneEach

LEMMA DocumentStep ==
    ASSUME DocumentInv, [DocumentNext]_documentVars
    PROVE  DocumentInv'
<1>1. ASSUME NEW c \in calls,
             \/ OpenStats(c) \/ OpenIssues(c) \/ ChunkStats(c) \/ ChunkReads(c) \/ ChunkSends(c)
             \/ CallFails(c) \/ OpenLands(c) \/ ChunkLands(c)
      PROVE  DocumentInv'
  BY <1>1, OpenStatsHolds, OpenIssuesHolds, ChunkStatsHolds, ChunkReadsHolds, ChunkSendsHolds, CallFailsHolds,
     OpenLandsHolds, ChunkLandsHolds
<1>2. ASSUME NEW d \in Documents, FileSaved(d) \/ AsksForDocument(d) \/ FollowsLink(d)
      PROVE  DocumentInv'
  BY <1>2, FileSavedHolds, AsksHolds
<1>3. CASE LoadsFirst
  BY <1>3, LoadsNextHolds, FundsStay DEF LoadsFirst
<1>4. CASE LoadsMore
  <2>1. Spends("reads") /\ LoadsNext /\ UNCHANGED <<files, memo, wanted>>
    BY <1>4 DEF LoadsMore
  <2>2. funds' \in [{"asks", "reads", "writes", "restarts", "fails", "looks"} -> Nat]
    BY <2>1, SpendsTyped DEF DocumentInv
  <2> QED
    BY <2>1, <2>2, LoadsNextHolds
<1>5. CASE DocumentServerRestarts
  BY <1>5, RestartHolds
<1>6. CASE RetriesDocument
  BY <1>6, RetryHolds
<1>7. CASE ClosesDocument
  BY <1>7, ClosesHolds
<1>8. CASE LooksAway \/ LooksBack
  BY <1>8, LooksAwayHolds, LooksBackHolds
<1>9. CASE UNCHANGED documentVars
  <2>1. UNCHANGED <<files, memo, viewer, calls, wanted, funds>>
    BY <1>9 DEF documentVars
  <2>2. DocumentTyped' /\ OneEach(calls') /\ ViewerHolds(viewer', wanted')
    BY <2>1 DEF DocumentInv, DocumentTyped
  <2>3. \A c \in calls' : CallHolds(c, viewer', wanted') /\ BytesHold(c, files')
    BY <2>1 DEF DocumentInv
  <2>4. TextIsOneVersion' /\ SpinnersEnd'
    BY <2>1 DEF DocumentInv, TextIsOneVersion, SpinnersEnd, StillWanted
  <2> QED
    BY <2>2, <2>3, <2>4 DEF DocumentInv
<1> QED
  BY <1>1, <1>2, <1>3, <1>4, <1>5, <1>6, <1>7, <1>8, <1>9 DEF DocumentNext

\* What is called is as many calls as attempts: no attempt is made twice.
LEMMA AttemptsCounted ==
    ASSUME DocumentInv
    PROVE  Cardinality(calls) = Cardinality({c.attempt : c \in calls})
<1> DEFINE T == {c.attempt : c \in calls}
           f == [c \in calls |-> c.attempt]
<1>1. f \in Bijection(calls, T)
  <2>1. f \in Surjection(calls, T)
    BY DEF Surjection
  <2>2. f \in Injection(calls, T)
    BY DEF Injection, IsInjective, DocumentInv, OneEach
  <2> QED
    BY <2>1, <2>2 DEF Bijection
<1>2. ExistsBijection(calls, T)
  BY <1>1 DEF ExistsBijection
<1> QED
  BY <1>2, FS_Bijection DEF DocumentInv, DocumentTyped

LEMMA DocumentInvHolds ==
    ASSUME DocumentInv
    PROVE  DocumentHolds
<1>1. viewer.status \in {"closed", "opening", "open", "loading", "error"} /\ viewer.doc \in Documents \cup {0}
  BY DEF DocumentInv, DocumentTyped, ViewerRecord, Numbered
<1>2. DocumentTypes
  BY <1>1, AttemptsCounted DEF DocumentTypes, DocumentInv, DocumentTyped, Numbered
<1>3. LastAskedIsShown
  BY DEF LastAskedIsShown, DocumentInv, ViewerHolds
<1>4. LinksKeepTheirBase
  BY DEF LinksKeepTheirBase, DocumentInv, CallHolds, CallShape
<1> QED
  BY <1>2, <1>3, <1>4 DEF DocumentHolds, DocumentInv

\* A document that is read in the page is shown whole and in one version, is the one that was
\* asked for last, and keeps nobody waiting for an answer that will not be heard: for any
\* documents and chunks, any bound of the server's memory, and however often requests fail or
\* are aborted, the file is saved and the server restarts.
THEOREM DocumentsTrue == DocumentSpec => []DocumentHolds
<1>1. DocumentInit => DocumentInv
  BY DocumentBegins
<1>2. DocumentInv /\ [DocumentNext]_documentVars => DocumentInv'
  BY DocumentStep
<1>3. DocumentInv => DocumentHolds
  BY DocumentInvHolds
<1> QED
  BY <1>1, <1>2, <1>3, PTL DEF DocumentSpec

-----------------------------------------------------------------------------
(* The keys of a terminal.  What makes KeysArrive inductive. *)

KeyFrames == [kind : {"subscribe"}, raw : BOOLEAN] \cup [kind : {"keys"}, keys : Seq(Nat)]
LeaseFrames == [kind : {"lease", "readOnly", "notSubscribed"}, writable : BOOLEAN]
KeyHeld == [key : Nat, atOnce : BOOLEAN]
PageRecord ==
    [writable : BOOLEAN, subscribed : BOOLEAN, awaiting : BOOLEAN, view : {"terminal", "hidden", "document"},
     held : Seq(KeyHeld), buffer : Seq(Nat), next : Nat, open : BOOLEAN, asked : Nat]
Budgets == [{"keys", "looks", "losses"} -> Nat]

\* A socket is in the server's list once, while its page has it open; without one nothing is
\* on its way.
SocketsTyped ==
    /\ clients \in Seq(Pages) /\ \A i, j \in DOMAIN clients : clients[i] = clients[j] => i = j
    /\ \A p \in Pages : (p \in ToSet(clients)) = (pages[p].open = TRUE)
    /\ \A p \in Pages : pages[p].open = FALSE => keyWire[p] = <<>> /\ leaseWire[p] = <<>>
    /\ keyWire \in [Pages -> Seq(KeyFrames)] /\ leaseWire \in [Pages -> Seq(LeaseFrames)]
    /\ pages \in [Pages -> PageRecord] /\ budget \in Budgets

\* Only a page that waits for its stream holds keys back.
HeldHolds(g) == Len(g.held) <= HeldKeys /\ (g.subscribed => g.held = <<>>)

\* The lease is some subscriber's, if there is one.
OwnerHolds ==
    /\ subs \subseteq ToSet(clients) /\ owner \in Pages \cup {0}
    /\ (subs # {}) = (owner # 0) /\ (owner # 0 => owner \in subs)

\* What a page will believe when it has read the frames that are on their way to it.
Believes(writable, wire, b) ==
    /\ (\A i \in 1..Len(wire) : wire[i].kind # "lease") => writable = b
    /\ \A i \in 1..Len(wire) :
         wire[i].kind = "lease" /\ (\A j \in 1..Len(wire) : i < j => wire[j].kind # "lease")
         => wire[i].writable = b
LeaseHolds == \A p \in subs : Believes(pages[p].writable, leaseWire[p], owner = p)

\* The keys of a page on their way, in the order in which they were pressed: what the server
\* has, what is on the wire, in the coalescer, held back, and the next one.
Rising(s) == \A i, j \in 1..Len(s) : i < j => s[i] < s[j]
Under(A, B) == \A x \in A, y \in B : x < y
KeysIn(f) == IF f.kind = "keys" THEN ToSet(f.keys) ELSE {}
Lane(a, wire, b, h, n) ==
    /\ a \subseteq Nat
    /\ \A i \in 1..Len(wire) : wire[i].kind = "keys" => Rising(wire[i].keys)
    /\ \A i, j \in 1..Len(wire) : i < j => Under(KeysIn(wire[i]), KeysIn(wire[j]))
    /\ \A i \in 1..Len(wire) :
         /\ Under(a, KeysIn(wire[i]))
         /\ Under(KeysIn(wire[i]), ToSet(b) \cup ToSet(h) \cup {n})
    /\ Rising(b) /\ Rising(h)
    /\ Under(a, ToSet(b) \cup ToSet(h) \cup {n})
    /\ Under(ToSet(b), ToSet(h) \cup {n}) /\ Under(ToSet(h), {n})

KeyRecord == [page : Pages, key : Nat]
Came(p) == {k \in Nat : \E i \in 1..Len(came) : came[i] = [page |-> p, key |-> k]}
LaneHolds(p) == Lane(Came(p), keyWire[p], pages[p].buffer, KeysOf(pages[p].held), pages[p].next)

\* The keys whose tab is being looked up came, each once, and are not typed yet.
CameInOrder ==
    /\ came \in Seq(KeyRecord)
    /\ \A i, j \in 1..Len(came) : i < j /\ came[i].page = came[j].page => came[i].key < came[j].key
LookingHolds ==
    /\ looking \subseteq [page : Pages, keys : Seq(Nat)]
    /\ \A k \in looking : Rising(k.keys) /\ ToSet(k.keys) \subseteq Came(k.page)
    /\ \A k, l \in looking : k # l /\ k.page = l.page => ToSet(k.keys) \cap ToSet(l.keys) = {}
TypedHolds ==
    /\ typed \in Seq(KeyRecord)
    /\ \A i \in 1..Len(typed) : typed[i].key \in Came(typed[i].page)
    /\ \A i \in 1..Len(typed) : \A k \in looking :
         k.page = typed[i].page => typed[i].key \notin ToSet(k.keys)
    /\ \A i, j \in 1..Len(typed) : typed[i] = typed[j] => i = j

InputInv ==
    /\ SocketsTyped /\ OwnerHolds /\ LeaseHolds
    /\ \A p \in Pages : HeldHolds(pages[p]) /\ LaneHolds(p)
    /\ CameInOrder /\ LookingHolds /\ TypedHolds

-----------------------------------------------------------------------------
(* Keys in a row. *)

LEMMA SetOfSeq ==
    ASSUME NEW T, NEW s \in Seq(T)
    PROVE  /\ ToSet(s) = {s[i] : i \in 1..Len(s)} /\ ToSet(s) \subseteq T
           /\ ToSet(<<>>) = {}
<1>1. DOMAIN s = 1..Len(s) /\ \A i \in 1..Len(s) : s[i] \in T
  BY ElementOfSeq, LenProperties
<1> QED
  BY <1>1 DEF ToSet

LEMMA SetOfAppend ==
    ASSUME NEW T, NEW s \in Seq(T), NEW x \in T
    PROVE  ToSet(Append(s, x)) = ToSet(s) \cup {x}
<1> DEFINE t == Append(s, x)
<1>1. t \in Seq(T) /\ Len(t) = Len(s) + 1 /\ t[Len(s) + 1] = x /\ \A i \in 1..Len(s) : t[i] = s[i]
  BY AppendProperties
<1>2. Len(s) \in Nat
  BY LenProperties
<1> HIDE DEF t
<1>3. ToSet(t) = {t[i] : i \in 1..Len(t)} /\ ToSet(s) = {s[i] : i \in 1..Len(s)}
  BY <1>1, SetOfSeq
<1>4. ASSUME NEW y \in ToSet(t) PROVE y \in ToSet(s) \cup {x}
  <2>1. PICK i \in 1..Len(t) : y = t[i]
    BY <1>3, <1>4
  <2>2. CASE i = Len(s) + 1
    BY <1>1, <2>1, <2>2
  <2>3. CASE i # Len(s) + 1
    <3>1. i \in 1..Len(s)
      BY <1>1, <1>2, <2>1, <2>3
    <3> QED
      BY <1>1, <1>3, <2>1, <3>1
  <2> QED
    BY <2>2, <2>3
<1>5. ASSUME NEW y \in ToSet(s) \cup {x} PROVE y \in ToSet(t)
  <2>1. CASE y = x
    <3>1. Len(s) + 1 \in 1..Len(t)
      BY <1>1, <1>2
    <3> QED
      BY <1>1, <1>3, <2>1, <3>1
  <2>2. CASE y \in ToSet(s)
    <3>1. PICK i \in 1..Len(s) : y = s[i]
      BY <1>3, <2>2
    <3>2. i \in 1..Len(t)
      BY <1>1, <1>2, <3>1
    <3> QED
      BY <1>1, <1>3, <3>1, <3>2
  <2> QED
    BY <1>5, <2>1, <2>2
<1> QED
  BY <1>4, <1>5 DEF t

LEMMA SetOfConcat ==
    ASSUME NEW T, NEW s \in Seq(T), NEW u \in Seq(T)
    PROVE  ToSet(s \o u) = ToSet(s) \cup ToSet(u)
<1> DEFINE t == s \o u
<1>1. t \in Seq(T) /\ Len(t) = Len(s) + Len(u)
      /\ \A i \in 1..Len(s) + Len(u) : t[i] = (IF i <= Len(s) THEN s[i] ELSE u[i - Len(s)])
  BY ConcatProperties
<1>2. Len(s) \in Nat /\ Len(u) \in Nat
  BY LenProperties
<1> HIDE DEF t
<1>3. /\ ToSet(t) = {t[i] : i \in 1..Len(t)} /\ ToSet(s) = {s[i] : i \in 1..Len(s)}
      /\ ToSet(u) = {u[i] : i \in 1..Len(u)}
  BY <1>1, SetOfSeq
<1>4. ASSUME NEW y \in ToSet(t) PROVE y \in ToSet(s) \cup ToSet(u)
  <2>1. PICK i \in 1..Len(t) : y = t[i]
    BY <1>3, <1>4
  <2>2. CASE i <= Len(s)
    <3>1. i \in 1..Len(s) /\ y = s[i]
      BY <1>1, <1>2, <2>1, <2>2
    <3> QED
      BY <1>3, <3>1
  <2>3. CASE ~ (i <= Len(s))
    <3>1. i - Len(s) \in 1..Len(u) /\ y = u[i - Len(s)]
      BY <1>1, <1>2, <2>1, <2>3
    <3> QED
      BY <1>3, <3>1
  <2> QED
    BY <2>2, <2>3
<1>5. ASSUME NEW y \in ToSet(s) \cup ToSet(u) PROVE y \in ToSet(t)
  <2>1. CASE y \in ToSet(s)
    <3>1. PICK i \in 1..Len(s) : y = s[i]
      BY <1>3, <2>1
    <3>2. i \in 1..Len(t) /\ t[i] = y
      BY <1>1, <1>2, <3>1
    <3> QED
      BY <1>3, <3>2
  <2>2. CASE y \in ToSet(u)
    <3>1. PICK i \in 1..Len(u) : y = u[i]
      BY <1>3, <2>2
    <3>2. i + Len(s) \in 1..Len(t) /\ t[i + Len(s)] = u[(i + Len(s)) - Len(s)] /\ (i + Len(s)) - Len(s) = i
      BY <1>1, <1>2, <3>1
    <3> QED
      BY <1>3, <3>1, <3>2
  <2> QED
    BY <1>5, <2>1, <2>2
<1> QED
  BY <1>4, <1>5 DEF t

\* The end of a row.
LEMMA RisingAppend ==
    ASSUME NEW s \in Seq(Nat), NEW x \in Nat, Rising(s), Under(ToSet(s), {x})
    PROVE  Rising(Append(s, x))
<1>1. Len(Append(s, x)) = Len(s) + 1 /\ Append(s, x)[Len(s) + 1] = x /\ Len(s) \in Nat
      /\ \A i \in 1..Len(s) : Append(s, x)[i] = s[i]
  BY AppendProperties, LenProperties
<1>2. \A i \in 1..Len(s) : s[i] < x
  BY SetOfSeq DEF Under
<1> SUFFICES ASSUME NEW i \in 1..Len(s) + 1, NEW j \in 1..Len(s) + 1, i < j
             PROVE  Append(s, x)[i] < Append(s, x)[j]
  BY <1>1 DEF Rising
<1>3. i \in 1..Len(s)
  BY <1>1
<1>4. CASE j = Len(s) + 1
  BY <1>1, <1>2, <1>3, <1>4
<1>5. CASE j \in 1..Len(s)
  BY <1>1, <1>3, <1>5 DEF Rising
<1> QED
  BY <1>1, <1>4, <1>5

LEMMA RisingConcat ==
    ASSUME NEW s \in Seq(Nat), NEW u \in Seq(Nat), Rising(s), Rising(u), Under(ToSet(s), ToSet(u))
    PROVE  Rising(s \o u)
<1> DEFINE t == s \o u
<1>1. Len(t) = Len(s) + Len(u) /\ Len(s) \in Nat /\ Len(u) \in Nat
      /\ \A i \in 1..Len(s) + Len(u) : t[i] = (IF i <= Len(s) THEN s[i] ELSE u[i - Len(s)])
  BY ConcatProperties, LenProperties
<1>2. ASSUME NEW i \in 1..Len(s), NEW j \in 1..Len(u) PROVE s[i] < u[j]
  <2>1. s[i] \in ToSet(s) /\ u[j] \in ToSet(u)
    BY SetOfSeq
  <2> QED
    BY <2>1 DEF Under
<1> HIDE DEF t
<1>3. ASSUME NEW i \in 1..Len(t), NEW j \in 1..Len(t), i < j PROVE t[i] < t[j]
  <2>1. CASE j <= Len(s)
    <3>1. i \in 1..Len(s) /\ j \in 1..Len(s) /\ t[i] = s[i] /\ t[j] = s[j]
      BY <1>1, <1>3, <2>1
    <3> QED
      BY <1>3, <3>1 DEF Rising
  <2>2. CASE i <= Len(s) /\ ~ (j <= Len(s))
    <3>1. i \in 1..Len(s) /\ j - Len(s) \in 1..Len(u) /\ t[i] = s[i] /\ t[j] = u[j - Len(s)]
      BY <1>1, <1>3, <2>2
    <3> QED
      BY <1>2, <3>1
  <2>3. CASE ~ (i <= Len(s))
    <3>1. i - Len(s) \in 1..Len(u) /\ j - Len(s) \in 1..Len(u) /\ i - Len(s) < j - Len(s)
          /\ t[i] = u[i - Len(s)] /\ t[j] = u[j - Len(s)]
      BY <1>1, <1>3, <2>3
    <3> QED
      BY <3>1 DEF Rising
  <2> QED
    BY <1>3, <2>1, <2>2, <2>3
<1> QED
  BY <1>3 DEF Rising, t

LEMMA NothingRises ==
    Rising(<<>>) /\ ToSet(<<>>) = {} /\ <<>> \in Seq(Nat) /\ Len(<<>>) = 0
<1> DEFINE e == <<>>
<1>1. e \in Seq(Nat) /\ Len(e) = 0
  BY EmptySeq
<1>2. ToSet(e) = {}
  BY <1>1, SetOfSeq
<1> HIDE DEF e
<1>3. Rising(e)
  BY <1>1 DEF Rising
<1> QED
  BY <1>1, <1>2, <1>3 DEF e

-----------------------------------------------------------------------------
(* The lane of a page. *)

LEMMA KeysTyped ==
    ASSUME NEW f \in KeyFrames
    PROVE  /\ f.kind \in {"subscribe", "keys"} /\ KeysIn(f) \subseteq Nat
           /\ f.kind = "keys" => f.keys \in Seq(Nat) /\ KeysIn(f) = ToSet(f.keys)
           /\ f.kind = "subscribe" => f.raw \in BOOLEAN /\ KeysIn(f) = {}
<1>1. f.kind \in {"subscribe", "keys"} /\ (f.kind = "keys" => f.keys \in Seq(Nat))
      /\ (f.kind = "subscribe" => f.raw \in BOOLEAN)
  BY DEF KeyFrames
<1>2. f.kind = "keys" => ToSet(f.keys) \subseteq Nat
  BY <1>1, SetOfSeq
<1> QED
  BY <1>1, <1>2 DEF KeysIn

\* Something goes out: what is in it stands between the wire and the rest.
LEMMA LaneAppends ==
    ASSUME NEW a, NEW w \in Seq(KeyFrames), NEW b, NEW c, NEW h, NEW n,
           Lane(a, w, b, h, n), NEW f \in KeyFrames, f.kind = "keys" => Rising(f.keys),
           Under(a, KeysIn(f)), \A i \in 1..Len(w) : Under(KeysIn(w[i]), KeysIn(f)),
           Under(KeysIn(f), ToSet(c) \cup ToSet(h) \cup {n}), Rising(c), ToSet(c) \subseteq ToSet(b)
    PROVE  Lane(a, Append(w, f), c, h, n)
<1> DEFINE v == Append(w, f)
<1>1. Len(v) = Len(w) + 1 /\ v[Len(w) + 1] = f /\ Len(w) \in Nat /\ \A i \in 1..Len(w) : v[i] = w[i]
  BY AppendProperties, LenProperties
<1> HIDE DEF v
<1>2. ASSUME NEW i \in 1..Len(v) PROVE (i \in 1..Len(w) /\ v[i] = w[i]) \/ (i = Len(w) + 1 /\ v[i] = f)
  BY <1>1
<1>3. \A i \in 1..Len(v) : v[i].kind = "keys" => Rising(v[i].keys)
  BY <1>2 DEF Lane
<1>4. ASSUME NEW i \in 1..Len(v), NEW j \in 1..Len(v), i < j PROVE Under(KeysIn(v[i]), KeysIn(v[j]))
  <2>1. i \in 1..Len(w) /\ v[i] = w[i]
    BY <1>1, <1>4
  <2> QED
    BY <1>2, <1>4, <2>1 DEF Lane
<1>5. \A i \in 1..Len(v) : Under(a, KeysIn(v[i])) /\ Under(KeysIn(v[i]), ToSet(c) \cup ToSet(h) \cup {n})
  BY <1>2 DEF Lane, Under
<1>6. Under(a, ToSet(c) \cup ToSet(h) \cup {n}) /\ Under(ToSet(c), ToSet(h) \cup {n})
  BY DEF Lane, Under
<1>7. a \subseteq Nat /\ Rising(h) /\ Under(ToSet(h), {n})
  BY DEF Lane
<1>8. Lane(a, v, c, h, n)
  BY <1>3, <1>4, <1>5, <1>6, <1>7 DEF Lane
<1> QED
  BY <1>8 DEF v

LEMMA LaneSubscribes ==
    ASSUME NEW a, NEW w \in Seq(KeyFrames), NEW b, NEW h, NEW n, Lane(a, w, b, h, n), NEW raw \in BOOLEAN
    PROVE  LET v == Append(w, [kind |-> "subscribe", raw |-> raw])
           IN  Lane(a, v, b, h, n) /\ v \in Seq(KeyFrames)
<1> DEFINE f == [kind |-> "subscribe", raw |-> raw]
<1>1. f \in KeyFrames /\ f.kind = "subscribe"
  BY DEF KeyFrames
<1> HIDE DEF f
<1>2. KeysIn(f) = {} /\ f.kind # "keys"
  BY <1>1, KeysTyped
<1>3. Rising(b)
  BY DEF Lane
<1>4. Lane(a, Append(w, f), b, h, n)
  BY <1>1, <1>2, <1>3, LaneAppends DEF Under
<1>5. Append(w, f) \in Seq(KeyFrames)
  BY <1>1, AppendProperties
<1> QED
  BY <1>4, <1>5 DEF f

\* The window of the coalescer ends.
LEMMA LaneSends ==
    ASSUME NEW a, NEW w \in Seq(KeyFrames), NEW b \in Seq(Nat), NEW h, NEW n, Lane(a, w, b, h, n)
    PROVE  Lane(a, w \o Batch(b), <<>>, h, n) /\ w \o Batch(b) \in Seq(KeyFrames)
<1>1. CASE b = <<>>
  <2>1. Batch(b) = <<>> /\ w \o <<>> = w
    BY <1>1, ConcatEmptySeq DEF Batch
  <2> QED
    BY <1>1, <2>1
<1>2. CASE b # <<>>
  <2> DEFINE f == [kind |-> "keys", keys |-> b]
  <2>1. Batch(b) = <<f>> /\ f \in KeyFrames /\ f.kind = "keys" /\ f.keys = b
    BY <1>2 DEF Batch, KeyFrames
  <2> HIDE DEF f
  <2>2. KeysIn(f) = ToSet(b)
    BY <2>1, KeysTyped
  <2>3. w \o <<f>> = Append(w, f)
    BY <2>1, AppendIsConcat
  <2>4. Append(w, f) \in Seq(KeyFrames)
    BY <2>1, AppendProperties
  <2> DEFINE c == <<>>
  <2>5. Rising(c) /\ ToSet(c) = {} /\ c = <<>>
    BY NothingRises
  <2> HIDE DEF c
  <2>6. /\ Rising(b) /\ Under(a, ToSet(b)) /\ \A i \in 1..Len(w) : Under(KeysIn(w[i]), ToSet(b))
        /\ Under(ToSet(b), ToSet(c) \cup ToSet(h) \cup {n}) /\ ToSet(c) \subseteq ToSet(b)
    BY <2>5 DEF Lane, Under
  <2>7. Lane(a, Append(w, f), c, h, n)
    BY <2>1, <2>2, <2>5, <2>6, LaneAppends
  <2> QED
    BY <2>1, <2>3, <2>4, <2>5, <2>7
<1> QED
  BY <1>1, <1>2

\* What was held back goes into the coalescer, or is forgotten.
LEMMA LaneReleases ==
    ASSUME NEW a, NEW w, NEW b \in Seq(Nat), NEW h \in Seq(Nat), NEW n, Lane(a, w, b, h, n)
    PROVE  Lane(a, w, b \o h, <<>>, n) /\ b \o h \in Seq(Nat)
<1>1. ToSet(b \o h) = ToSet(b) \cup ToSet(h) /\ b \o h \in Seq(Nat)
  BY SetOfConcat, ConcatProperties
<1>2. Rising(b \o h)
  BY RisingConcat DEF Lane, Under
<1> QED
  BY <1>1, <1>2, NothingRises DEF Lane, Under

LEMMA LaneForgets ==
    ASSUME NEW a, NEW w, NEW b, NEW h, NEW n, Lane(a, w, b, h, n)
    PROVE  Lane(a, w, b, <<>>, n) /\ Lane(a, w, <<>>, h, n) /\ Lane(a, <<>>, b, h, n)
<1>1. Lane(a, w, b, <<>>, n) /\ Lane(a, w, <<>>, h, n)
  BY NothingRises DEF Lane, Under
<1>2. 1..Len(<<>>) = {}
  BY NothingRises
<1>3. Lane(a, <<>>, b, h, n)
  BY <1>2 DEF Lane
<1> QED
  BY <1>1, <1>3

\* The keys that are held back, without whether they go at once.
LEMMA HeldTyped ==
    ASSUME NEW h \in Seq(KeyHeld)
    PROVE  /\ KeysOf(h) \in Seq(Nat) /\ Len(KeysOf(h)) = Len(h)
           /\ \A k \in KeyHeld : Append(h, k) \in Seq(KeyHeld) /\ Len(Append(h, k)) = Len(h) + 1
                                 /\ KeysOf(Append(h, k)) = Append(KeysOf(h), k.key)
<1> DEFINE s == KeysOf(h)
<1>1. DOMAIN h = 1..Len(h) /\ Len(h) \in Nat /\ \A i \in 1..Len(h) : h[i] \in KeyHeld
  BY LenProperties, ElementOfSeq
<1>2. s = [i \in 1..Len(h) |-> h[i].key] /\ \A i \in 1..Len(h) : h[i].key \in Nat
  BY <1>1 DEF KeysOf, KeyHeld
<1>3. s \in Seq(Nat) /\ Len(s) = Len(h)
  <2>1. s \in [1..Len(h) -> Nat]
    BY <1>2
  <2> HIDE DEF s
  <2>2. s \in Seq(Nat)
    BY <1>1, <2>1, SeqDef
  <2>3. DOMAIN s = 1..Len(h)
    BY <2>1
  <2> QED
    BY <1>1, <2>2, <2>3, LenProperties
<1>4. \A i \in 1..Len(h) : s[i] = h[i].key
  BY <1>2
<1> HIDE DEF s
<1>5. ASSUME NEW k \in KeyHeld
      PROVE  Append(h, k) \in Seq(KeyHeld) /\ Len(Append(h, k)) = Len(h) + 1
             /\ KeysOf(Append(h, k)) = Append(s, k.key)
  <2> DEFINE t == Append(h, k)
             u == Append(s, k.key)
  <2>1. /\ t \in Seq(KeyHeld) /\ Len(t) = Len(h) + 1 /\ t[Len(h) + 1] = k
        /\ \A i \in 1..Len(h) : t[i] = h[i]
    BY AppendProperties
  <2>2. k.key \in Nat
    BY DEF KeyHeld
  <2>3. /\ u \in Seq(Nat) /\ Len(u) = Len(h) + 1 /\ u[Len(h) + 1] = k.key
        /\ \A i \in 1..Len(h) : u[i] = s[i]
    BY <1>3, <2>2, AppendProperties
  <2>4. DOMAIN t = 1..Len(h) + 1 /\ DOMAIN u = 1..Len(h) + 1
    BY <2>1, <2>3, LenProperties
  <2> HIDE DEF t, u
  <2>5. KeysOf(t) = [i \in 1..Len(h) + 1 |-> t[i].key]
    BY <2>4 DEF KeysOf
  <2>6. ASSUME NEW i \in 1..Len(h) + 1 PROVE t[i].key = u[i]
    <3>1. CASE i = Len(h) + 1
      BY <2>1, <2>3, <3>1
    <3>2. CASE i # Len(h) + 1
      <4>1. i \in 1..Len(h)
        BY <1>1, <3>2
      <4>2. t[i] = h[i] /\ u[i] = s[i] /\ s[i] = h[i].key
        BY <1>4, <2>1, <2>3, <4>1
      <4> QED
        BY <4>2
    <3> QED
      BY <3>1, <3>2
  <2>7. u = [i \in 1..Len(h) + 1 |-> u[i]]
    <3>1. u \in [1..Len(h) + 1 -> Nat]
      BY <2>3, <2>4, ElementOfSeq
    <3> QED
      BY <3>1
  <2>8. KeysOf(t) = u
    BY <2>5, <2>6, <2>7
  <2> QED
    BY <2>1, <2>8 DEF t, u
<1> QED
  BY <1>3, <1>5 DEF s

LEMMA NothingHeld == KeysOf(<<>>) = <<>> /\ <<>> \in Seq(KeyHeld) /\ Len(<<>>) = 0
<1> DEFINE e == <<>>  s == KeysOf(e)
<1>1. e \in Seq(KeyHeld) /\ Len(e) = 0
  BY EmptySeq
<1> HIDE DEF e
<1>2. s \in Seq(Nat) /\ Len(s) = 0
  BY <1>1, HeldTyped
<1> HIDE DEF s
<1>3. s = <<>>
  BY <1>2, EmptySeq
<1> QED
  BY <1>1, <1>3 DEF s, e

\* A part of a rising sequence: what is in it, and that it rises.
LEMMA Slice ==
    ASSUME NEW keys \in Seq(Nat), Rising(keys), NEW l \in 0..Len(keys), NEW m \in 0..Len(keys), l <= m
    PROVE  LET s == SubSeq(keys, l + 1, m)
           IN  s \in Seq(Nat) /\ Rising(s) /\ ToSet(s) = {keys[i] : i \in l + 1..m}
<1> DEFINE s == SubSeq(keys, l + 1, m)
<1>1. Len(keys) \in Nat /\ l \in Nat /\ m \in Nat /\ m <= Len(keys) /\ \A i \in l + 1..m : i \in 1..Len(keys)
  BY LenProperties
<1>2. s \in Seq(Nat) /\ Len(s) = m - l /\ \A i \in 1..m - l : s[i] = keys[l + i]
  <2>1. \A i \in l + 1..m : keys[i] \in Nat
    BY <1>1, ElementOfSeq
  <2>2. /\ s \in Seq(Nat) /\ Len(s) = (IF l + 1 <= m THEN m - (l + 1) + 1 ELSE 0)
        /\ \A i \in 1..m - (l + 1) + 1 : s[i] = keys[(l + 1) + i - 1]
    BY <1>1, <2>1, SubSeqProperties
  <2> HIDE DEF s
  <2>3. ASSUME NEW i \in 1..m - l PROVE (l + 1) + i - 1 = l + i /\ i \in 1..m - (l + 1) + 1
    BY <1>1
  <2> QED
    BY <1>1, <2>2, <2>3
<1> HIDE DEF s
<1>3. ASSUME NEW i \in 1..m - l, NEW j \in 1..m - l, i < j PROVE s[i] < s[j]
  <2>1. l + i \in 1..Len(keys) /\ l + j \in 1..Len(keys) /\ l + i < l + j
    BY <1>1, <1>3
  <2> QED
    BY <1>2, <2>1 DEF Rising
<1>4. ToSet(s) = {s[i] : i \in 1..m - l}
  BY <1>2, SetOfSeq
<1>5. ASSUME NEW x \in ToSet(s) PROVE x \in {keys[i] : i \in l + 1..m}
  <2>1. PICK i \in 1..m - l : x = keys[l + i]
    BY <1>2, <1>4
  <2>2. l + i \in l + 1..m
    BY <1>1, <2>1
  <2> QED
    BY <2>1, <2>2
<1>6. ASSUME NEW i \in l + 1..m PROVE keys[i] \in ToSet(s)
  <2>1. i - l \in 1..m - l /\ l + (i - l) = i
    BY <1>1
  <2> QED
    BY <1>2, <1>4, <2>1
<1> QED
  BY <1>2, <1>3, <1>5, <1>6 DEF Rising, s

LEMMA Between ==
    ASSUME NEW n \in Nat, NEW i \in 0..n, NEW j \in 0..n, NEW k \in 0..n, NEW l \in 0..n, j <= k,
           NEW x \in i + 1..j, NEW y \in k + 1..l
    PROVE  x \in 1..n /\ y \in 1..n /\ x < y
OBVIOUS

\* The keys in N frames, each of them up to where the next one begins.
Parted(keys, N, end, f) ==
    /\ end \in [0..N -> 0..Len(keys)] /\ \A i, j \in 0..N : i <= j => end[i] <= end[j]
    /\ f \in Seq(KeyFrames) /\ Len(f) = N
    /\ \A i \in 1..N : f[i] = [kind |-> "keys", keys |-> SubSeq(keys, end[i - 1] + 1, end[i])]

\* What the coalescer sends of its buffer, one part after the other, stands between the wire
\* and what it keeps.
LEMMA LaneSlices ==
    ASSUME NEW a, NEW w \in Seq(KeyFrames), NEW keys \in Seq(Nat), NEW n, Lane(a, w, keys, <<>>, n),
           NEW N \in Nat, NEW end, NEW f, Parted(keys, N, end, f)
    PROVE  LET rest == SubSeq(keys, end[N] + 1, Len(keys))
           IN  Lane(a, w \o f, rest, <<>>, n) /\ w \o f \in Seq(KeyFrames) /\ rest \in Seq(Nat)
<1> DEFINE v == w \o f
           rest == SubSeq(keys, end[N] + 1, Len(keys))
           none == <<>>
<1>1. /\ v \in Seq(KeyFrames) /\ Len(v) = Len(w) + N /\ Len(w) \in Nat /\ Len(keys) \in Nat
      /\ \A i \in 1..Len(w) + N : v[i] = (IF i <= Len(w) THEN w[i] ELSE f[i - Len(w)])
  <2>1. f \in Seq(KeyFrames) /\ Len(f) = N
    BY DEF Parted
  <2> QED
    BY <2>1, ConcatProperties, LenProperties
<1>2. /\ none = <<>> /\ ToSet(none) = {} /\ Rising(none) /\ Rising(keys) /\ a \subseteq Nat /\ Under(a, ToSet(keys))
      /\ Under(ToSet(keys), {n}) /\ Under(a, {n})
  BY NothingRises DEF Lane, Under
<1>3. /\ \A i \in 1..Len(w) : w[i].kind = "keys" => Rising(w[i].keys)
      /\ \A i, j \in 1..Len(w) : i < j => Under(KeysIn(w[i]), KeysIn(w[j]))
      /\ \A i \in 1..Len(w) : Under(a, KeysIn(w[i])) /\ Under(KeysIn(w[i]), ToSet(keys) \cup {n})
  BY DEF Lane, Under
<1> HIDE DEF none, v
<1>4. ToSet(keys) = {keys[i] : i \in 1..Len(keys)}
  BY SetOfSeq
<1>p. /\ \A i \in 0..N : end[i] \in 0..Len(keys)
      /\ \A i, j \in 0..N : i <= j => end[i] <= end[j]
  BY DEF Parted
<1>5. ASSUME NEW i \in 1..N
      PROVE  /\ f[i].kind = "keys" /\ Rising(f[i].keys) /\ i - 1 \in 0..N /\ i \in 0..N
             /\ KeysIn(f[i]) = {keys[k] : k \in end[i - 1] + 1..end[i]} /\ KeysIn(f[i]) \subseteq ToSet(keys)
  <2>1. i - 1 \in 0..N /\ i \in 0..N /\ i - 1 <= i
    OBVIOUS
  <2>2. end[i - 1] \in 0..Len(keys) /\ end[i] \in 0..Len(keys) /\ end[i - 1] <= end[i]
    BY <1>p, <2>1
  <2> DEFINE s == SubSeq(keys, end[i - 1] + 1, end[i])
  <2>3. s \in Seq(Nat) /\ Rising(s) /\ ToSet(s) = {keys[k] : k \in end[i - 1] + 1..end[i]}
    BY <1>2, <2>2, Slice
  <2>4. f[i].kind = "keys" /\ f[i].keys = s
    <3>1. f[i] = [kind |-> "keys", keys |-> s]
      BY DEF Parted
    <3> HIDE DEF s
    <3> QED
      BY <3>1
  <2> HIDE DEF s
  <2>5. KeysIn(f[i]) = ToSet(s)
    BY <2>4 DEF KeysIn
  <2>6. \A k \in end[i - 1] + 1..end[i] : k \in 1..Len(keys)
    BY <1>1, <2>2
  <2> QED
    BY <1>4, <2>1, <2>3, <2>4, <2>5, <2>6
<1>6. ASSUME NEW i \in 1..N, NEW j \in 1..N, i < j PROVE Under(KeysIn(f[i]), KeysIn(f[j]))
  <2>1. i \in 0..N /\ j - 1 \in 0..N /\ j \in 0..N /\ i <= j - 1 /\ i - 1 \in 0..N
    BY <1>6
  <2>2. end[i] <= end[j - 1] /\ {end[i - 1], end[i], end[j - 1], end[j]} \subseteq 0..Len(keys)
    BY <1>p, <2>1
  <2>3. ASSUME NEW k \in end[i - 1] + 1..end[i], NEW m \in end[j - 1] + 1..end[j] PROVE keys[k] < keys[m]
    <3>1. /\ end[i - 1] \in 0..Len(keys) /\ end[i] \in 0..Len(keys) /\ end[j - 1] \in 0..Len(keys)
          /\ end[j] \in 0..Len(keys) /\ end[i] <= end[j - 1]
      BY <2>2
    <3> DEFINE l1 == end[i - 1]  r1 == end[i]  l2 == end[j - 1]  r2 == end[j]
    <3>2. /\ l1 \in 0..Len(keys) /\ r1 \in 0..Len(keys) /\ l2 \in 0..Len(keys) /\ r2 \in 0..Len(keys)
          /\ r1 <= l2 /\ k \in l1 + 1..r1 /\ m \in l2 + 1..r2
      BY <3>1
    <3> HIDE DEF l1, r1, l2, r2
    <3>3. k \in 1..Len(keys) /\ m \in 1..Len(keys) /\ k < m
      BY <1>1, <3>2, Between
    <3> QED
      BY <1>2, <3>3 DEF Rising
  <2>4. ASSUME NEW x \in KeysIn(f[i]), NEW y \in KeysIn(f[j]) PROVE x < y
    <3>1. PICK k \in end[i - 1] + 1..end[i] : x = keys[k]
      BY <1>5
    <3>2. PICK m \in end[j - 1] + 1..end[j] : y = keys[m]
      BY <1>5
    <3> QED
      BY <2>3, <3>1, <3>2
  <2> QED
    BY <2>4 DEF Under
<1>7. /\ rest \in Seq(Nat) /\ Rising(rest) /\ ToSet(rest) \subseteq ToSet(keys)
      /\ \A i \in 1..N : Under(KeysIn(f[i]), ToSet(rest))
  <2>1. N \in 0..N /\ end[N] \in 0..Len(keys) /\ Len(keys) \in 0..Len(keys) /\ end[N] <= Len(keys)
    <3>1. N \in 0..N
      OBVIOUS
    <3> QED
      BY <1>1, <1>p, <3>1
  <2>2. rest \in Seq(Nat) /\ Rising(rest) /\ ToSet(rest) = {keys[k] : k \in end[N] + 1..Len(keys)}
    BY <1>2, <2>1, Slice
  <2> HIDE DEF rest
  <2>3. \A k \in end[N] + 1..Len(keys) : k \in 1..Len(keys)
    BY <1>1, <2>1
  <2>4. ASSUME NEW i \in 1..N, NEW k \in end[i - 1] + 1..end[i], NEW m \in end[N] + 1..Len(keys)
        PROVE  keys[k] < keys[m]
    <3>1. i - 1 \in 0..N /\ i \in 0..N /\ i <= N
      OBVIOUS
    <3>2. end[i] <= end[N] /\ {end[i - 1], end[i]} \subseteq 0..Len(keys)
      BY <1>p, <2>1, <3>1
    <3>3. end[i - 1] \in 0..Len(keys) /\ end[i] \in 0..Len(keys)
      BY <3>2
    <3>4. k \in 1..Len(keys) /\ m \in 1..Len(keys) /\ k < m
      BY <1>1, <2>1, <3>2, <3>3, Between
    <3> QED
      BY <1>2, <3>4 DEF Rising
  <2>5. ASSUME NEW i \in 1..N, NEW x \in KeysIn(f[i]), NEW y \in ToSet(rest) PROVE x < y
    <3>1. PICK k \in end[i - 1] + 1..end[i] : x = keys[k]
      BY <1>5
    <3>2. PICK m \in end[N] + 1..Len(keys) : y = keys[m]
      BY <2>2
    <3> QED
      BY <2>4, <3>1, <3>2
  <2>6. \A i \in 1..N : Under(KeysIn(f[i]), ToSet(rest))
    BY <2>5 DEF Under
  <2> QED
    BY <1>4, <2>2, <2>3, <2>6
<1> HIDE DEF rest
<1>8. ASSUME NEW i \in 1..Len(v)
      PROVE  \/ i \in 1..Len(w) /\ v[i] = w[i]
             \/ i - Len(w) \in 1..N /\ i > Len(w) /\ v[i] = f[i - Len(w)]
  BY <1>1
<1>9. \A i \in 1..Len(v) : v[i].kind = "keys" => Rising(v[i].keys)
  BY <1>3, <1>5, <1>8
<1>10. ASSUME NEW i \in 1..Len(v), NEW j \in 1..Len(v), i < j PROVE Under(KeysIn(v[i]), KeysIn(v[j]))
  <2>1. CASE j \in 1..Len(w)
    <3>1. i \in 1..Len(w) /\ v[i] = w[i] /\ v[j] = w[j]
      BY <1>1, <1>8, <1>10, <2>1
    <3> QED
      BY <1>3, <1>10, <2>1, <3>1
  <2>2. CASE i \in 1..Len(w) /\ j \notin 1..Len(w)
    <3>1. v[i] = w[i] /\ j - Len(w) \in 1..N /\ v[j] = f[j - Len(w)]
      BY <1>1, <1>8, <2>2
    <3>2. Under(KeysIn(w[i]), ToSet(keys)) /\ KeysIn(v[j]) \subseteq ToSet(keys)
      BY <1>3, <1>5, <2>2, <3>1 DEF Under
    <3> QED
      BY <3>1, <3>2 DEF Under
  <2>3. CASE i \notin 1..Len(w)
    <3>1. /\ i - Len(w) \in 1..N /\ j - Len(w) \in 1..N /\ i - Len(w) < j - Len(w)
          /\ v[i] = f[i - Len(w)] /\ v[j] = f[j - Len(w)]
      BY <1>1, <1>8, <1>10, <2>3
    <3> QED
      BY <1>6, <3>1
  <2> QED
    BY <2>1, <2>2, <2>3
<1>11. ASSUME NEW i \in 1..Len(v)
       PROVE  Under(a, KeysIn(v[i])) /\ Under(KeysIn(v[i]), ToSet(rest) \cup ToSet(none) \cup {n})
  <2>1. CASE i \in 1..Len(w) /\ v[i] = w[i]
    BY <1>2, <1>3, <1>7, <2>1 DEF Under
  <2>2. CASE i - Len(w) \in 1..N /\ v[i] = f[i - Len(w)]
    BY <1>2, <1>5, <1>7, <2>2 DEF Under
  <2> QED
    BY <1>8, <2>1, <2>2
<1>12. /\ Under(a, ToSet(rest) \cup ToSet(none) \cup {n}) /\ Under(ToSet(rest), ToSet(none) \cup {n})
       /\ Under(ToSet(none), {n})
  BY <1>2, <1>7 DEF Under
<1>13. Lane(a, v, rest, none, n)
  BY <1>2, <1>7, <1>9, <1>10, <1>11, <1>12 DEF Lane
<1> QED
  BY <1>1, <1>2, <1>7, <1>13 DEF v, rest

\* The keys that were held back go into the coalescer; some of it goes out.
LEMMA LanePushes ==
    ASSUME NEW a, NEW w \in Seq(KeyFrames), NEW b \in Seq(Nat), NEW held \in Seq(KeyHeld), NEW n,
           Lane(a, w, b, KeysOf(held), n), NEW at \in Flushes(held)
    PROVE  LET pushed == HeldPushed(b, held, at)
           IN  /\ Lane(a, w \o pushed.frames, pushed.rest, <<>>, n)
               /\ w \o pushed.frames \in Seq(KeyFrames) /\ pushed.rest \in Seq(Nat)
<1> DEFINE keys == b \o KeysOf(held)
           now == {i \in DOMAIN held : held[i].atOnce}
           N == Cardinality(now)
           End(m) == IF m = 0 THEN 0 ELSE Len(b) + at[m]
           end == [m \in 0..N |-> End(m)]
           f == [m \in 1..N |-> [kind |-> "keys", keys |-> SubSeq(keys, End(m - 1) + 1, End(m))]]
<1>1. KeysOf(held) \in Seq(Nat) /\ Len(KeysOf(held)) = Len(held)
  BY HeldTyped
<1>2. /\ keys \in Seq(Nat) /\ Len(keys) = Len(b) + Len(held) /\ Lane(a, w, keys, <<>>, n)
      /\ Len(b) \in Nat /\ Len(held) \in Nat /\ DOMAIN held = 1..Len(held)
  <2>1. keys \in Seq(Nat) /\ Lane(a, w, keys, <<>>, n)
    BY <1>1, LaneReleases
  <2>2. Len(keys) = Len(b) + Len(KeysOf(held))
    BY <1>1, ConcatProperties
  <2>3. Len(b) \in Nat /\ Len(held) \in Nat /\ DOMAIN held = 1..Len(held)
    BY LenProperties
  <2> QED
    BY <1>1, <2>1, <2>2, <2>3
<1>3. now \subseteq 1..Len(held) /\ N \in Nat
  <2>1. now \subseteq 1..Len(held)
    BY <1>2
  <2>2. IsFiniteSet(1..Len(held))
    BY <1>2, FS_Interval
  <2>3. IsFiniteSet(now)
    BY <2>1, <2>2, FS_Subset
  <2> QED
    BY <2>1, <2>3, FS_CardinalityType
<1>4. at \in [1..N -> now] /\ \A i, j \in 1..N : i < j => at[i] < at[j]
  <2>1. at \in [1..N -> now] /\ \A i, j \in DOMAIN at : i < j => at[i] < at[j]
    BY DEF Flushes
  <2>2. DOMAIN at = 1..N
    BY <2>1
  <2> QED
    BY <2>1, <2>2
<1> HIDE DEF now, N
<1>5. DOMAIN at = 1..N /\ Len(at) = N
  <2>1. DOMAIN at = 1..N
    BY <1>4
  <2>2. at \in Seq(now)
    BY <1>3, <1>4, SeqDef
  <2> QED
    BY <1>3, <2>1, <2>2, LenProperties
<1> HIDE DEF keys
<1>6. end \in [0..N -> 0..Len(keys)]
  <2>1. ASSUME NEW m \in 0..N PROVE End(m) \in 0..Len(keys)
    <3>1. CASE m = 0
      BY <1>2, <3>1
    <3>2. CASE m # 0
      <4>1. m \in 1..N
        BY <1>3, <3>2
      <4>2. at[m] \in 1..Len(held)
        BY <1>3, <1>4, <4>1
      <4> QED
        BY <1>2, <3>2, <4>2
    <3> QED
      BY <3>1, <3>2
  <2> QED
    BY <2>1
<1>7. ASSUME NEW i \in 0..N, NEW j \in 0..N, i <= j PROVE end[i] <= end[j]
  <2>1. end[i] = End(i) /\ end[j] = End(j) /\ end[i] \in 0..Len(keys) /\ end[j] \in 0..Len(keys)
    BY <1>6
  <2>2. CASE i = 0 \/ i = j
    <3>1. Len(keys) \in Nat
      BY <1>2
    <3> QED
      BY <2>1, <2>2, <3>1
  <2>3. CASE i # 0 /\ i # j
    <3>1. i \in 1..N /\ j \in 1..N /\ i < j /\ j # 0
      BY <1>3, <1>7, <2>3
    <3>2. at[i] \in 1..Len(held) /\ at[j] \in 1..Len(held) /\ at[i] < at[j]
      BY <1>3, <1>4, <3>1
    <3>3. end[i] = Len(b) + at[i] /\ end[j] = Len(b) + at[j]
      BY <2>1, <2>3, <3>1
    <3> QED
      BY <1>2, <3>2, <3>3
  <2> QED
    BY <2>2, <2>3
<1>8. ASSUME NEW m \in 1..N
      PROVE  /\ f[m] = [kind |-> "keys", keys |-> SubSeq(keys, end[m - 1] + 1, end[m])] /\ f[m] \in KeyFrames
  <2>1. m - 1 \in 0..N /\ m \in 0..N /\ m - 1 <= m
    BY <1>3
  <2>2. end[m - 1] = End(m - 1) /\ end[m] = End(m)
    BY <2>1
  <2>3. f[m] = [kind |-> "keys", keys |-> SubSeq(keys, end[m - 1] + 1, end[m])]
    BY <2>2
  <2>4. end[m - 1] \in 0..Len(keys) /\ end[m] \in 0..Len(keys) /\ end[m - 1] <= end[m]
    BY <1>6, <1>7, <2>1
  <2> HIDE DEF end, f
  <2>5. Rising(keys)
    BY <1>2 DEF Lane
  <2>6. SubSeq(keys, end[m - 1] + 1, end[m]) \in Seq(Nat)
    BY <1>2, <2>4, <2>5, Slice
  <2> QED
    BY <2>3, <2>6 DEF KeyFrames
<1>9. f \in Seq(KeyFrames) /\ Len(f) = N
  <2>1. f \in [1..N -> KeyFrames]
    <3>1. f = [m \in 1..N |-> f[m]]
      OBVIOUS
    <3> HIDE DEF f
    <3> QED
      BY <1>8, <3>1
  <2> HIDE DEF f
  <2>2. DOMAIN f = 1..N /\ f \in Seq(KeyFrames)
    BY <1>3, <2>1, SeqDef
  <2> QED
    BY <1>3, <2>2, LenProperties
<1>10. N \in 0..N /\ end[N] = End(N)
  BY <1>3
<1> DEFINE rest == SubSeq(keys, end[N] + 1, Len(keys))
<1>11. HeldPushed(b, held, at) = [frames |-> f, rest |-> rest]
  BY <1>5, <1>10 DEF HeldPushed, keys
<1> HIDE DEF end, f
<1>p. Parted(keys, N, end, f)
  BY <1>6, <1>7, <1>8, <1>9 DEF Parted
<1>12. Lane(a, w \o f, rest, <<>>, n) /\ w \o f \in Seq(KeyFrames) /\ rest \in Seq(Nat)
  BY <1>2, <1>3, <1>p, LaneSlices
<1> HIDE DEF rest
<1> QED
  BY <1>11, <1>12

\* A key is pressed: it is held back, lost, or typed while nothing is held back.
LEMMA LaneKeeps ==
    ASSUME NEW a, NEW w \in Seq(KeyFrames), NEW b \in Seq(Nat), NEW h \in Seq(Nat), NEW n \in Nat, Lane(a, w, b, h, n)
    PROVE  /\ Lane(a, w, b, Append(h, n), n + 1) /\ Lane(a, w, b, h, n + 1)
           /\ h = <<>> => Lane(a, w, Append(b, n), <<>>, n + 1)
<1>1. ToSet(b) \subseteq Nat /\ ToSet(h) \subseteq Nat /\ a \subseteq Nat
  BY SetOfSeq DEF Lane
<1>2. \A i \in 1..Len(w) : KeysIn(w[i]) \subseteq Nat
  BY KeysTyped, ElementOfSeq
<1>3. n + 1 \in Nat /\ \A x \in Nat : x < n => x < n + 1
  OBVIOUS
<1>4. n < n + 1
  OBVIOUS
<1>5. Lane(a, w, b, h, n + 1)
  <2>1. \A i \in 1..Len(w) : Under(KeysIn(w[i]), ToSet(b) \cup ToSet(h) \cup {n + 1})
    BY <1>2, <1>3 DEF Lane, Under
  <2>2. /\ Under(a, ToSet(b) \cup ToSet(h) \cup {n + 1}) /\ Under(ToSet(b), ToSet(h) \cup {n + 1})
        /\ Under(ToSet(h), {n + 1})
    BY <1>1, <1>3 DEF Lane, Under
  <2> QED
    BY <2>1, <2>2 DEF Lane
<1>6. Lane(a, w, b, Append(h, n), n + 1)
  <2>1. ToSet(Append(h, n)) = ToSet(h) \cup {n}
    BY SetOfAppend
  <2>2. Rising(Append(h, n))
    BY RisingAppend DEF Lane
  <2>3. \A i \in 1..Len(w) : Under(KeysIn(w[i]), ToSet(b) \cup ToSet(Append(h, n)) \cup {n + 1})
    BY <1>2, <1>3, <2>1 DEF Lane, Under
  <2>4. /\ Under(a, ToSet(b) \cup ToSet(Append(h, n)) \cup {n + 1})
        /\ Under(ToSet(b), ToSet(Append(h, n)) \cup {n + 1}) /\ Under(ToSet(Append(h, n)), {n + 1})
    BY <1>1, <1>3, <1>4, <2>1 DEF Lane, Under
  <2> QED
    BY <2>2, <2>3, <2>4 DEF Lane
<1>7. h = <<>> => Lane(a, w, Append(b, n), <<>>, n + 1)
  <2>1. ToSet(Append(b, n)) = ToSet(b) \cup {n}
    BY SetOfAppend
  <2>2. Rising(Append(b, n))
    BY RisingAppend DEF Lane, Under
  <2>3. \A i \in 1..Len(w) : Under(KeysIn(w[i]), ToSet(Append(b, n)) \cup {} \cup {n + 1})
    BY <1>2, <1>3, <2>1 DEF Lane, Under
  <2>4. /\ Under(a, ToSet(Append(b, n)) \cup {} \cup {n + 1}) /\ Under(ToSet(Append(b, n)), {} \cup {n + 1})
        /\ Under({}, {n + 1})
    BY <1>1, <1>3, <1>4, <2>1 DEF Lane, Under
  <2> QED
    BY <2>2, <2>3, <2>4, NothingRises DEF Lane
<1> QED
  BY <1>5, <1>6, <1>7

\* The first of the wire comes: the server has its keys, or passes over them.
LEMMA LaneComes ==
    ASSUME NEW a, NEW w \in Seq(KeyFrames), NEW b \in Seq(Nat), NEW h \in Seq(Nat), NEW n \in Nat,
           Lane(a, w, b, h, n), w # <<>>
    PROVE  /\ Lane(a, Tail(w), b, h, n) /\ Lane(a \cup KeysIn(Head(w)), Tail(w), b, h, n)
           /\ Head(w) \in KeyFrames /\ Tail(w) \in Seq(KeyFrames) /\ Under(a, KeysIn(Head(w)))
           /\ Head(w).kind = "keys" => Rising(Head(w).keys)
<1> DEFINE v == Tail(w)
<1>1. v \in Seq(KeyFrames) /\ Len(v) = Len(w) - 1 /\ \A i \in 1..Len(v) : v[i] = w[i + 1]
  BY HeadTailProperties
<1>2. Len(w) \in Nat /\ Len(w) # 0 /\ Head(w) = w[1] /\ Head(w) \in KeyFrames
  BY LenProperties, EmptySeq, HeadTailProperties
<1> HIDE DEF v
<1>3. 1 \in 1..Len(w)
  BY <1>2
<1>4. ASSUME NEW i \in 1..Len(v) PROVE i + 1 \in 1..Len(w) /\ v[i] = w[i + 1] /\ 1 < i + 1
  BY <1>1, <1>2
<1>5. ASSUME NEW i \in 1..Len(v), NEW j \in 1..Len(v), i < j PROVE Under(KeysIn(v[i]), KeysIn(v[j]))
  <2>1. i + 1 < j + 1
    BY <1>5
  <2> QED
    BY <1>4, <2>1 DEF Lane
<1>6. /\ \A i \in 1..Len(v) : v[i].kind = "keys" => Rising(v[i].keys)
      /\ \A i \in 1..Len(v) : Under(a, KeysIn(v[i])) /\ Under(KeysIn(v[i]), ToSet(b) \cup ToSet(h) \cup {n})
  BY <1>4 DEF Lane
<1>7. \A i \in 1..Len(v) : Under(KeysIn(w[1]), KeysIn(v[i]))
  BY <1>3, <1>4 DEF Lane
<1>8. Lane(a, v, b, h, n)
  BY <1>5, <1>6 DEF Lane
<1>9. a \cup KeysIn(w[1]) \subseteq Nat
  BY <1>2, KeysTyped DEF Lane
<1>10. Under(KeysIn(w[1]), ToSet(b) \cup ToSet(h) \cup {n}) /\ Under(a, KeysIn(w[1]))
       /\ (w[1].kind = "keys" => Rising(w[1].keys))
  BY <1>3 DEF Lane
<1>11. Lane(a \cup KeysIn(w[1]), v, b, h, n)
  <2>1. \A i \in 1..Len(v) : Under(a \cup KeysIn(w[1]), KeysIn(v[i]))
    BY <1>6, <1>7 DEF Under
  <2>2. Under(a \cup KeysIn(w[1]), ToSet(b) \cup ToSet(h) \cup {n})
    BY <1>8, <1>10 DEF Lane, Under
  <2> QED
    BY <1>5, <1>6, <1>8, <1>9, <2>1, <2>2 DEF Lane
<1> QED
  BY <1>1, <1>2, <1>8, <1>10, <1>11 DEF v

-----------------------------------------------------------------------------
(* What a page believes. *)

\* Whoever is told of the lease believes what was said last; other frames say nothing of it.
LEMMA ToldBelieves ==
    ASSUME NEW w \in Seq(LeaseFrames), NEW b \in BOOLEAN, NEW writable, NEW f \in LeaseFrames
    PROVE  /\ Append(w, f) \in Seq(LeaseFrames)
           /\ f.kind = "lease" /\ f.writable = b => Believes(writable, Append(w, f), b)
           /\ f.kind # "lease" /\ Believes(writable, w, b) => Believes(writable, Append(w, f), b)
<1> DEFINE v == Append(w, f)
<1>1. v \in Seq(LeaseFrames) /\ Len(v) = Len(w) + 1 /\ v[Len(w) + 1] = f /\ \A i \in 1..Len(w) : v[i] = w[i]
  BY AppendProperties
<1>2. Len(w) \in Nat /\ Len(w) + 1 \in 1..Len(v) /\ \A i \in 1..Len(w) : i \in 1..Len(v) /\ i < Len(w) + 1
  BY <1>1, LenProperties
<1> HIDE DEF v
<1>3. \A i \in 1..Len(v) : i = Len(w) + 1 \/ i \in 1..Len(w)
  BY <1>1, <1>2
<1>4. f.kind = "lease" /\ f.writable = b => Believes(writable, v, b)
  BY <1>1, <1>2, <1>3 DEF Believes
<1>5. ASSUME f.kind # "lease", Believes(writable, w, b) PROVE Believes(writable, v, b)
  <2>1. (\A i \in 1..Len(v) : v[i].kind # "lease") => writable = b
    BY <1>1, <1>2, <1>5 DEF Believes
  <2>2. ASSUME NEW i \in 1..Len(v), v[i].kind = "lease", \A j \in 1..Len(v) : i < j => v[j].kind # "lease"
        PROVE  v[i].writable = b
    <3>1. i \in 1..Len(w) /\ v[i] = w[i]
      BY <1>1, <1>3, <1>5, <2>2
    <3>2. \A j \in 1..Len(w) : i < j => w[j].kind # "lease"
      BY <1>1, <1>2, <2>2
    <3> QED
      BY <1>5, <2>2, <3>1, <3>2 DEF Believes
  <2> QED
    BY <2>1, <2>2 DEF Believes
<1> QED
  BY <1>1, <1>4, <1>5 DEF v

LEMMA ReadBelieves ==
    ASSUME NEW w \in Seq(LeaseFrames), w # <<>>, NEW b, NEW writable, Believes(writable, w, b)
    PROVE  /\ Head(w) \in LeaseFrames /\ Tail(w) \in Seq(LeaseFrames)
           /\ Believes(IF Head(w).kind = "lease" THEN Head(w).writable ELSE writable, Tail(w), b)
<1> DEFINE v == Tail(w)
           now == IF w[1].kind = "lease" THEN w[1].writable ELSE writable
<1>1. v \in Seq(LeaseFrames) /\ Len(v) = Len(w) - 1 /\ \A i \in 1..Len(v) : v[i] = w[i + 1]
  BY HeadTailProperties
<1>2. Len(w) \in Nat /\ Len(w) # 0 /\ Head(w) = w[1] /\ Head(w) \in LeaseFrames
  BY LenProperties, EmptySeq, HeadTailProperties
<1> HIDE DEF v
<1>3. 1 \in 1..Len(w) /\ \A i \in 1..Len(v) : i + 1 \in 1..Len(w) /\ 1 < i + 1
  BY <1>1, <1>2
<1>4. ASSUME NEW i \in 1..Len(w) PROVE i = 1 \/ (i - 1 \in 1..Len(v) /\ w[i] = v[i - 1])
  <2>1. CASE i # 1
    <3>1. i - 1 \in 1..Len(v) /\ (i - 1) + 1 = i
      BY <1>1, <1>2, <2>1
    <3> QED
      BY <1>1, <3>1
  <2> QED
    BY <2>1
<1>5. ASSUME \A i \in 1..Len(v) : v[i].kind # "lease" PROVE now = b
  <2>1. CASE w[1].kind = "lease"
    <3>1. \A j \in 1..Len(w) : 1 < j => w[j].kind # "lease"
      BY <1>4, <1>5
    <3> QED
      BY <1>3, <2>1, <3>1 DEF Believes
  <2>2. CASE w[1].kind # "lease"
    <3>1. \A j \in 1..Len(w) : w[j].kind # "lease"
      BY <1>4, <1>5, <2>2
    <3> QED
      BY <2>2, <3>1 DEF Believes
  <2> QED
    BY <2>1, <2>2
<1>6. ASSUME NEW i \in 1..Len(v), v[i].kind = "lease", \A j \in 1..Len(v) : i < j => v[j].kind # "lease"
      PROVE  v[i].writable = b
  <2>1. w[i + 1] = v[i] /\ i + 1 \in 1..Len(w)
    BY <1>1, <1>3
  <2>2. ASSUME NEW j \in 1..Len(w), i + 1 < j PROVE w[j].kind # "lease"
    <3>1. i < j - 1 /\ j # 1
      BY <2>2
    <3> QED
      BY <1>4, <1>6, <3>1
  <2> QED
    BY <1>6, <2>1, <2>2 DEF Believes
<1> HIDE DEF now
<1>7. Believes(now, v, b)
  BY <1>5, <1>6 DEF Believes
<1> QED
  BY <1>1, <1>2, <1>7 DEF now, v

-----------------------------------------------------------------------------
(* The steps of a page. *)

LEMMA PageKnown ==
    ASSUME InputInv, NEW p \in Pages
    PROVE  /\ pages[p] \in PageRecord /\ keyWire[p] \in Seq(KeyFrames) /\ leaseWire[p] \in Seq(LeaseFrames)
           /\ HeldHolds(pages[p]) /\ LaneHolds(p)
              /\ (p \in subs => Believes(pages[p].writable, leaseWire[p], owner = p))
           /\ (p \in ToSet(clients)) = (pages[p].open = TRUE) /\ p # 0
           /\ pages[p].open = FALSE => keyWire[p] = <<>> /\ leaseWire[p] = <<>>
           /\ /\ pages[p].writable \in BOOLEAN /\ pages[p].subscribed \in BOOLEAN /\ pages[p].awaiting \in BOOLEAN
              /\ pages[p].view \in {"terminal", "hidden", "document"} /\ pages[p].held \in Seq(KeyHeld)
              /\ KeysOf(pages[p].held) \in Seq(Nat) /\ pages[p].buffer \in Seq(Nat)
              /\ pages[p].next \in Nat /\ pages[p].open \in BOOLEAN /\ pages[p].asked \in Nat
<1>1. pages[p] \in PageRecord /\ keyWire[p] \in Seq(KeyFrames) /\ leaseWire[p] \in Seq(LeaseFrames)
  BY DEF InputInv, SocketsTyped
<1>2. /\ pages[p].writable \in BOOLEAN /\ pages[p].subscribed \in BOOLEAN /\ pages[p].awaiting \in BOOLEAN
      /\ pages[p].view \in {"terminal", "hidden", "document"} /\ pages[p].held \in Seq(KeyHeld)
      /\ pages[p].buffer \in Seq(Nat)
      /\ pages[p].next \in Nat /\ pages[p].open \in BOOLEAN /\ pages[p].asked \in Nat
  BY <1>1 DEF PageRecord
<1>3. p # 0
  BY InputAssumption
<1>4. p \in subs => Believes(pages[p].writable, leaseWire[p], owner = p)
  BY DEF InputInv, LeaseHolds
<1>5. KeysOf(pages[p].held) \in Seq(Nat)
  BY <1>2, HeldTyped
<1> QED
  BY <1>1, <1>2, <1>3, <1>4, <1>5 DEF InputInv, SocketsTyped

LEMMA PageAt ==
    ASSUME InputInv, NEW p \in Pages
    PROVE  pages[p] \in PageRecord
BY DEF InputInv, SocketsTyped

LEMMA UsesTyped ==
    ASSUME InputInv, NEW what \in {"keys", "looks", "losses"}, Uses(what)
    PROVE  budget' \in Budgets
BY DEF InputInv, SocketsTyped, Uses, Budgets

LEMMA HistoryKept ==
    ASSUME InputInv, UNCHANGED <<looking, typed, came>>
    PROVE  CameInOrder' /\ LookingHolds' /\ TypedHolds' /\ \A q \in Pages : Came(q)' = Came(q)
<1>1. \A q \in Pages : Came(q)' = Came(q)
  BY DEF Came
<1>2. CameInOrder'
  BY DEF InputInv, CameInOrder
<1>3. LookingHolds' /\ TypedHolds'
  <2>1. ASSUME NEW k \in looking PROVE k.page \in Pages
    BY DEF InputInv, LookingHolds
  <2>2. ASSUME NEW i \in 1..Len(typed) PROVE typed[i].page \in Pages
    <3>1. typed[i] \in KeyRecord
      BY ElementOfSeq DEF InputInv, TypedHolds
    <3> QED
      BY <3>1 DEF KeyRecord
  <2>3. LookingHolds'
    <3>1. \A k \in looking : Rising(k.keys) /\ ToSet(k.keys) \subseteq Came(k.page)'
      BY <1>1, <2>1 DEF InputInv, LookingHolds
    <3>2. /\ looking' \subseteq [page : Pages, keys : Seq(Nat)]
          /\ \A k, m \in looking' : k # m /\ k.page = m.page => ToSet(k.keys) \cap ToSet(m.keys) = {}
      BY DEF InputInv, LookingHolds
    <3>3. looking' = looking
      OBVIOUS
    <3> QED
      BY <3>1, <3>2, <3>3 DEF LookingHolds
  <2>4. TypedHolds'
    BY <1>1, <2>2 DEF InputInv, TypedHolds
  <2> QED
    BY <2>3, <2>4
<1> QED
  BY <1>1, <1>2, <1>3

\* A page does something, and at most sends something.
LEMMA PageStep ==
    ASSUME InputInv, NEW p \in Pages, UNCHANGED <<clients, subs, owner, looking, typed, came>>,
           NEW g \in PageRecord, NEW w \in Seq(KeyFrames), NEW l \in Seq(LeaseFrames),
           pages' = [pages EXCEPT ![p] = g], keyWire' = [keyWire EXCEPT ![p] = w],
           leaseWire' = [leaseWire EXCEPT ![p] = l], budget' \in Budgets,
           g.open = pages[p].open, g.open = FALSE => w = <<>> /\ l = <<>>,
           HeldHolds(g), Lane(Came(p), w, g.buffer, KeysOf(g.held), g.next),
           p \in subs => Believes(g.writable, l, owner = p)
    PROVE  InputInv'
<1>1. /\ keyWire \in [Pages -> Seq(KeyFrames)] /\ leaseWire \in [Pages -> Seq(LeaseFrames)]
      /\ pages \in [Pages -> PageRecord]
  BY DEF InputInv, SocketsTyped
<1>2. /\ keyWire' \in [Pages -> Seq(KeyFrames)] /\ leaseWire' \in [Pages -> Seq(LeaseFrames)]
      /\ pages' \in [Pages -> PageRecord] /\ pages'[p] = g /\ keyWire'[p] = w /\ leaseWire'[p] = l
  BY <1>1
<1>3. \A q \in Pages : q # p => pages'[q] = pages[q] /\ keyWire'[q] = keyWire[q] /\ leaseWire'[q] = leaseWire[q]
  BY <1>1
<1>4. SocketsTyped'
  <2>1. \A q \in Pages : (q \in ToSet(clients')) = (pages'[q].open = TRUE)
    BY <1>2, <1>3 DEF InputInv, SocketsTyped
  <2>2. \A q \in Pages : pages'[q].open = FALSE => keyWire'[q] = <<>> /\ leaseWire'[q] = <<>>
    BY <1>2, <1>3 DEF InputInv, SocketsTyped
  <2> QED
    BY <1>2, <2>1, <2>2 DEF InputInv, SocketsTyped
<1>5. OwnerHolds'
  BY DEF InputInv, OwnerHolds
<1>6. LeaseHolds'
  <2>1. ASSUME NEW q \in subs PROVE Believes(pages'[q].writable, leaseWire'[q], owner = q)
    <3>1. q \in Pages
      BY SetOfSeq DEF InputInv, OwnerHolds, SocketsTyped
    <3> QED
      BY <1>2, <1>3, <3>1 DEF InputInv, LeaseHolds
  <2> QED
    BY <2>1 DEF LeaseHolds
<1>7. \A q \in Pages : Came(q)' = Came(q)
  BY HistoryKept
<1>8. ASSUME NEW q \in Pages PROVE HeldHolds(pages'[q]) /\ LaneHolds(q)'
  <2>1. CASE q = p
    BY <1>2, <1>7, <2>1 DEF LaneHolds
  <2>2. CASE q # p
    BY <1>3, <1>7, <2>2 DEF InputInv, LaneHolds
  <2> QED
    BY <2>1, <2>2
<1>9. CameInOrder' /\ LookingHolds' /\ TypedHolds'
  BY HistoryKept
<1>11. \A q \in Pages : (HeldHolds(pages[q]))' /\ LaneHolds(q)'
  BY <1>8 DEF HeldHolds
<1> QED
  BY <1>4, <1>5, <1>6, <1>9, <1>11 DEF InputInv

LEMMA SameAt ==
    ASSUME NEW T, NEW f \in [Pages -> T], NEW p \in Pages
    PROVE  f = [f EXCEPT ![p] = f[p]]
OBVIOUS

LEMMA WiresSame ==
    ASSUME InputInv, NEW p \in Pages
    PROVE  keyWire = [keyWire EXCEPT ![p] = keyWire[p]] /\ leaseWire = [leaseWire EXCEPT ![p] = leaseWire[p]]
BY SameAt DEF InputInv, SocketsTyped

LEMMA WindowHolds ==
    ASSUME InputInv, NEW p \in Pages, WindowEnds(p)
    PROVE  InputInv'
<1> DEFINE none == <<>>
           g == [pages[p] EXCEPT !.buffer = none]
           w == IF pages[p].open THEN keyWire[p] \o Batch(pages[p].buffer) ELSE keyWire[p]
           l == leaseWire[p]
<1>1. /\ UNCHANGED <<clients, subs, owner, looking, typed, came>> /\ leaseWire' = leaseWire /\ budget' = budget
      /\ keyWire' = IF pages[p].open THEN [keyWire EXCEPT ![p] = @ \o Batch(pages[p].buffer)] ELSE keyWire
      /\ pages' = [pages EXCEPT ![p].buffer = <<>>]
  BY DEF WindowEnds
<1>2. none = <<>> /\ none \in Seq(Nat)
  BY NothingRises
<1>3. pages' = [pages EXCEPT ![p] = g]
  BY <1>1
<1> HIDE DEF none
<1>4. /\ g \in PageRecord /\ g.open = pages[p].open /\ g.writable = pages[p].writable
      /\ g.subscribed = pages[p].subscribed /\ g.held = pages[p].held
      /\ g.buffer = none /\ g.next = pages[p].next
  BY <1>2, PageAt DEF PageRecord
<1>5. keyWire' = [keyWire EXCEPT ![p] = w] /\ leaseWire' = [leaseWire EXCEPT ![p] = l]
  BY <1>1, WiresSame
<1>6. Lane(Came(p), w, none, KeysOf(pages[p].held), pages[p].next) /\ w \in Seq(KeyFrames)
  <2>1. Lane(Came(p), keyWire[p], pages[p].buffer, KeysOf(pages[p].held), pages[p].next)
    BY PageKnown DEF LaneHolds
  <2> QED
    BY <1>2, <2>1, PageKnown, LaneSends, LaneForgets
<1>7. budget' \in Budgets
  BY <1>1 DEF InputInv, SocketsTyped
<1>8. l \in Seq(LeaseFrames) /\ (p \in subs => Believes(g.writable, l, owner = p))
  BY <1>4, PageKnown
<1>9. pages[p].open = FALSE => w = <<>> /\ l = <<>>
  BY PageKnown
<1>11. Lane(Came(p), w, g.buffer, KeysOf(g.held), g.next)
  BY <1>4, <1>6
<1>10. HeldHolds(g)
  BY <1>4, PageKnown DEF HeldHolds
<1> HIDE DEF g, w, l
<1> QED
  BY <1>1, <1>3, <1>4, <1>5, <1>6, <1>7, <1>8, <1>9, <1>10, <1>11, PageStep

\* What a subscription leaves of the page and puts on the wire, whatever of the keys that
\* were held back goes ahead of it.
Becomes(p, g) ==
    \E h \in PageRecord : \E w \in Seq(KeyFrames) :
      /\ pages' = [pages EXCEPT ![p] = h] /\ keyWire' = [keyWire EXCEPT ![p] = w]
      /\ HeldHolds(h) /\ Lane(Came(p), w, h.buffer, KeysOf(h.held), h.next)
      /\ h.open = g.open /\ h.writable = g.writable /\ (g.open = FALSE => w = keyWire[p])

LEMMA Sent ==
    ASSUME InputInv, NEW p \in Pages, NEW g \in PageRecord, NEW raw \in BOOLEAN, SendSubscription(p, g, raw),
           HeldHolds(g), Lane(Came(p), keyWire[p], g.buffer, KeysOf(g.held), g.next)
    PROVE  Becomes(p, g)
<1> DEFINE old == keyWire[p]
<1>1. /\ old \in Seq(KeyFrames) /\ g.open \in BOOLEAN /\ g.held \in Seq(KeyHeld) /\ g.buffer \in Seq(Nat)
  BY PageKnown DEF PageRecord
<1>2. CASE ~ g.open
  <2>1. pages' = [pages EXCEPT ![p] = g] /\ keyWire' = [keyWire EXCEPT ![p] = keyWire[p]]
    BY <1>2, WiresSame DEF SendSubscription
  <2> QED
    BY <1>1, <2>1 DEF Becomes
<1>3. CASE g.open
  <2> DEFINE none == <<>>
             held == IF raw THEN g.held ELSE none
  <2>1. none = <<>> /\ none \in Seq(KeyHeld) /\ KeysOf(none) = <<>> /\ Len(none) = 0 /\ HeldKeys \in Nat
    BY NothingHeld, InputAssumption
  <2>2. PICK at \in Flushes(held) :
          LET pushed == HeldPushed(g.buffer, held, at)
          IN  /\ keyWire' = [keyWire EXCEPT ![p] =
                   Append(@ \o pushed.frames, [kind |-> "subscribe", raw |-> raw])]
              /\ pages' = [pages EXCEPT ![p] = [g EXCEPT !.subscribed = raw, !.held = <<>>,
                                                         !.buffer = pushed.rest]]
    BY <1>3 DEF SendSubscription
  <2> DEFINE pushed == HeldPushed(g.buffer, held, at)
             rest == pushed.rest
             w == Append(old \o pushed.frames, [kind |-> "subscribe", raw |-> raw])
             h == [g EXCEPT !.subscribed = raw, !.held = none, !.buffer = rest]
  <2>3. pages' = [pages EXCEPT ![p] = h] /\ keyWire' = [keyWire EXCEPT ![p] = w]
    BY <2>2
  <2> HIDE DEF none
  <2>4. held \in Seq(KeyHeld) /\ Lane(Came(p), old, g.buffer, KeysOf(held), g.next)
    <3>1. Lane(Came(p), old, g.buffer, <<>>, g.next)
      BY LaneForgets
    <3> QED
      BY <1>1, <2>1, <3>1
  <2> HIDE DEF held, old
  <2>5. /\ Lane(Came(p), old \o pushed.frames, rest, <<>>, g.next)
        /\ old \o pushed.frames \in Seq(KeyFrames) /\ rest \in Seq(Nat)
    BY <1>1, <2>4, LanePushes
  <2> HIDE DEF pushed, rest
  <2>6. Lane(Came(p), w, rest, <<>>, g.next) /\ w \in Seq(KeyFrames)
    BY <2>5, LaneSubscribes
  <2> HIDE DEF w
  <2>7. /\ h \in PageRecord /\ h.open = g.open /\ h.writable = g.writable /\ h.held = none /\ h.buffer = rest
        /\ h.next = g.next
    BY <2>1, <2>5 DEF PageRecord
  <2> HIDE DEF h
  <2>8. HeldHolds(h) /\ Lane(Came(p), w, h.buffer, KeysOf(h.held), h.next)
    BY <2>1, <2>6, <2>7 DEF HeldHolds
  <2> QED
    BY <1>3, <2>3, <2>6, <2>7, <2>8 DEF Becomes
<1> QED
  BY <1>1, <1>2, <1>3

\* A page has become another, and subscribes or sends nothing.
LEMMA TurnsHolds ==
    ASSUME InputInv, NEW p \in Pages, UNCHANGED <<clients, subs, owner, looking, typed, came>>,
           NEW g \in PageRecord, NEW raw \in BOOLEAN, NEW l \in Seq(LeaseFrames),
           SendSubscription(p, g, raw) \/ (pages' = [pages EXCEPT ![p] = g] /\ keyWire' = keyWire),
           leaseWire' = [leaseWire EXCEPT ![p] = l], budget' \in Budgets,
           g.open = pages[p].open, g.open = FALSE => l = <<>>,
           HeldHolds(g), Lane(Came(p), keyWire[p], g.buffer, KeysOf(g.held), g.next),
           p \in subs => Believes(g.writable, l, owner = p)
    PROVE  InputInv'
<1>1. Becomes(p, g)
  <2>1. CASE SendSubscription(p, g, raw)
    BY <2>1, Sent
  <2>2. CASE pages' = [pages EXCEPT ![p] = g] /\ keyWire' = keyWire
    <3>1. keyWire' = [keyWire EXCEPT ![p] = keyWire[p]] /\ keyWire[p] \in Seq(KeyFrames)
      BY <2>2, WiresSame, PageKnown
    <3> QED
      BY <2>2, <3>1 DEF Becomes
  <2> QED
    BY <2>1, <2>2
<1>2. PICK h \in PageRecord, w \in Seq(KeyFrames) :
        /\ pages' = [pages EXCEPT ![p] = h] /\ keyWire' = [keyWire EXCEPT ![p] = w]
        /\ HeldHolds(h) /\ Lane(Came(p), w, h.buffer, KeysOf(h.held), h.next)
        /\ h.open = g.open /\ h.writable = g.writable /\ (g.open = FALSE => w = keyWire[p])
  BY <1>1 DEF Becomes
<1>3. h.open = pages[p].open /\ (h.open = FALSE => w = <<>> /\ l = <<>>)
  BY <1>2, PageKnown
<1>4. p \in subs => Believes(h.writable, l, owner = p)
  BY <1>2
<1> QED
  BY <1>2, <1>3, <1>4, PageStep

\* What a page holds back stays in its lane while only the rest of it changes.
LEMMA KeysStay ==
    ASSUME InputInv, NEW p \in Pages, NEW g \in PageRecord, g.held = pages[p].held, g.buffer = pages[p].buffer,
           g.next = pages[p].next, g.subscribed => pages[p].subscribed
    PROVE  HeldHolds(g) /\ Lane(Came(p), keyWire[p], g.buffer, KeysOf(g.held), g.next)
BY PageKnown DEF HeldHolds, LaneHolds

\* The reader looks away or back, or a screen is asked for or comes.
LEMMA LooksHolds ==
    ASSUME InputInv, NEW p \in Pages, UNCHANGED <<clients, subs, owner, looking, typed, came, leaseWire>>,
           NEW view \in {"terminal", "hidden", "document"}, NEW awaiting \in BOOLEAN, NEW asked \in Nat,
           NEW g, g = [pages[p] EXCEPT !.view = view, !.awaiting = awaiting, !.asked = asked],
           NEW raw \in BOOLEAN,
           SendSubscription(p, g, raw) \/ (pages' = [pages EXCEPT ![p] = g] /\ keyWire' = keyWire),
           budget' \in Budgets
    PROVE  InputInv'
<1> DEFINE l == leaseWire[p]
<1>1. pages[p] \in PageRecord
  BY PageAt
<1>2. /\ g \in PageRecord /\ g.open = pages[p].open /\ g.writable = pages[p].writable
      /\ g.held = pages[p].held /\ g.buffer = pages[p].buffer /\ g.next = pages[p].next
      /\ g.subscribed = pages[p].subscribed
  BY <1>1 DEF PageRecord
<1>3. HeldHolds(g) /\ Lane(Came(p), keyWire[p], g.buffer, KeysOf(g.held), g.next)
  BY <1>2, KeysStay
<1>4. /\ l \in Seq(LeaseFrames) /\ leaseWire' = [leaseWire EXCEPT ![p] = l] /\ (g.open = FALSE => l = <<>>)
      /\ (p \in subs => Believes(g.writable, l, owner = p))
  BY <1>2, PageKnown, WiresSame
<1> HIDE DEF l
<1> QED
  BY <1>2, <1>3, <1>4, TurnsHolds

LEMMA HidesHolds ==
    ASSUME InputInv, NEW p \in Pages, PageHides(p)
    PROVE  InputInv'
<1>1. PICK view \in {"hidden", "document"} :
        LET g == [pages[p] EXCEPT !.view = view]
        IN  IF g.open /\ (g.subscribed \/ view = "document")
            THEN SendSubscription(p, [g EXCEPT !.awaiting = FALSE], FALSE)
            ELSE pages' = [pages EXCEPT ![p] = g] /\ UNCHANGED keyWire
  BY DEF PageHides
<1>2. UNCHANGED <<clients, subs, owner, looking, typed, came, leaseWire>> /\ budget' \in Budgets
  BY UsesTyped DEF PageHides
<1> DEFINE no == FALSE
           awaiting == IF pages[p].open /\ (pages[p].subscribed \/ view = "document") THEN no ELSE pages[p].awaiting
           asked == pages[p].asked
           g == [pages[p] EXCEPT !.view = view, !.awaiting = awaiting, !.asked = asked]
<1>3. pages[p] \in PageRecord /\ awaiting \in BOOLEAN /\ asked \in Nat /\ no \in BOOLEAN
  BY PageKnown
<1>4. SendSubscription(p, g, no) \/ (pages' = [pages EXCEPT ![p] = g] /\ keyWire' = keyWire)
  <2> DEFINE h == [pages[p] EXCEPT !.view = view]
  <2>1. h.open = pages[p].open /\ h.subscribed = pages[p].subscribed
    BY <1>3 DEF PageRecord
  <2>2. CASE pages[p].open /\ (pages[p].subscribed \/ view = "document")
    <3>1. [h EXCEPT !.awaiting = FALSE] = g
      BY <1>3, <2>2 DEF PageRecord
    <3>2. SendSubscription(p, [h EXCEPT !.awaiting = FALSE], FALSE)
      BY <1>1, <2>1, <2>2
    <3> QED
      BY <3>1, <3>2
  <2>3. CASE ~ (pages[p].open /\ (pages[p].subscribed \/ view = "document"))
    <3>1. h = g
      BY <1>3, <2>3 DEF PageRecord
    <3>2. pages' = [pages EXCEPT ![p] = h] /\ keyWire' = keyWire
      BY <1>1, <2>1, <2>3
    <3> QED
      BY <3>1, <3>2
  <2> QED
    BY <2>2, <2>3
<1> HIDE DEF no, awaiting, asked, g
<1>5. g = [pages[p] EXCEPT !.view = view, !.awaiting = awaiting, !.asked = asked]
  BY DEF g
<1> QED
  BY <1>2, <1>3, <1>4, <1>5, LooksHolds

\* A screen is asked for.
LEMMA RequestHolds ==
    ASSUME InputInv, NEW p \in Pages, UNCHANGED <<clients, subs, owner, looking, typed, came, leaseWire>>,
           budget' \in Budgets, NEW view \in {"terminal", "hidden", "document"},
           NEW h, h = [pages[p] EXCEPT !.view = view], RequestRawOneShot(p, h)
    PROVE  InputInv'
<1> DEFINE no == FALSE  yes == TRUE  old == pages[p]
           awaiting == IF old.open THEN yes ELSE old.awaiting
           asked == IF old.open THEN old.asked + 1 ELSE old.asked
           g == [pages[p] EXCEPT !.view = view, !.awaiting = awaiting, !.asked = asked]
<1>1. pages[p] \in PageRecord /\ awaiting \in BOOLEAN /\ asked \in Nat /\ no \in BOOLEAN
  <2>1. pages[p] \in PageRecord /\ pages[p].awaiting \in BOOLEAN /\ pages[p].asked \in Nat
    BY PageKnown
  <2>2. awaiting \in BOOLEAN /\ no \in BOOLEAN
    BY <2>1
  <2>3. asked \in Nat
    BY <2>1
  <2> QED
    BY <2>1, <2>2, <2>3
<1>2. h.open = old.open /\ h.asked = old.asked
  BY <1>1 DEF PageRecord
<1>3. SendSubscription(p, g, no) \/ (pages' = [pages EXCEPT ![p] = g] /\ keyWire' = keyWire)
  <2>1. CASE old.open
    <3>1. [h EXCEPT !.awaiting = TRUE, !.asked = @ + 1] = g
      BY <1>1, <2>1 DEF PageRecord
    <3>2. SendSubscription(p, [h EXCEPT !.awaiting = TRUE, !.asked = @ + 1], FALSE)
      BY <1>2, <2>1 DEF RequestRawOneShot
    <3> QED
      BY <3>1, <3>2
  <2>2. CASE ~ old.open
    <3>1. h = g
      BY <1>1, <2>2 DEF PageRecord
    <3>2. pages' = [pages EXCEPT ![p] = h] /\ keyWire' = keyWire
      BY <1>2, <2>2 DEF RequestRawOneShot
    <3> QED
      BY <3>1, <3>2
  <2> QED
    BY <2>1, <2>2
<1> HIDE DEF no, awaiting, asked, g
<1>4. g = [pages[p] EXCEPT !.view = view, !.awaiting = awaiting, !.asked = asked]
  BY DEF g
<1> QED
  BY <1>1, <1>3, <1>4, LooksHolds

LEMMA ShowsHolds ==
    ASSUME InputInv, NEW p \in Pages, PageShows(p)
    PROVE  InputInv'
<1> DEFINE view == "terminal"  yes == TRUE
           h == [pages[p] EXCEPT !.view = view]
<1>1. UNCHANGED <<clients, subs, owner, looking, typed, came, leaseWire>> /\ budget' \in Budgets
  BY DEF PageShows, InputInv, SocketsTyped
<1>2. \/ RequestRawOneShot(p, h) \/ SendSubscription(p, h, yes)
      \/ pages' = [pages EXCEPT ![p] = h] /\ keyWire' = keyWire
  BY DEF PageShows
<1>5. view \in {"terminal", "hidden", "document"} /\ yes \in BOOLEAN
  OBVIOUS
<1> HIDE DEF view, yes
<1>3. CASE RequestRawOneShot(p, h)
  BY <1>1, <1>3, <1>5, RequestHolds
<1>4. CASE SendSubscription(p, h, yes) \/ (pages' = [pages EXCEPT ![p] = h] /\ keyWire' = keyWire)
  <2> DEFINE awaiting == pages[p].awaiting  asked == pages[p].asked
             g == [pages[p] EXCEPT !.view = view, !.awaiting = awaiting, !.asked = asked]
  <2>1. pages[p] \in PageRecord /\ awaiting \in BOOLEAN /\ asked \in Nat
    BY PageKnown
  <2>2. g = h
    BY <1>5, <2>1 DEF PageRecord
  <2> HIDE DEF awaiting, asked, g, h
  <2>3. g = [pages[p] EXCEPT !.view = view, !.awaiting = awaiting, !.asked = asked]
    BY DEF g
  <2>4. SendSubscription(p, g, yes) \/ (pages' = [pages EXCEPT ![p] = g] /\ keyWire' = keyWire)
    BY <1>4, <2>2
  <2> QED
    BY <1>1, <1>5, <2>1, <2>3, <2>4, LooksHolds
<1> QED
  BY <1>2, <1>3, <1>4

LEMMA ScreenAskedHolds ==
    ASSUME InputInv, NEW p \in Pages, ScreenAsked(p)
    PROVE  InputInv'
<1> DEFINE view == pages[p].view
<1>1. UNCHANGED <<clients, subs, owner, looking, typed, came, leaseWire>> /\ budget' \in Budgets
      /\ RequestRawOneShot(p, pages[p])
  BY UsesTyped DEF ScreenAsked
<1>2. pages[p] \in PageRecord /\ view \in {"terminal", "hidden", "document"}
  BY PageKnown
<1>3. pages[p] = [pages[p] EXCEPT !.view = view]
  BY <1>2 DEF PageRecord
<1> HIDE DEF view
<1> QED
  BY <1>1, <1>2, <1>3, RequestHolds


LEMMA ScreenCameHolds ==
    ASSUME InputInv, NEW p \in Pages, NEW usable \in BOOLEAN, ScreenCame(p, usable)
    PROVE  InputInv'
<1> DEFINE no == FALSE  yes == TRUE  view == pages[p].view  asked == pages[p].asked - 1
           h == [pages[p] EXCEPT !.asked = @ - 1, !.awaiting = FALSE]
           g == [pages[p] EXCEPT !.view = view, !.awaiting = no, !.asked = asked]
<1>1. UNCHANGED <<clients, subs, owner, looking, typed, came, leaseWire>> /\ budget' \in Budgets
  BY DEF ScreenCame, InputInv, SocketsTyped
<1>2. /\ pages[p] \in PageRecord /\ view \in {"terminal", "hidden", "document"} /\ no \in BOOLEAN /\ yes \in BOOLEAN
      /\ pages[p].asked \in Nat /\ pages[p].asked > 0
  BY PageKnown DEF ScreenCame
<1>3. asked \in Nat
  BY <1>2
<1>4. SendSubscription(p, h, yes) \/ (pages' = [pages EXCEPT ![p] = h] /\ keyWire' = keyWire)
  BY DEF ScreenCame
<1>5. g = h
  BY <1>2 DEF PageRecord
<1> HIDE DEF no, yes, view, asked, g, h
<1>6. g = [pages[p] EXCEPT !.view = view, !.awaiting = no, !.asked = asked]
  BY DEF g
<1> QED
  BY <1>1, <1>2, <1>3, <1>4, <1>5, <1>6, LooksHolds

\* A key goes out, waits for more, is held back, or brings a subscription with it.
LEMMA PressedHolds ==
    ASSUME InputInv, NEW p \in Pages, NEW atOnce \in BOOLEAN, KeyPressed(p, atOnce)
    PROVE  InputInv'
<1> DEFINE old == pages[p]
           key == [key |-> old.next, atOnce |-> atOnce]
           held == IF Len(old.held) < HeldKeys THEN Append(old.held, key) ELSE old.held
           next == old.next + 1
           l == leaseWire[p]
           none == <<>>  yes == TRUE
<1>1. /\ Uses("keys") /\ leaseWire' = leaseWire /\ UNCHANGED <<clients, subs, owner, looking, typed, came>>
  BY DEF KeyPressed
<1>2. /\ budget' \in Budgets /\ leaseWire' = [leaseWire EXCEPT ![p] = l]
      /\ l \in Seq(LeaseFrames) /\ (p \in subs => Believes(old.writable, l, owner = p))
      /\ (old.open = FALSE => l = <<>> /\ keyWire[p] = <<>>)
  BY <1>1, UsesTyped, WiresSame, PageKnown
<1>3. /\ old \in PageRecord /\ old.held \in Seq(KeyHeld) /\ KeysOf(old.held) \in Seq(Nat)
      /\ old.buffer \in Seq(Nat) /\ old.next \in Nat /\ next \in Nat
      /\ Lane(Came(p), keyWire[p], old.buffer, KeysOf(old.held), old.next) /\ keyWire[p] \in Seq(KeyFrames)
      /\ Len(old.held) <= HeldKeys /\ (old.subscribed => old.held = <<>>) /\ old.open \in BOOLEAN
  <2>1. /\ old \in PageRecord /\ old.held \in Seq(KeyHeld) /\ KeysOf(old.held) \in Seq(Nat)
        /\ old.buffer \in Seq(Nat) /\ old.next \in Nat
        /\ keyWire[p] \in Seq(KeyFrames) /\ LaneHolds(p) /\ HeldHolds(old) /\ old.open \in BOOLEAN
    BY PageKnown
  <2>2. next \in Nat
    BY <2>1
  <2> QED
    BY <2>1, <2>2 DEF LaneHolds, HeldHolds
<1>4. /\ held \in Seq(KeyHeld) /\ Len(held) <= HeldKeys
      /\ Lane(Came(p), keyWire[p], old.buffer, KeysOf(held), next)
  <2>1. Len(old.held) \in Nat /\ HeldKeys \in Nat /\ key \in KeyHeld /\ key.key = old.next
    BY <1>3, LenProperties, InputAssumption DEF KeyHeld
  <2>2. CASE Len(old.held) < HeldKeys
    <3>1. held = Append(old.held, key)
      BY <2>2
    <3> HIDE DEF key, held
    <3>2. held \in Seq(KeyHeld) /\ Len(held) = Len(old.held) + 1
          /\ KeysOf(held) = Append(KeysOf(old.held), old.next)
      BY <1>3, <2>1, <3>1, HeldTyped
    <3>3. Lane(Came(p), keyWire[p], old.buffer, Append(KeysOf(old.held), old.next), next)
      BY <1>3, LaneKeeps
    <3> QED
      BY <2>1, <2>2, <3>2, <3>3
  <2>3. CASE ~ (Len(old.held) < HeldKeys)
    <3>1. held = old.held
      BY <2>3
    <3> QED
      BY <1>3, <3>1, LaneKeeps
  <2> QED
    BY <2>2, <2>3
<1>5. none = <<>> /\ none \in Seq(Nat) /\ yes \in BOOLEAN /\ KeysOf(none) = none /\ <<>> \in Seq(Nat)
  BY NothingRises, NothingHeld
<1>6. CASE old.subscribed
  <2> DEFINE pushed == KeyPushed(old.buffer, old.next, atOnce)
             buffer == pushed[2]
             w == IF old.open THEN keyWire[p] \o pushed[1] ELSE keyWire[p]
             g == [old EXCEPT !.buffer = buffer, !.next = next]
  <2>1. pages' = [pages EXCEPT ![p] = g] /\ keyWire' = [keyWire EXCEPT ![p] = w]
    <3>1. pages' = [pages EXCEPT ![p] = [old EXCEPT !.buffer = pushed[2], !.next = @ + 1]]
          /\ keyWire' = IF old.open THEN [keyWire EXCEPT ![p] = @ \o pushed[1]] ELSE keyWire
      BY <1>6 DEF KeyPressed, Disposition
    <3> HIDE DEF pushed
    <3>2. keyWire' = [keyWire EXCEPT ![p] = w]
      BY <3>1, WiresSame
    <3> QED
      BY <3>1, <3>2
  <2>2. Lane(Came(p), keyWire[p], Append(old.buffer, old.next), none, next)
        /\ old.held = <<>> /\ KeysOf(old.held) = none
        /\ Append(old.buffer, old.next) \in Seq(Nat)
    BY <1>3, <1>6, <1>5, LaneKeeps, AppendProperties
  <2>3. Lane(Came(p), w, buffer, none, next) /\ w \in Seq(KeyFrames) /\ buffer \in Seq(Nat)
    <3>1. CASE atOnce
      <4>1. pushed[1] = Batch(Append(old.buffer, old.next)) /\ buffer = <<>>
        BY <3>1 DEF KeyPushed
      <4> HIDE DEF pushed, buffer
      <4>2. /\ Lane(Came(p), keyWire[p] \o Batch(Append(old.buffer, old.next)), <<>>, none, next)
            /\ keyWire[p] \o Batch(Append(old.buffer, old.next)) \in Seq(KeyFrames)
            /\ Lane(Came(p), keyWire[p], <<>>, none, next)
        BY <1>3, <2>2, LaneSends, LaneForgets
      <4>3. w = (IF old.open THEN keyWire[p] \o Batch(Append(old.buffer, old.next)) ELSE keyWire[p])
        BY <4>1
      <4> HIDE DEF w, none
      <4> QED
        BY <1>3, <1>5, <4>1, <4>2, <4>3
    <3>2. CASE ~ atOnce
      <4>1. pushed[1] = <<>> /\ buffer = Append(old.buffer, old.next)
        BY <3>2 DEF KeyPushed
      <4> HIDE DEF pushed, buffer
      <4>2. w = keyWire[p]
        BY <1>3, <4>1, ConcatEmptySeq
      <4> QED
        BY <1>3, <2>2, <4>1, <4>2
    <3> QED
      BY <3>1, <3>2
  <2>4. old.open = FALSE => w = <<>>
    BY <1>2
  <2> HIDE DEF buffer, w, next, none
  <2>5. /\ g \in PageRecord /\ g.open = old.open /\ g.writable = old.writable /\ g.held = <<>>
        /\ g.buffer = buffer /\ g.next = next
    BY <1>3, <2>2, <2>3 DEF PageRecord
  <2>6. HeldHolds(g) /\ Lane(Came(p), w, g.buffer, KeysOf(g.held), g.next)
    <3>1. HeldKeys \in Nat /\ Len(<<>>) = 0
      BY InputAssumption, NothingRises
    <3> QED
      BY <2>2, <2>3, <2>5, <3>1 DEF HeldHolds
  <2> HIDE DEF g, l, old
  <2>7. g.open = pages[p].open /\ (g.open = FALSE => w = <<>> /\ l = <<>>)
    BY <1>2, <2>4, <2>5 DEF old
  <2>8. p \in subs => Believes(g.writable, l, owner = p)
    BY <1>2, <2>5
  <2> QED
    BY <1>1, <1>2, <2>1, <2>3, <2>5, <2>6, <2>7, <2>8, PageStep
<1>7. CASE ~ old.subscribed
  <2> DEFINE g == [old EXCEPT !.held = held, !.next = next]
  <2>1. SendSubscription(p, g, yes) \/ (pages' = [pages EXCEPT ![p] = g] /\ keyWire' = keyWire)
    BY <1>7 DEF KeyPressed, Disposition
  <2> HIDE DEF held, next, yes
  <2>2. /\ g \in PageRecord /\ g.open = old.open /\ g.writable = old.writable /\ g.held = held
        /\ g.buffer = old.buffer /\ g.next = next /\ g.subscribed = old.subscribed
    BY <1>3, <1>4 DEF PageRecord
  <2>3. HeldHolds(g) /\ Lane(Came(p), keyWire[p], g.buffer, KeysOf(g.held), g.next)
    BY <1>4, <1>7, <2>2 DEF HeldHolds
  <2> HIDE DEF g, l, old
  <2>4. g.open = pages[p].open /\ (g.open = FALSE => l = <<>>)
    BY <1>2, <2>2 DEF old
  <2>5. p \in subs => Believes(g.writable, l, owner = p)
    BY <1>2, <2>2
  <2> QED
    BY <1>1, <1>2, <1>5, <2>1, <2>2, <2>3, <2>4, <2>5, TurnsHolds
<1> QED
  BY <1>6, <1>7

\* A frame of the lease, or a refusal, comes to the page.
LEMMA LeaseComes ==
    ASSUME InputInv, NEW p \in Pages, LeaseArrives(p)
    PROVE  InputInv'
<1> DEFINE m == Head(leaseWire[p])
           l == Tail(leaseWire[p])
           old == pages[p]
           yes == TRUE  no == FALSE
           writable == IF m.kind = "lease" THEN m.writable ELSE old.writable
           subscribed == IF m.kind = "notSubscribed" /\ old.view # "terminal" THEN no ELSE old.subscribed
           awaiting == IF m.kind = "readOnly" THEN no ELSE old.awaiting
           g == [old EXCEPT !.writable = writable, !.subscribed = subscribed, !.awaiting = awaiting]
<1>1. /\ UNCHANGED <<clients, subs, owner, looking, typed, came, budget>> /\ leaseWire[p] # <<>>
      /\ leaseWire' = [leaseWire EXCEPT ![p] = l] /\ budget' \in Budgets
  BY DEF LeaseArrives, InputInv, SocketsTyped
<1>2. /\ m \in LeaseFrames /\ l \in Seq(LeaseFrames)
      /\ p \in subs => Believes(writable, l, owner = p)
  <2>1. leaseWire[p] \in Seq(LeaseFrames) /\ (p \in subs => Believes(old.writable, leaseWire[p], owner = p))
    BY PageKnown
  <2>2. m \in LeaseFrames /\ l \in Seq(LeaseFrames)
    BY <1>1, <2>1, HeadTailProperties
  <2>3. ASSUME p \in subs
        PROVE  Believes(IF m.kind = "lease" THEN m.writable ELSE old.writable, l, owner = p)
    BY <1>1, <2>1, <2>3, ReadBelieves
  <2> QED
    BY <2>2, <2>3
<1>3. m.writable \in BOOLEAN /\ m.kind \in {"lease", "readOnly", "notSubscribed"}
  BY <1>2 DEF LeaseFrames
<1>4. /\ old.open = TRUE /\ old \in PageRecord /\ old.subscribed \in BOOLEAN /\ old.awaiting \in BOOLEAN
      /\ old.writable \in BOOLEAN
  BY <1>1, PageKnown
<1>5. writable \in BOOLEAN /\ subscribed \in BOOLEAN /\ awaiting \in BOOLEAN /\ yes \in BOOLEAN
      /\ (subscribed => old.subscribed)
  BY <1>3, <1>4
<1>6. SendSubscription(p, g, yes) \/ (pages' = [pages EXCEPT ![p] = g] /\ keyWire' = keyWire)
  <2>1. CASE m.kind = "notSubscribed" /\ old.view = "terminal"
    <3>1. SendSubscription(p, old, TRUE)
      BY <2>1 DEF LeaseArrives
    <3>2. writable = old.writable /\ subscribed = old.subscribed /\ awaiting = old.awaiting
      BY <2>1
    <3> HIDE DEF writable, subscribed, awaiting, old
    <3>3. g = old
      BY <1>4, <3>2 DEF PageRecord
    <3> QED
      BY <3>1, <3>3
  <2>2. CASE m.kind = "notSubscribed" /\ old.view # "terminal"
    <3>1. pages' = [pages EXCEPT ![p] = [old EXCEPT !.subscribed = FALSE]] /\ keyWire' = keyWire
      BY <2>2 DEF LeaseArrives
    <3>2. writable = old.writable /\ subscribed = FALSE /\ awaiting = old.awaiting
      BY <2>2
    <3> HIDE DEF writable, subscribed, awaiting, old
    <3>3. g = [old EXCEPT !.subscribed = FALSE]
      BY <1>4, <3>2 DEF PageRecord
    <3> QED
      BY <3>1, <3>3
  <2>3. CASE m.kind = "lease"
    <3>1. pages' = [pages EXCEPT ![p] = [old EXCEPT !.writable = m.writable]] /\ keyWire' = keyWire
      BY <2>3 DEF LeaseArrives
    <3>2. writable = m.writable /\ subscribed = old.subscribed /\ awaiting = old.awaiting
      BY <2>3
    <3> HIDE DEF writable, subscribed, awaiting, old
    <3>3. g = [old EXCEPT !.writable = m.writable]
      BY <1>4, <3>2 DEF PageRecord
    <3> QED
      BY <3>1, <3>3
  <2>4. CASE m.kind = "readOnly"
    <3>1. pages' = [pages EXCEPT ![p] = [old EXCEPT !.awaiting = FALSE]] /\ keyWire' = keyWire
      BY <2>4 DEF LeaseArrives
    <3>2. writable = old.writable /\ subscribed = old.subscribed /\ awaiting = FALSE
      BY <2>4
    <3> HIDE DEF writable, subscribed, awaiting, old
    <3>3. g = [old EXCEPT !.awaiting = FALSE]
      BY <1>4, <3>2 DEF PageRecord
    <3> QED
      BY <3>1, <3>3
  <2> QED
    BY <1>3, <2>1, <2>2, <2>3, <2>4
<1> HIDE DEF m, l, writable, subscribed, awaiting, yes
<1>7. /\ g \in PageRecord /\ g.open = old.open /\ g.writable = writable /\ g.held = old.held
      /\ g.buffer = old.buffer /\ g.next = old.next /\ g.subscribed = subscribed
  BY <1>4, <1>5 DEF PageRecord
<1> HIDE DEF g
<1>8. HeldHolds(g) /\ Lane(Came(p), keyWire[p], g.buffer, KeysOf(g.held), g.next)
  BY <1>5, <1>7, KeysStay
<1>9. g.open = pages[p].open /\ (g.open = FALSE => l = <<>>)
  BY <1>4, <1>7
<1> HIDE DEF old
<1>10. p \in subs => Believes(g.writable, l, owner = p)
  BY <1>2, <1>7
<1> QED
  BY <1>1, <1>2, <1>5, <1>6, <1>7, <1>8, <1>9, <1>10, TurnsHolds

-----------------------------------------------------------------------------
(* The steps of the server. *)

\* After a refresh somebody who is subscribed may type, and every subscriber is told whether
\* it is the one.
LEMMA RefreshedHolds ==
    ASSUME InputInv, NEW order \in Seq(Pages), NEW raw, raw \subseteq ToSet(order), NEW asker,
           NEW wire \in [Pages -> Seq(LeaseFrames)], LeaseRefreshed(order, raw, asker, wire)
    PROVE  /\ owner' \in Pages \cup {0} /\ (raw # {}) = (owner' # 0) /\ (owner' # 0 => owner' \in raw)
           /\ leaseWire' \in [Pages -> Seq(LeaseFrames)]
           /\ \A q \in Pages : q \notin raw => leaseWire'[q] = wire[q]
           /\ \A q \in raw : \A writable : Believes(writable, leaseWire'[q], owner' = q)
<1> DEFINE first == SelectInSeq(order, LAMBDA p : p \in raw)
           at == {i \in 1..Len(order) : order[i] \in raw}
           now == Owner(order, raw)
<1>1. owner' = now /\ Told(order, raw, asker) = raw
  BY DEF LeaseRefreshed, Told
<1>2. raw \subseteq Pages /\ 0 \notin Pages
  <2>1. ToSet(order) \subseteq Pages
    BY SetOfSeq
  <2>2. 0 \notin Pages
    BY InputAssumption
  <2> QED
    BY <2>1, <2>2
<1>3. at = {} => raw = {}
  BY SetOfSeq
<1>4. at # {} => first \in at /\ first # 0
  <2>1. ASSUME at # {} PROVE first \in at /\ first # 0
    <3>1. first = Min(at) /\ at \subseteq Nat
      BY <2>1 DEF SelectInSeq
    <3>2. Min(at) \in at
      BY <2>1, <3>1, LeastOne
    <3>3. Min(at) # 0
      BY <3>2
    <3> QED
      BY <3>1, <3>2, <3>3
  <2> QED
    BY <2>1
<1>5. at = {} => first = 0
  BY DEF SelectInSeq
<1> HIDE DEF first
<1>6. now = IF owner \in raw /\ owner \in ToSet(order) THEN owner ELSE IF first = 0 THEN 0 ELSE order[first]
  BY DEF Owner, first
<1>7. now \in Pages \cup {0} /\ (raw # {}) = (now # 0) /\ (now # 0 => now \in raw)
  <2>1. CASE owner \in raw
    BY <1>2, <1>6, <2>1
  <2>2. CASE owner \notin raw /\ at # {}
    <3>1. now = order[first] /\ order[first] \in raw
      BY <1>4, <1>6, <2>2
    <3> QED
      BY <1>2, <3>1
  <2>3. CASE owner \notin raw /\ at = {}
    <3>1. now = 0 /\ raw = {}
      BY <1>3, <1>5, <1>6, <2>3
    <3> QED
      BY <3>1
  <2> QED
    BY <2>1, <2>2, <2>3
<1>8. leaseWire' = [p \in Pages |->
        IF p \in raw THEN Append(wire[p], [kind |-> "lease", writable |-> p = now]) ELSE wire[p]]
  BY <1>1 DEF LeaseRefreshed
<1> HIDE DEF now
<1>9. ASSUME NEW q \in Pages
      PROVE  LET f == [kind |-> "lease", writable |-> q = now]
             IN  /\ Append(wire[q], f) \in Seq(LeaseFrames)
                 /\ \A writable : Believes(writable, Append(wire[q], f), now = q)
  <2> DEFINE b == q = now
             f == [kind |-> "lease", writable |-> b]
  <2>1. b \in BOOLEAN /\ wire[q] \in Seq(LeaseFrames)
    OBVIOUS
  <2>2. (q = now) = (now = q)
    OBVIOUS
  <2>3. b = (now = q)
    BY <2>2
  <2> HIDE DEF b
  <2>4. f \in LeaseFrames /\ f.kind = "lease" /\ f.writable = b
    BY <2>1 DEF LeaseFrames
  <2> HIDE DEF f
  <2>5. Append(wire[q], f) \in Seq(LeaseFrames) /\ \A writable : Believes(writable, Append(wire[q], f), b)
    BY <2>1, <2>4, ToldBelieves
  <2> QED
    BY <2>3, <2>5 DEF b, f
<1>10. leaseWire' \in [Pages -> Seq(LeaseFrames)]
  BY <1>8, <1>9
<1>11. \A q \in Pages : q \notin raw => leaseWire'[q] = wire[q]
  BY <1>8
<1>12. \A q \in raw : \A writable : Believes(writable, leaseWire'[q], owner' = q)
  BY <1>1, <1>2, <1>8, <1>9
<1> QED
  BY <1>1, <1>7, <1>10, <1>11, <1>12

\* Keys as the server notes them.
Marked(p, keys) == [i \in DOMAIN keys |-> [page |-> p, key |-> keys[i]]]
MarkedAfter(all, past, p, keys) ==
    /\ {Len(all), Len(past), Len(keys)} \subseteq Nat
    /\ \A i \in 1..Len(all) :
         \/ i \in 1..Len(past) /\ all[i] = past[i]
         \/ /\ i - Len(past) \in 1..Len(keys) /\ i \notin 1..Len(past) /\ Len(past) < i
            /\ all[i] = [page |-> p, key |-> keys[i - Len(past)]]
    /\ \A i \in 1..Len(past) : i \in 1..Len(all) /\ all[i] = past[i]
    /\ \A i \in 1..Len(keys) :
         i + Len(past) \in 1..Len(all) /\ all[i + Len(past)] = [page |-> p, key |-> keys[i]]
LEMMA MarkedTyped ==
    ASSUME NEW p \in Pages, NEW keys \in Seq(Nat), NEW past \in Seq(KeyRecord),
           NEW all, all = past \o Marked(p, keys)
    PROVE  all \in Seq(KeyRecord) /\ MarkedAfter(all, past, p, keys)
<1> DEFINE s == Marked(p, keys)
<1>1. DOMAIN keys = 1..Len(keys) /\ Len(keys) \in Nat /\ Len(past) \in Nat /\ \A i \in 1..Len(keys) : keys[i] \in Nat
  BY LenProperties, ElementOfSeq
<1>2. s \in [1..Len(keys) -> KeyRecord] /\ \A i \in 1..Len(keys) : s[i] = [page |-> p, key |-> keys[i]]
  BY <1>1 DEF Marked, KeyRecord
<1>3. s \in Seq(KeyRecord) /\ Len(s) = Len(keys)
  <2> DEFINE n == Len(keys)
  <2> HIDE DEF n, s
  <2>1. n \in Nat /\ s \in [1..n -> KeyRecord]
    BY <1>1, <1>2 DEF n
  <2>2. s \in Seq(KeyRecord) /\ Len(s) = n
    BY <2>1
  <2> QED
    BY <2>2 DEF n
<1> HIDE DEF s
<1>4. /\ all \in Seq(KeyRecord) /\ Len(all) = Len(past) + Len(keys)
      /\ \A i \in 1..Len(past) + Len(keys) : all[i] = (IF i <= Len(past) THEN past[i] ELSE s[i - Len(past)])
  <2>1. /\ past \o s \in Seq(KeyRecord) /\ Len(past \o s) = Len(past) + Len(s)
        /\ \A i \in 1..Len(past) + Len(s) : (past \o s)[i] = (IF i <= Len(past) THEN past[i] ELSE s[i - Len(past)])
    BY <1>3, ConcatProperties
  <2>2. all = past \o s
    BY DEF s
  <2> QED
    BY <1>3, <2>1, <2>2
<1>5. ASSUME NEW i \in 1..Len(all)
      PROVE  \/ i \in 1..Len(past) /\ all[i] = past[i]
             \/ /\ i - Len(past) \in 1..Len(keys) /\ i \notin 1..Len(past) /\ Len(past) < i
                /\ all[i] = [page |-> p, key |-> keys[i - Len(past)]]
  <2>1. CASE i <= Len(past)
    BY <1>1, <1>4, <2>1
  <2>2. CASE ~ (i <= Len(past))
    <3>1. /\ i - Len(past) \in 1..Len(keys) /\ all[i] = s[i - Len(past)]
          /\ i \notin 1..Len(past) /\ Len(past) < i
      BY <1>1, <1>4, <2>2
    <3> QED
      BY <1>2, <2>2, <3>1
  <2> QED
    BY <2>1, <2>2
<1>6. \A i \in 1..Len(past) : i \in 1..Len(all) /\ all[i] = past[i]
  BY <1>1, <1>4
<1>7. ASSUME NEW i \in 1..Len(keys)
      PROVE  i + Len(past) \in 1..Len(all) /\ all[i + Len(past)] = [page |-> p, key |-> keys[i]]
  <2>1. i + Len(past) \in 1..Len(all) /\ ~ (i + Len(past) <= Len(past)) /\ (i + Len(past)) - Len(past) = i
    BY <1>1, <1>4
  <2>2. all[i + Len(past)] = s[i]
    BY <1>1, <1>4, <2>1
  <2> QED
    BY <1>2, <2>1, <2>2
<1> QED
  BY <1>1, <1>4, <1>5, <1>6, <1>7 DEF MarkedAfter

\* The agent gets what was looked up.
LEMMA TypedStep ==
    ASSUME InputInv, NEW k \in looking, InputTyped(k)
    PROVE  InputInv'
<1> DEFINE now == typed \o Marked(k.page, k.keys)
<1>1. /\ UNCHANGED <<clients, subs, owner, came, pages, keyWire, leaseWire, budget>> /\ looking' = looking \ {k}
      /\ typed' = now
  BY DEF InputTyped, Marked
<1>2. /\ k.page \in Pages /\ k.keys \in Seq(Nat) /\ Rising(k.keys) /\ ToSet(k.keys) \subseteq Came(k.page)
      /\ typed \in Seq(KeyRecord)
  BY DEF InputInv, LookingHolds, TypedHolds
<1>3. now \in Seq(KeyRecord) /\ MarkedAfter(now, typed, k.page, k.keys)
  <2>1. now = typed \o Marked(k.page, k.keys)
    OBVIOUS
  <2> HIDE DEF now
  <2> QED
    BY <1>2, <2>1, MarkedTyped
<1> HIDE DEF now
<1>4. /\ \A i \in 1..Len(k.keys) : k.keys[i] \in ToSet(k.keys)
      /\ \A i, j \in 1..Len(k.keys) : k.keys[i] = k.keys[j] => i = j
  <2>1. \A i \in 1..Len(k.keys) : k.keys[i] \in ToSet(k.keys) /\ k.keys[i] \in Nat
    BY <1>2, SetOfSeq, ElementOfSeq
  <2>2. ASSUME NEW i \in 1..Len(k.keys), NEW j \in 1..Len(k.keys), k.keys[i] = k.keys[j] PROVE i = j
    <3>1. i < j => k.keys[i] < k.keys[j]
      BY <1>2 DEF Rising
    <3>2. j < i => k.keys[j] < k.keys[i]
      BY <1>2 DEF Rising
    <3>3. k.keys[i] \in Nat /\ k.keys[j] \in Nat /\ Len(k.keys) \in Nat
      BY <1>2, <2>1, LenProperties
    <3> QED
      BY <2>2, <3>1, <3>2, <3>3
  <2> QED
    BY <2>1, <2>2
<1>5. \A q \in Pages : Came(q)' = Came(q)
  BY <1>1 DEF Came
<1>6. ASSUME NEW i \in 1..Len(now), NEW j \in 1..Len(now), now[i] = now[j]
      PROVE  i = j
  <2>1. CASE i \in 1..Len(typed) /\ j \in 1..Len(typed)
    <3>1. typed[i] = typed[j]
      BY <1>3, <1>6, <2>1 DEF MarkedAfter
    <3> QED
      BY <2>1, <3>1 DEF InputInv, TypedHolds
  <2>2. CASE i \notin 1..Len(typed) /\ j \notin 1..Len(typed)
    <3>0. /\ i - Len(typed) \in 1..Len(k.keys) /\ now[i] = [page |-> k.page, key |-> k.keys[i - Len(typed)]]
          /\ j - Len(typed) \in 1..Len(k.keys) /\ now[j] = [page |-> k.page, key |-> k.keys[j - Len(typed)]]
      BY <1>3, <2>2 DEF MarkedAfter
    <3>1. k.keys[i - Len(typed)] = k.keys[j - Len(typed)]
      <4>1. now[i].key = k.keys[i - Len(typed)] /\ now[j].key = k.keys[j - Len(typed)]
        BY <3>0
      <4> QED
        BY <1>6, <4>1
    <3>2. i - Len(typed) = j - Len(typed)
      BY <1>4, <3>0, <3>1
    <3>3. Len(typed) \in Nat
      BY <1>2, LenProperties
    <3> QED
      BY <3>2, <3>3
  <2>3. ASSUME NEW x \in 1..Len(typed), NEW y \in 1..Len(now), y \notin 1..Len(typed), now[y] = typed[x]
        PROVE  FALSE
    <3>1. y - Len(typed) \in 1..Len(k.keys) /\ typed[x] = [page |-> k.page, key |-> k.keys[y - Len(typed)]]
      BY <1>3, <2>3 DEF MarkedAfter
    <3>2. typed[x].page = k.page /\ typed[x].key \in ToSet(k.keys)
      BY <1>4, <3>1
    <3> QED
      BY <3>2 DEF InputInv, TypedHolds
  <2>4. CASE i \in 1..Len(typed) /\ j \notin 1..Len(typed)
    BY <1>3, <1>6, <2>3, <2>4 DEF MarkedAfter
  <2>5. CASE i \notin 1..Len(typed) /\ j \in 1..Len(typed)
    BY <1>3, <1>6, <2>3, <2>5 DEF MarkedAfter
  <2> QED
    BY <2>1, <2>2, <2>4, <2>5
<1>7. TypedHolds'
  <2>1. ASSUME NEW i \in 1..Len(now)
        PROVE  /\ now[i].key \in Came(now[i].page)
               /\ \A l \in looking' : l.page = now[i].page => now[i].key \notin ToSet(l.keys)
    <3>1. CASE i \in 1..Len(typed)
      <4>1. now[i] = typed[i]
        BY <1>3, <3>1 DEF MarkedAfter
      <4>2. typed[i].key \in Came(typed[i].page)
        BY <3>1 DEF InputInv, TypedHolds
      <4>3. \A l \in looking' : l.page = typed[i].page => typed[i].key \notin ToSet(l.keys)
        BY <1>1, <3>1 DEF InputInv, TypedHolds
      <4> QED
        BY <4>1, <4>2, <4>3
    <3>2. CASE i \notin 1..Len(typed)
      <4>1. now[i].page = k.page /\ now[i].key \in ToSet(k.keys)
        <5>1. i - Len(typed) \in 1..Len(k.keys) /\ now[i] = [page |-> k.page, key |-> k.keys[i - Len(typed)]]
          BY <1>3, <3>2 DEF MarkedAfter
        <5>2. now[i].page = k.page /\ now[i].key = k.keys[i - Len(typed)]
          BY <5>1
        <5> QED
          BY <1>4, <5>1, <5>2
      <4>2. \A l \in looking' : l.page = k.page => ToSet(l.keys) \cap ToSet(k.keys) = {}
        BY <1>1 DEF InputInv, LookingHolds
      <4>3. now[i].key \in Came(k.page)
        BY <1>2, <4>1
      <4> QED
        BY <4>1, <4>2, <4>3
    <3> QED
      BY <3>1, <3>2
  <2>2. \A i \in 1..Len(now) : now[i].key \in
           {n \in Nat : \E j \in 1..Len(came) : came[j] = [page |-> now[i].page, key |-> n]}
    BY <2>1 DEF Came
  <2>3. typed' = now /\ came' = came /\ now \in Seq(KeyRecord)
    BY <1>1, <1>3
  <2>4. \A i \in 1..Len(now) : \A l \in looking' : l.page = now[i].page => now[i].key \notin ToSet(l.keys)
    BY <2>1
  <2> QED
    BY <1>6, <2>2, <2>3, <2>4 DEF TypedHolds, Came
<1>8. LookingHolds'
  <2>1. \A l \in looking' : Rising(l.keys) /\ ToSet(l.keys) \subseteq Came(l.page)'
    BY <1>1, <1>5 DEF InputInv, LookingHolds
  <2>2. /\ looking' \subseteq [page : Pages, keys : Seq(Nat)]
        /\ \A l, m \in looking' : l # m /\ l.page = m.page => ToSet(l.keys) \cap ToSet(m.keys) = {}
    BY <1>1 DEF InputInv, LookingHolds
  <2> QED
    BY <2>1, <2>2 DEF LookingHolds
<1>9. SocketsTyped' /\ OwnerHolds' /\ LeaseHolds' /\ CameInOrder'
  BY <1>1 DEF InputInv, SocketsTyped, OwnerHolds, LeaseHolds, CameInOrder
<1>10. \A q \in Pages : HeldHolds(pages[q])' /\ LaneHolds(q)'
  BY <1>1, <1>5 DEF InputInv, LaneHolds, HeldHolds
<1> QED
  BY <1>7, <1>8, <1>9, <1>10 DEF InputInv

\* What the server takes from the wire of a page.
LEMMA ServerStep ==
    ASSUME InputInv, NEW p \in Pages, UNCHANGED <<clients, pages, budget>>, pages[p].open = TRUE,
           NEW w \in Seq(KeyFrames), keyWire' = [keyWire EXCEPT ![p] = w],
           leaseWire' \in [Pages -> Seq(LeaseFrames)], OwnerHolds', LeaseHolds',
           \A q \in Pages : pages[q].open = FALSE => leaseWire'[q] = <<>>,
           CameInOrder', LookingHolds', TypedHolds', \A q \in Pages : q # p => Came(q)' = Came(q),
           Lane(Came(p)', w, pages[p].buffer, KeysOf(pages[p].held), pages[p].next)
    PROVE  InputInv'
<1>1. keyWire \in [Pages -> Seq(KeyFrames)]
  BY DEF InputInv, SocketsTyped
<1>2. /\ keyWire' \in [Pages -> Seq(KeyFrames)] /\ keyWire'[p] = w
      /\ \A q \in Pages : q # p => keyWire'[q] = keyWire[q]
  BY <1>1
<1>3. SocketsTyped'
  <2>1. \A q \in Pages : pages[q].open = FALSE => keyWire'[q] = <<>>
    BY <1>2 DEF InputInv, SocketsTyped
  <2> QED
    BY <1>2, <2>1 DEF InputInv, SocketsTyped
<1>4. ASSUME NEW q \in Pages PROVE HeldHolds(pages[q])' /\ LaneHolds(q)'
  <2>1. HeldHolds(pages[q])'
    BY DEF InputInv, HeldHolds
  <2>2. CASE q = p
    BY <1>2, <2>1, <2>2 DEF LaneHolds
  <2>3. CASE q # p
    BY <1>2, <2>1, <2>3 DEF InputInv, LaneHolds
  <2> QED
    BY <2>2, <2>3
<1> QED
  BY <1>3, <1>4 DEF InputInv

\* Keys that are accepted come after all that came, and are looked up.
LEMMA AcceptedHolds ==
    ASSUME InputInv, NEW p \in Pages, NEW keys \in Seq(Nat), Rising(keys), Under(Came(p), ToSet(keys)),
           looking' = looking \cup {[page |-> p, keys |-> keys]}, came' = came \o Marked(p, keys), UNCHANGED typed
    PROVE  /\ CameInOrder' /\ LookingHolds' /\ TypedHolds' /\ Came(p)' = Came(p) \cup ToSet(keys)
           /\ \A q \in Pages : q # p => Came(q)' = Came(q)
<1> DEFINE all == came \o Marked(p, keys)
           new == [page |-> p, keys |-> keys]
<1>1. came \in Seq(KeyRecord) /\ came' = all /\ looking' = looking \cup {new}
  BY DEF InputInv, CameInOrder
<1>2. all \in Seq(KeyRecord) /\ MarkedAfter(all, came, p, keys)
  <2>1. all = came \o Marked(p, keys)
    OBVIOUS
  <2> HIDE DEF all
  <2> QED
    BY <1>1, <2>1, MarkedTyped
<1> HIDE DEF all
<1>3. /\ \A i \in 1..Len(keys) : keys[i] \in ToSet(keys) /\ keys[i] \in Nat
      /\ ToSet(keys) = {keys[i] : i \in 1..Len(keys)} /\ ToSet(keys) \subseteq Nat
  BY SetOfSeq, ElementOfSeq
<1>4. \A i \in 1..Len(came) : came[i].page \in Pages /\ came[i].key \in Nat
                              /\ came[i] = [page |-> came[i].page, key |-> came[i].key]
  <2>1. \A i \in 1..Len(came) : came[i] \in KeyRecord
    BY <1>1, ElementOfSeq
  <2> QED
    BY <2>1 DEF KeyRecord
<1>5. \A i \in 1..Len(came) : came[i].key \in Came(came[i].page)
  BY <1>4 DEF Came
<1>6. ASSUME NEW i \in 1..Len(all), i \notin 1..Len(came)
      PROVE  /\ i - Len(came) \in 1..Len(keys) /\ all[i] = [page |-> p, key |-> keys[i - Len(came)]]
             /\ all[i].page = p /\ all[i].key = keys[i - Len(came)] /\ all[i].key \in ToSet(keys) /\ Len(came) < i
  <2>1. /\ i - Len(came) \in 1..Len(keys) /\ all[i] = [page |-> p, key |-> keys[i - Len(came)]]
        /\ Len(came) < i
    BY <1>2, <1>6 DEF MarkedAfter
  <2>2. all[i].page = p /\ all[i].key = keys[i - Len(came)]
    BY <2>1
  <2> QED
    BY <1>3, <2>1, <2>2
<1>7. \A i \in 1..Len(came) : i \in 1..Len(all) /\ all[i] = came[i]
  BY <1>2 DEF MarkedAfter
<1>8. \A q \in Pages : Came(q)' = {k \in Nat : \E i \in 1..Len(all) : all[i] = [page |-> q, key |-> k]}
  BY <1>1 DEF Came
<1>9. Came(p)' = Came(p) \cup ToSet(keys)
  <2>1. ASSUME NEW k \in Nat, NEW i \in 1..Len(all), all[i] = [page |-> p, key |-> k]
        PROVE  k \in Came(p) \cup ToSet(keys)
    <3>1. CASE i \in 1..Len(came)
      BY <1>7, <2>1, <3>1 DEF Came
    <3>2. CASE i \notin 1..Len(came)
      <4>1. all[i].key \in ToSet(keys)
        BY <1>6, <3>2
      <4>2. all[i].key = k
        BY <2>1
      <4> QED
        BY <4>1, <4>2
    <3> QED
      BY <3>1, <3>2
  <2>2. ASSUME NEW k \in Came(p) PROVE k \in Nat /\ \E i \in 1..Len(all) : all[i] = [page |-> p, key |-> k]
    BY <1>7, <2>2 DEF Came
  <2>3. ASSUME NEW k \in ToSet(keys) PROVE k \in Nat /\ \E i \in 1..Len(all) : all[i] = [page |-> p, key |-> k]
    <3>1. PICK i \in 1..Len(keys) : k = keys[i]
      BY <1>3
    <3>2. i + Len(came) \in 1..Len(all) /\ all[i + Len(came)] = [page |-> p, key |-> keys[i]]
      BY <1>2 DEF MarkedAfter
    <3> QED
      BY <1>3, <3>1, <3>2
  <2> DEFINE after == {k \in Nat : \E i \in 1..Len(all) : all[i] = [page |-> p, key |-> k]}
  <2>4. \A k \in after : k \in Came(p) \cup ToSet(keys)
    BY <2>1
  <2>5. \A k \in Came(p) \cup ToSet(keys) : k \in after
    BY <2>2, <2>3
  <2>6. Came(p)' = after
    BY <1>8
  <2> HIDE DEF after
  <2> QED
    BY <2>4, <2>5, <2>6
<1>10. ASSUME NEW q \in Pages, q # p PROVE Came(q)' = Came(q)
  <2>1. ASSUME NEW k \in Nat, NEW i \in 1..Len(all), all[i] = [page |-> q, key |-> k] PROVE k \in Came(q)
    <3>1. all[i].page = q
      BY <2>1
    <3>2. i \in 1..Len(came)
      BY <1>6, <1>10, <3>1
    <3> QED
      BY <1>7, <2>1, <3>2 DEF Came
  <2>2. ASSUME NEW k \in Came(q) PROVE k \in Nat /\ \E i \in 1..Len(all) : all[i] = [page |-> q, key |-> k]
    BY <1>7, <2>2 DEF Came
  <2> QED
    BY <1>8, <1>10, <2>1, <2>2
<1>11. \A q \in Pages : Came(q) \subseteq Came(q)'
  BY <1>9, <1>10
<1>12. CameInOrder'
  <2>1. ASSUME NEW i \in 1..Len(all), NEW j \in 1..Len(all), i < j, all[i].page = all[j].page
        PROVE  all[i].key < all[j].key
    <3>1. CASE i \in 1..Len(came) /\ j \in 1..Len(came)
      <4>1. came[i].page = came[j].page
        BY <1>7, <2>1, <3>1
      <4> QED
        BY <1>7, <2>1, <3>1, <4>1 DEF InputInv, CameInOrder
    <3>2. CASE i \in 1..Len(came) /\ j \notin 1..Len(came)
      <4>1. all[i].key \in Came(p)
        BY <1>5, <1>6, <1>7, <2>1, <3>2
      <4> QED
        BY <1>6, <3>2, <4>1 DEF Under
    <3>3. CASE i \notin 1..Len(came)
      <4>1. Len(came) < i /\ Len(came) \in Nat /\ j \notin 1..Len(came)
        BY <1>1, <1>6, <2>1, <3>3, LenProperties
      <4>2. i - Len(came) < j - Len(came)
        BY <2>1, <4>1
      <4> QED
        BY <1>6, <3>3, <4>1, <4>2 DEF Rising
    <3> QED
      BY <3>1, <3>2, <3>3
  <2> QED
    BY <1>1, <1>2, <2>1 DEF CameInOrder
<1>13. ASSUME NEW x \in ToSet(keys) PROVE x \notin Came(p)
  <2>1. x \in Nat /\ ~ (x < x)
    BY <1>3
  <2>2. \A y \in Came(p) : y < x
    BY DEF Under
  <2> QED
    BY <2>1, <2>2
<1>14. LookingHolds'
  <2>1. ASSUME NEW k \in looking' PROVE Rising(k.keys) /\ ToSet(k.keys) \subseteq Came(k.page)'
    <3>1. CASE k \in looking
      <4>1. k.page \in Pages /\ Rising(k.keys) /\ ToSet(k.keys) \subseteq Came(k.page)
        BY <3>1 DEF InputInv, LookingHolds
      <4> QED
        BY <1>11, <4>1
    <3>2. CASE k = new
      <4>1. k.page = p /\ k.keys = keys
        BY <3>2
      <4> QED
        BY <1>9, <4>1
    <3> QED
      BY <1>1, <3>1, <3>2
  <2>2. ASSUME NEW k \in looking, k.page = p PROVE ToSet(k.keys) \cap ToSet(keys) = {}
    <3>1. ToSet(k.keys) \subseteq Came(p)
      BY <2>2 DEF InputInv, LookingHolds
    <3> QED
      BY <1>13, <3>1
  <2>3. ASSUME NEW k \in looking', NEW m \in looking', k # m, k.page = m.page
        PROVE  ToSet(k.keys) \cap ToSet(m.keys) = {}
    <3>1. new.page = p /\ new.keys = keys
      OBVIOUS
    <3> HIDE DEF new
    <3>2. CASE k \in looking /\ m \in looking
      BY <2>3, <3>2 DEF InputInv, LookingHolds
    <3>3. CASE k \in looking /\ m = new
      BY <2>2, <2>3, <3>1, <3>3
    <3>4. CASE k = new /\ m \in looking
      BY <2>2, <2>3, <3>1, <3>4
    <3> QED
      BY <1>1, <2>3, <3>2, <3>3, <3>4
  <2>4. looking' \subseteq [page : Pages, keys : Seq(Nat)]
    BY <1>1 DEF InputInv, LookingHolds
  <2> QED
    BY <2>1, <2>3, <2>4 DEF LookingHolds
<1>15. TypedHolds'
  <2>1. ASSUME NEW i \in 1..Len(typed) PROVE typed[i].page \in Pages
    <3>1. typed[i] \in KeyRecord
      BY ElementOfSeq DEF InputInv, TypedHolds
    <3> QED
      BY <3>1 DEF KeyRecord
  <2>2. ASSUME NEW i \in 1..Len(typed), NEW k \in looking', k.page = typed[i].page
        PROVE  typed[i].key \notin ToSet(k.keys)
    <3>1. CASE k \in looking
      BY <2>2, <3>1 DEF InputInv, TypedHolds
    <3>2. CASE k = new
      <4>1. k.page = p /\ k.keys = keys
        BY <3>2
      <4>2. typed[i].key \in Came(p)
        BY <2>2, <4>1 DEF InputInv, TypedHolds
      <4> QED
        BY <1>13, <4>1, <4>2
    <3> QED
      BY <1>1, <3>1, <3>2
  <2>3. ASSUME NEW q \in Pages, NEW x \in Came(q) PROVE x \in Nat
               /\ \E j \in 1..Len(all) : all[j] = [page |-> q, key |-> x]
    BY <1>7, <2>3 DEF Came
  <2>4. \A i \in 1..Len(typed) : typed[i].key \in Came(typed[i].page)
    BY DEF InputInv, TypedHolds
  <2>5. /\ typed' = typed /\ typed \in Seq(KeyRecord)
        /\ \A i, j \in 1..Len(typed) : typed[i] = typed[j] => i = j
    BY DEF InputInv, TypedHolds
  <2>6. \A i \in 1..Len(typed) : typed[i].key \in
           {k \in Nat : \E j \in 1..Len(all) : all[j] = [page |-> typed[i].page, key |-> k]}
    BY <2>1, <2>3, <2>4
  <2> QED
    BY <1>1, <2>2, <2>5, <2>6 DEF TypedHolds, Came
<1> QED
  BY <1>9, <1>10, <1>12, <1>14, <1>15

LEMMA ArrivesHolds ==
    ASSUME InputInv, NEW p \in Pages, InputArrives(p)
    PROVE  InputInv'
<1> DEFINE m == Head(keyWire[p])
           w == Tail(keyWire[p])
           a == Came(p)
<1>1. /\ UNCHANGED <<clients, typed, pages, budget>> /\ keyWire[p] # <<>> /\ keyWire' = [keyWire EXCEPT ![p] = w]
  BY DEF InputArrives
<1>2. /\ pages[p].open = TRUE /\ p \in ToSet(clients)
      /\ pages[p].buffer \in Seq(Nat) /\ KeysOf(pages[p].held) \in Seq(Nat) /\ pages[p].next \in Nat
      /\ keyWire[p] \in Seq(KeyFrames) /\ Lane(a, keyWire[p], pages[p].buffer, KeysOf(pages[p].held), pages[p].next)
  BY <1>1, PageKnown DEF LaneHolds
<1>3. /\ Lane(a, w, pages[p].buffer, KeysOf(pages[p].held), pages[p].next)
      /\ Lane(a \cup KeysIn(m), w, pages[p].buffer, KeysOf(pages[p].held), pages[p].next)
      /\ m \in KeyFrames /\ w \in Seq(KeyFrames) /\ Under(a, KeysIn(m))
      /\ m.kind = "keys" => Rising(m.keys)
  BY <1>1, <1>2, LaneComes
<1> HIDE DEF w
<1>4. leaseWire \in [Pages -> Seq(LeaseFrames)] /\ clients \in Seq(Pages)
      /\ \A q \in Pages : pages[q].open = FALSE => leaseWire[q] = <<>> /\ q \notin ToSet(clients)
  BY DEF InputInv, SocketsTyped
<1>5. CASE m.kind = "subscribe"
  <2> DEFINE raw == IF m.raw THEN subs \cup {p} ELSE subs \ {p}
  <2>1. /\ subs' = raw /\ looking' = looking /\ came' = came
        /\ IF p \in subs \/ m.raw THEN LeaseRefreshed(clients, subs', p, leaseWire) ELSE UNCHANGED <<owner, leaseWire>>
    BY <1>5 DEF InputArrives
  <2>2. raw \subseteq ToSet(clients) /\ (~ (p \in subs \/ m.raw) => raw = subs)
    BY <1>2 DEF InputInv, OwnerHolds
  <2>3. CameInOrder' /\ LookingHolds' /\ TypedHolds' /\ \A q \in Pages : Came(q)' = Came(q)
    BY <1>1, <2>1, HistoryKept
  <2> HIDE DEF raw
  <2>4. /\ leaseWire' \in [Pages -> Seq(LeaseFrames)] /\ OwnerHolds' /\ LeaseHolds'
        /\ \A q \in Pages : pages[q].open = FALSE => leaseWire'[q] = <<>>
    <3>1. CASE p \in subs \/ m.raw
      <4>1. LeaseRefreshed(clients, raw, p, leaseWire)
        BY <2>1, <3>1
      <4>2. /\ owner' \in Pages \cup {0} /\ (raw # {}) = (owner' # 0) /\ (owner' # 0 => owner' \in raw)
            /\ leaseWire' \in [Pages -> Seq(LeaseFrames)]
            /\ \A q \in Pages : q \notin raw => leaseWire'[q] = leaseWire[q]
            /\ \A q \in raw : \A writable : Believes(writable, leaseWire'[q], owner' = q)
        BY <1>4, <2>2, <4>1, RefreshedHolds
      <4>3. OwnerHolds'
        BY <1>1, <2>1, <2>2, <4>2 DEF OwnerHolds
      <4>4. LeaseHolds'
        BY <2>1, <4>2 DEF LeaseHolds
      <4> QED
        BY <1>4, <2>2, <4>2, <4>3, <4>4
    <3>2. CASE ~ (p \in subs \/ m.raw)
      <4>1. subs' = subs /\ owner' = owner /\ leaseWire' = leaseWire
        BY <2>1, <2>2, <3>2
      <4> QED
        BY <1>1, <1>4, <4>1 DEF InputInv, OwnerHolds, LeaseHolds
    <3> QED
      BY <3>1, <3>2
  <2>5. Lane(Came(p)', w, pages[p].buffer, KeysOf(pages[p].held), pages[p].next)
    BY <1>3, <2>3
  <2> QED
    BY <1>1, <1>2, <1>3, <2>3, <2>4, <2>5, ServerStep
<1>6. CASE m.kind # "subscribe" /\ p \in subs /\ owner = p
  <2> DEFINE keys == m.keys
  <2>1. /\ UNCHANGED <<subs, owner, leaseWire>> /\ looking' = looking \cup {[page |-> p, keys |-> keys]}
        /\ came' = came \o Marked(p, keys)
    BY <1>6 DEF InputArrives, Marked
  <2>2. m.kind = "keys" /\ keys \in Seq(Nat) /\ KeysIn(m) = ToSet(keys)
    BY <1>3, <1>6, KeysTyped
  <2>3. Rising(keys) /\ Under(a, ToSet(keys))
    BY <1>3, <2>2
  <2> HIDE DEF keys
  <2>4. /\ CameInOrder' /\ LookingHolds' /\ TypedHolds' /\ Came(p)' = Came(p) \cup ToSet(keys)
        /\ \A q \in Pages : q # p => Came(q)' = Came(q)
    BY <1>1, <2>1, <2>2, <2>3, AcceptedHolds
  <2>5. Lane(Came(p)', w, pages[p].buffer, KeysOf(pages[p].held), pages[p].next)
    BY <1>3, <2>2, <2>4
  <2>6. OwnerHolds' /\ LeaseHolds'
    BY <1>1, <2>1 DEF InputInv, OwnerHolds, LeaseHolds
  <2> QED
    BY <1>1, <1>2, <1>3, <1>4, <2>1, <2>4, <2>5, <2>6, ServerStep
<1>7. CASE m.kind # "subscribe" /\ ~ (p \in subs /\ owner = p)
  <2> DEFINE kind == IF p \in subs THEN "readOnly" ELSE "notSubscribed"
             no == FALSE
             f == [kind |-> kind, writable |-> no]
             l == Append(leaseWire[p], f)
  <2>1. /\ UNCHANGED <<subs, owner, looking, came>> /\ leaseWire' = [leaseWire EXCEPT ![p] = l]
    BY <1>7 DEF InputArrives
  <2>2. f \in LeaseFrames /\ f.kind # "lease"
    BY DEF LeaseFrames
  <2> HIDE DEF f
  <2>3. l \in Seq(LeaseFrames) /\ (p \in subs => Believes(pages[p].writable, l, owner = p))
    <3>1. leaseWire[p] \in Seq(LeaseFrames) /\ (p \in subs => Believes(pages[p].writable, leaseWire[p], owner = p))
      BY PageKnown
    <3> QED
      BY <2>2, <3>1, ToldBelieves
  <2> HIDE DEF l
  <2>4. CameInOrder' /\ LookingHolds' /\ TypedHolds' /\ \A q \in Pages : Came(q)' = Came(q)
    BY <1>1, <2>1, HistoryKept
  <2>5. /\ leaseWire' \in [Pages -> Seq(LeaseFrames)] /\ leaseWire'[p] = l
        /\ \A q \in Pages : q # p => leaseWire'[q] = leaseWire[q]
    BY <1>4, <2>1, <2>3
  <2>6. OwnerHolds'
    BY <1>1, <2>1 DEF InputInv, OwnerHolds
  <2>7. LeaseHolds'
    <3>1. ASSUME NEW q \in subs PROVE Believes(pages[q].writable, leaseWire'[q], owner = q)
      <4>1. q \in Pages
        BY <1>4, SetOfSeq DEF InputInv, OwnerHolds
      <4> QED
        BY <2>3, <2>5, <4>1 DEF InputInv, LeaseHolds
    <3> QED
      BY <1>1, <2>1, <3>1 DEF LeaseHolds
  <2>8. \A q \in Pages : pages[q].open = FALSE => leaseWire'[q] = <<>>
    BY <1>2, <1>4, <2>5
  <2>9. Lane(Came(p)', w, pages[p].buffer, KeysOf(pages[p].held), pages[p].next)
    BY <1>3, <2>4
  <2> QED
    BY <1>1, <1>2, <1>3, <2>4, <2>5, <2>6, <2>7, <2>8, <2>9, ServerStep
<1> QED
  BY <1>5, <1>6, <1>7

\* A socket opens or is lost.
LEMMA SocketStep ==
    ASSUME InputInv, NEW p \in Pages, UNCHANGED <<looking, typed, came>>, NEW g \in PageRecord,
           NEW w \in Seq(KeyFrames), clients' \in Seq(Pages), budget' \in Budgets,
           \A i, j \in DOMAIN clients' : clients'[i] = clients'[j] => i = j,
           ToSet(clients') = (IF g.open = TRUE THEN ToSet(clients) \cup {p} ELSE ToSet(clients) \ {p}),
           pages' = [pages EXCEPT ![p] = g], keyWire' = [keyWire EXCEPT ![p] = w],
           leaseWire' \in [Pages -> Seq(LeaseFrames)], OwnerHolds', LeaseHolds',
           g.open = FALSE => w = <<>> /\ leaseWire'[p] = <<>>,
           \A q \in Pages : q # p /\ pages[q].open = FALSE => leaseWire'[q] = <<>>,
           HeldHolds(g), Lane(Came(p), w, g.buffer, KeysOf(g.held), g.next)
    PROVE  InputInv'
<1>1. keyWire \in [Pages -> Seq(KeyFrames)] /\ pages \in [Pages -> PageRecord]
  BY DEF InputInv, SocketsTyped
<1>2. /\ keyWire' \in [Pages -> Seq(KeyFrames)] /\ keyWire'[p] = w
      /\ pages' \in [Pages -> PageRecord] /\ pages'[p] = g
      /\ \A q \in Pages : q # p => keyWire'[q] = keyWire[q] /\ pages'[q] = pages[q]
  BY <1>1
<1>3. \A q \in Pages : (q \in ToSet(clients')) = (pages'[q].open = TRUE)
  <2>1. ASSUME NEW q \in Pages PROVE (q \in ToSet(clients')) = (pages'[q].open = TRUE)
    <3>1. CASE q = p
      BY <1>2, <3>1
    <3>2. CASE q # p
      <4>1. (q \in ToSet(clients')) = (q \in ToSet(clients))
        BY <3>2
      <4>2. pages'[q] = pages[q] /\ (q \in ToSet(clients)) = (pages[q].open = TRUE)
        BY <1>2, <3>2 DEF InputInv, SocketsTyped
      <4> QED
        BY <4>1, <4>2
    <3> QED
      BY <3>1, <3>2
  <2> QED
    BY <2>1
<1>4. SocketsTyped'
  <2>1. \A q \in Pages : pages'[q].open = FALSE => keyWire'[q] = <<>> /\ leaseWire'[q] = <<>>
    BY <1>2 DEF InputInv, SocketsTyped
  <2> QED
    BY <1>2, <1>3, <2>1 DEF SocketsTyped
<1>5. CameInOrder' /\ LookingHolds' /\ TypedHolds' /\ \A q \in Pages : Came(q)' = Came(q)
  BY HistoryKept
<1>6. ASSUME NEW q \in Pages PROVE HeldHolds(pages'[q]) /\ LaneHolds(q)'
  <2>1. CASE q = p
    BY <1>2, <1>5, <2>1 DEF LaneHolds
  <2>2. CASE q # p
    BY <1>2, <1>5, <2>2 DEF InputInv, LaneHolds
  <2> QED
    BY <2>1, <2>2
<1>7. \A q \in Pages : HeldHolds(pages[q])' /\ LaneHolds(q)'
  BY <1>6 DEF HeldHolds
<1> QED
  BY <1>4, <1>5, <1>7 DEF InputInv

LEMMA SocketOpensHolds ==
    ASSUME InputInv, NEW p \in Pages, SocketOpens(p)
    PROVE  InputInv'
<1> DEFINE old == pages[p]
           yes == TRUE
           raw == old.view = "terminal"
           h == [old EXCEPT !.open = yes]
<1>1. /\ old.open = FALSE /\ clients' = Append(clients, p) /\ UNCHANGED <<subs, owner, looking, typed, came>>
      /\ leaseWire' = leaseWire /\ budget' = budget /\ SendSubscription(p, h, raw) /\ raw \in BOOLEAN
  BY PageKnown DEF SocketOpens
<1>2. p \notin ToSet(clients) /\ old \in PageRecord /\ yes \in BOOLEAN /\ yes = TRUE
  BY <1>1, PageKnown
<1> HIDE DEF raw, yes
<1>3. /\ h \in PageRecord /\ h.open = TRUE /\ h.held = old.held /\ h.buffer = old.buffer /\ h.next = old.next
      /\ h.subscribed = old.subscribed
  BY <1>2 DEF PageRecord
<1> HIDE DEF h
<1>4. HeldHolds(h) /\ Lane(Came(p), keyWire[p], h.buffer, KeysOf(h.held), h.next)
  BY <1>3, KeysStay
<1>5. PICK g \in PageRecord, w \in Seq(KeyFrames) :
        /\ pages' = [pages EXCEPT ![p] = g] /\ keyWire' = [keyWire EXCEPT ![p] = w]
        /\ HeldHolds(g) /\ Lane(Came(p), w, g.buffer, KeysOf(g.held), g.next) /\ g.open = h.open
  <2>1. Becomes(p, h)
    BY <1>1, <1>3, <1>4, Sent
  <2> QED
    BY <2>1 DEF Becomes
<1>6. g.open = TRUE
  BY <1>3, <1>5
<1> HIDE DEF old
<1>7. clients \in Seq(Pages) /\ \A i, j \in DOMAIN clients : clients[i] = clients[j] => i = j
  BY DEF InputInv, SocketsTyped
<1>8. /\ clients' \in Seq(Pages) /\ \A i, j \in DOMAIN clients' : clients'[i] = clients'[j] => i = j
      /\ ToSet(clients') = ToSet(clients) \cup {p}
  <2> DEFINE t == Append(clients, p)
  <2>1. t \in Seq(Pages) /\ Len(t) = Len(clients) + 1 /\ t[Len(clients) + 1] = p
        /\ \A i \in 1..Len(clients) : t[i] = clients[i]
    BY <1>7, AppendProperties
  <2>2. Len(clients) \in Nat /\ DOMAIN clients = 1..Len(clients) /\ DOMAIN t = 1..Len(t)
        /\ \A i \in 1..Len(clients) : clients[i] \in ToSet(clients)
    BY <1>7, <2>1, LenProperties, SetOfSeq
  <2>3. ToSet(t) = ToSet(clients) \cup {p}
    BY <1>7, SetOfAppend
  <2> HIDE DEF t
  <2>4. ASSUME NEW i \in DOMAIN t, NEW j \in DOMAIN t, t[i] = t[j] PROVE i = j
    <3>1. \A k \in DOMAIN t : k = Len(clients) + 1 \/ (k \in 1..Len(clients) /\ t[k] # p /\ t[k] = clients[k])
      BY <1>2, <2>1, <2>2
    <3> QED
      BY <1>7, <2>1, <2>2, <2>4, <3>1
  <2>5. clients' = t
    BY <1>1 DEF t
  <2> QED
    BY <2>1, <2>3, <2>4, <2>5
<1>9. leaseWire' \in [Pages -> Seq(LeaseFrames)] /\ budget' \in Budgets
      /\ \A q \in Pages : q # p /\ pages[q].open = FALSE => leaseWire'[q] = <<>>
  BY <1>1 DEF InputInv, SocketsTyped
<1>10. OwnerHolds'
  BY <1>1, <1>8 DEF InputInv, OwnerHolds
<1>11. LeaseHolds'
  <2>1. ASSUME NEW q \in subs PROVE Believes(pages'[q].writable, leaseWire[q], owner = q)
    <3>1. q \in Pages /\ q # p
      BY <1>2, <1>7, SetOfSeq DEF InputInv, OwnerHolds
    <3>2. pages'[q] = pages[q]
      BY <1>5, <3>1 DEF InputInv, SocketsTyped
    <3> QED
      BY <3>2 DEF InputInv, LeaseHolds
  <2> QED
    BY <1>1, <2>1 DEF LeaseHolds
<1>12. /\ ToSet(clients') = (IF g.open = TRUE THEN ToSet(clients) \cup {p} ELSE ToSet(clients) \ {p})
       /\ g.open = FALSE => w = <<>> /\ leaseWire'[p] = <<>>
  BY <1>6, <1>8
<1> QED
  BY <1>1, <1>5, <1>8, <1>9, <1>10, <1>11, <1>12, SocketStep

LEMMA SocketLostHolds ==
    ASSUME InputInv, NEW p \in Pages, SocketLost(p)
    PROVE  InputInv'
<1> DEFINE old == pages[p]
           no == FALSE  none == <<>>
           rest == RemoveFirst(clients, p)
           raw == subs \ {p}
           wire == [leaseWire EXCEPT ![p] = <<>>]
           nought == 0
           g == [old EXCEPT !.open = no, !.asked = nought]
<1>1. /\ old.open = TRUE /\ Uses("losses") /\ clients' = rest /\ subs' = raw /\ UNCHANGED <<looking, typed, came>>
      /\ IF p \in subs THEN LeaseRefreshed(rest, raw, p, wire) ELSE leaseWire' = wire /\ owner' = owner
      /\ pages' = [pages EXCEPT ![p] = g] /\ keyWire' = [keyWire EXCEPT ![p] = none]
  BY PageKnown DEF SocketLost
<1>2. /\ p \in ToSet(clients) /\ old \in PageRecord /\ HeldHolds(old)
      /\ Lane(Came(p), keyWire[p], old.buffer, KeysOf(old.held), old.next)
  BY <1>1, PageKnown DEF LaneHolds
<1>3. /\ clients \in Seq(Pages) /\ \A i, j \in DOMAIN clients : clients[i] = clients[j] => i = j
      /\ leaseWire \in [Pages -> Seq(LeaseFrames)]
      /\ \A q \in Pages : pages[q].open = FALSE => leaseWire[q] = <<>> /\ q \notin ToSet(clients)
  BY DEF InputInv, SocketsTyped
<1>4. /\ rest \in Seq(Pages) /\ \A i, j \in DOMAIN rest : rest[i] = rest[j] => i = j
      /\ ToSet(rest) = ToSet(clients) \ {p}
  <2>1. PICK i \in 1..Len(clients) : clients[i] = p
    BY <1>2, <1>3, SetOfSeq
  <2>2. DOMAIN clients = 1..Len(clients) /\ Len(clients) \in Nat
    BY <1>3, LenProperties
  <2>3. rest = RemoveAt(clients, i)
    <3> DEFINE at == {j \in 1..Len(clients) : clients[j] = p}
    <3>1. at = {i}
      BY <1>3, <2>1, <2>2
    <3>2. SelectInSeq(clients, LAMBDA v : v = p) = Min(at)
      BY <3>1 DEF SelectInSeq
    <3>3. Min(at) \in at
      <4>1. at \subseteq Nat /\ at # {}
        BY <2>1
      <4> QED
        BY <4>1, LeastOne
    <3>4. Min(at) = i
      BY <3>1, <3>3
    <3> HIDE DEF at
    <3> QED
      BY <2>1, <3>2, <3>4 DEF RemoveFirst
  <2> HIDE DEF rest
  <2>4. /\ rest \in Seq(Pages) /\ Len(rest) = Len(clients) - 1
        /\ \A j \in 1..Len(clients) - 1 : rest[j] = (IF j < i THEN clients[j] ELSE clients[j + 1])
    <3>1. /\ RemoveAt(clients, i) \in Seq(Pages) /\ Len(RemoveAt(clients, i)) = Len(clients) - 1
          /\ \A j \in 1..Len(clients) - 1 :
               RemoveAt(clients, i)[j] = (IF j < i THEN clients[j] ELSE clients[j + 1])
      BY <1>3, RemovedAt
    <3> QED
      BY <2>3, <3>1
  <2>5. DOMAIN rest = 1..Len(rest) /\ ToSet(rest) = {rest[j] : j \in 1..Len(rest)}
        /\ ToSet(clients) = {clients[j] : j \in 1..Len(clients)}
    <3>1. DOMAIN rest = 1..Len(rest)
      BY <2>4, LenProperties
    <3>2. ToSet(rest) = {rest[j] : j \in 1..Len(rest)}
      BY <2>4, SetOfSeq
    <3>3. ToSet(clients) = {clients[j] : j \in 1..Len(clients)}
      BY <1>3, SetOfSeq
    <3> QED
      BY <3>1, <3>2, <3>3
  <2>6. ASSUME NEW j \in 1..Len(rest)
        PROVE  \E k \in 1..Len(clients) : /\ k = (IF j < i THEN j ELSE j + 1) /\ k # i /\ rest[j] = clients[k]
    <3>1. CASE j < i
      <4>1. j \in 1..Len(clients) /\ j # i /\ rest[j] = clients[j]
        BY <2>2, <2>4, <3>1
      <4> QED
        BY <3>1, <4>1
    <3>2. CASE ~ (j < i)
      <4>1. j + 1 \in 1..Len(clients) /\ j + 1 # i /\ rest[j] = clients[j + 1]
        BY <2>1, <2>2, <2>4, <3>2
      <4> QED
        BY <3>2, <4>1
    <3> QED
      BY <3>1, <3>2
  <2>7. ASSUME NEW j \in 1..Len(rest), NEW k \in 1..Len(rest), rest[j] = rest[k] PROVE j = k
    <3>1. (IF j < i THEN j ELSE j + 1) = (IF k < i THEN k ELSE k + 1)
      BY <1>3, <2>2, <2>6, <2>7
    <3>2. CASE j < i
      BY <2>1, <3>1, <3>2
    <3>3. CASE ~ (j < i)
      BY <2>1, <3>1, <3>3
    <3> QED
      BY <3>2, <3>3
  <2>8. ASSUME NEW q \in ToSet(rest) PROVE q \in ToSet(clients) \ {p}
    <3>1. PICK j \in 1..Len(rest) : q = rest[j]
      BY <2>5
    <3>2. PICK k \in 1..Len(clients) : k # i /\ q = clients[k]
      BY <2>6, <3>1
    <3>3. clients[k] # p
      BY <1>3, <2>1, <2>2, <3>2
    <3> QED
      BY <2>5, <3>2, <3>3
  <2>9. ASSUME NEW q \in ToSet(clients) \ {p} PROVE q \in ToSet(rest)
    <3>1. PICK k \in 1..Len(clients) : q = clients[k]
      BY <2>5
    <3>2. k # i
      BY <2>1, <3>1
    <3>3. CASE k < i
      <4>1. k \in 1..Len(rest) /\ rest[k] = clients[k]
        BY <2>1, <2>2, <2>4, <3>3
      <4> QED
        BY <2>5, <3>1, <4>1
    <3>4. CASE ~ (k < i)
      <4>1. k - 1 \in 1..Len(rest) /\ ~ (k - 1 < i) /\ (k - 1) + 1 = k
        BY <2>1, <2>2, <2>4, <3>2, <3>4
      <4>2. rest[k - 1] = clients[k]
        BY <2>4, <4>1
      <4> QED
        BY <2>5, <3>1, <4>1, <4>2
    <3> QED
      BY <3>3, <3>4
  <2>10. ToSet(rest) = ToSet(clients) \ {p}
    BY <2>8, <2>9
  <2> QED
    BY <2>4, <2>5, <2>7, <2>10
<1> HIDE DEF rest
<1>5. raw \subseteq ToSet(rest) /\ subs \subseteq Pages
  BY <1>3, <1>4, SetOfSeq DEF InputInv, OwnerHolds
<1>6. wire \in [Pages -> Seq(LeaseFrames)] /\ wire[p] = <<>> /\ \A q \in Pages : q # p => wire[q] = leaseWire[q]
  <2>1. <<>> \in Seq(LeaseFrames)
    BY EmptySeq
  <2> QED
    BY <1>3, <2>1
<1>7. none = <<>> /\ none \in Seq(KeyFrames) /\ no \in BOOLEAN /\ no = FALSE /\ nought \in Nat
  BY EmptySeq
<1> HIDE DEF wire, no, none, nought
<1>8. g \in PageRecord /\ g.open = FALSE /\ g.held = old.held /\ g.buffer = old.buffer /\ g.next = old.next
      /\ g.subscribed = old.subscribed /\ g.writable = old.writable
  BY <1>2, <1>7 DEF PageRecord
<1>9. Lane(Came(p), none, g.buffer, KeysOf(g.held), g.next) /\ HeldHolds(g)
  BY <1>2, <1>7, <1>8, LaneForgets DEF HeldHolds
<1> HIDE DEF g, old
<1>10. pages'[p] = g /\ \A q \in Pages : q # p => pages'[q] = pages[q]
  BY <1>1 DEF InputInv, SocketsTyped
<1>11. /\ leaseWire' \in [Pages -> Seq(LeaseFrames)] /\ OwnerHolds' /\ LeaseHolds'
       /\ leaseWire'[p] = <<>> /\ \A q \in Pages : q # p /\ pages[q].open = FALSE => leaseWire'[q] = <<>>
  <2>1. CASE p \in subs
    <3>1. LeaseRefreshed(rest, raw, p, wire)
      BY <1>1, <2>1
    <3> HIDE DEF raw
    <3>2. /\ owner' \in Pages \cup {0} /\ (raw # {}) = (owner' # 0) /\ (owner' # 0 => owner' \in raw)
          /\ leaseWire' \in [Pages -> Seq(LeaseFrames)]
          /\ \A q \in Pages : q \notin raw => leaseWire'[q] = wire[q]
          /\ \A q \in raw : \A writable : Believes(writable, leaseWire'[q], owner' = q)
      BY <1>4, <1>5, <1>6, <3>1, RefreshedHolds
    <3>3. OwnerHolds'
      BY <1>1, <1>5, <3>2 DEF OwnerHolds
    <3>4. LeaseHolds'
      BY <1>1, <3>2 DEF LeaseHolds
    <3>5. p \notin raw /\ \A q \in raw : q \in ToSet(clients)
      BY <1>4, <1>5 DEF raw
    <3> QED
      BY <1>3, <1>6, <3>2, <3>3, <3>4, <3>5
  <2>2. CASE p \notin subs
    <3>1. raw = subs /\ subs' = subs /\ leaseWire' = wire /\ owner' = owner
      BY <1>1, <2>2
    <3>2. OwnerHolds'
      BY <1>1, <1>5, <3>1 DEF InputInv, OwnerHolds
    <3>3. ASSUME NEW q \in subs PROVE Believes(pages'[q].writable, wire[q], owner = q)
      BY <1>5, <1>6, <1>10, <2>2 DEF InputInv, LeaseHolds
    <3>4. LeaseHolds'
      BY <3>1, <3>3 DEF LeaseHolds
    <3> QED
      BY <1>3, <1>6, <3>1, <3>2, <3>4
  <2> QED
    BY <2>1, <2>2
<1>12. budget' \in Budgets
  BY <1>1, UsesTyped
<1>13. /\ clients' \in Seq(Pages) /\ \A i, j \in DOMAIN clients' : clients'[i] = clients'[j] => i = j
       /\ ToSet(clients') = (IF g.open = TRUE THEN ToSet(clients) \cup {p} ELSE ToSet(clients) \ {p})
  BY <1>1, <1>4, <1>8
<1>14. g.open = FALSE => none = <<>> /\ leaseWire'[p] = <<>>
  BY <1>7, <1>11
<1> QED
  BY <1>1, <1>7, <1>8, <1>9, <1>11, <1>12, <1>13, <1>14, SocketStep

LEMMA InputBegins ==
    ASSUME InputInit
    PROVE  InputInv
<1> DEFINE none == <<>>  yes == TRUE  no == FALSE  one == 1  nought == 0  tty == "terminal"
<1>1. /\ clients = none /\ subs = {} /\ owner = 0 /\ looking = {} /\ typed = none /\ came = none
      /\ pages = [p \in Pages |-> PageState] /\ keyWire = [p \in Pages |-> none]
      /\ leaseWire = [p \in Pages |-> none] /\ budget \in InputLoads
  BY DEF InputInit
<1>2. PageState = [writable |-> yes, subscribed |-> no, awaiting |-> no, view |-> tty, held |-> none,
                   buffer |-> none, next |-> one, open |-> no, asked |-> nought]
  BY DEF PageState
<1>3. /\ none = <<>> /\ Len(none) = 0 /\ \A T : none \in Seq(T)
      /\ yes \in BOOLEAN /\ no \in BOOLEAN /\ no = FALSE /\ one \in Nat /\ HeldKeys \in Nat
      /\ nought \in Nat /\ tty \in {"terminal", "hidden", "document"} /\ KeysOf(none) = none
      /\ ToSet(none) = {} /\ Rising(none)
  BY EmptySeq, NothingRises, NothingHeld, InputAssumption
<1>4. DOMAIN none = {}
  BY <1>3
<1> HIDE DEF none, yes, no, one, nought, tty
<1>5. /\ PageState \in PageRecord /\ PageState.open = FALSE /\ PageState.held = none /\ PageState.buffer = none
      /\ PageState.next = one
  BY <1>2, <1>3 DEF PageRecord
<1>6. SocketsTyped
  <2>1. /\ keyWire \in [Pages -> Seq(KeyFrames)] /\ leaseWire \in [Pages -> Seq(LeaseFrames)]
        /\ pages \in [Pages -> PageRecord] /\ clients \in Seq(Pages)
    BY <1>1, <1>3, <1>5
  <2>2. budget \in Budgets
    BY <1>1, InputAssumption DEF Budgets
  <2>3. \A p \in Pages : (p \in ToSet(clients)) = (pages[p].open = TRUE)
    BY <1>1, <1>3, <1>5
  <2>4. \A p \in Pages : pages[p].open = FALSE => keyWire[p] = <<>> /\ leaseWire[p] = <<>>
    BY <1>1, <1>3
  <2>5. \A i, j \in DOMAIN clients : clients[i] = clients[j] => i = j
    BY <1>1, <1>4
  <2> QED
    BY <2>1, <2>2, <2>3, <2>4, <2>5 DEF SocketsTyped
<1>7. OwnerHolds /\ LeaseHolds
  BY <1>1 DEF OwnerHolds, LeaseHolds
<1>8. 1..Len(none) = {}
  BY <1>3
<1>9. \A p \in Pages : Came(p) = {}
  BY <1>1, <1>8 DEF Came
<1>10. Lane({}, none, none, none, one)
  BY <1>3, <1>8 DEF Lane, Under
<1>11. ASSUME NEW p \in Pages PROVE HeldHolds(pages[p]) /\ LaneHolds(p)
  <2>1. pages[p] = PageState /\ keyWire[p] = none /\ Came(p) = {}
    BY <1>1, <1>9
  <2>2. Lane(Came(p), keyWire[p], pages[p].buffer, KeysOf(pages[p].held), pages[p].next)
    BY <1>3, <1>5, <1>10, <2>1
  <2>3. HeldHolds(pages[p])
    BY <1>3, <1>5, <2>1 DEF HeldHolds
  <2> QED
    BY <2>2, <2>3 DEF LaneHolds
<1>12. CameInOrder /\ LookingHolds /\ TypedHolds
  BY <1>1, <1>3, <1>8 DEF CameInOrder, LookingHolds, TypedHolds
<1> QED
  BY <1>6, <1>7, <1>11, <1>12 DEF InputInv

LEMMA InputStep ==
    ASSUME InputInv, [InputNext]_inputVars
    PROVE  InputInv'
<1>1. ASSUME NEW p \in Pages,
             \/ InputArrives(p) \/ WindowEnds(p) \/ LeaseArrives(p) \/ PageHides(p) \/ PageShows(p)
             \/ ScreenAsked(p) \/ SocketOpens(p) \/ SocketLost(p)
             \/ \E b \in BOOLEAN : KeyPressed(p, b) \/ ScreenCame(p, b)
      PROVE  InputInv'
  BY <1>1, ArrivesHolds, WindowHolds, LeaseComes, HidesHolds, ShowsHolds, ScreenAskedHolds, ScreenCameHolds,
     SocketOpensHolds, SocketLostHolds, PressedHolds
<1>2. ASSUME NEW k \in looking, InputTyped(k) PROVE InputInv'
  BY <1>2, TypedStep
<1>3. CASE UNCHANGED inputVars
  <2>1. UNCHANGED <<clients, subs, owner, looking, typed, came, pages, keyWire, leaseWire, budget>>
    BY <1>3 DEF inputVars
  <2>2. CameInOrder' /\ LookingHolds' /\ TypedHolds' /\ \A q \in Pages : Came(q)' = Came(q)
    BY <2>1, HistoryKept
  <2>3. SocketsTyped' /\ OwnerHolds' /\ LeaseHolds'
    BY <2>1 DEF InputInv, SocketsTyped, OwnerHolds, LeaseHolds
  <2>4. \A p \in Pages : HeldHolds(pages[p])' /\ LaneHolds(p)'
    BY <2>1, <2>2 DEF InputInv, HeldHolds, LaneHolds
  <2> QED
    BY <2>2, <2>3, <2>4 DEF InputInv
<1> QED
  BY <1>1, <1>2, <1>3 DEF InputNext

LEMMA InputInvHolds ==
    ASSUME InputInv
    PROVE  KeysArrive
<1>1. InputTypes
  BY PageKnown DEF InputTypes, InputInv, OwnerHolds, HeldHolds
<1>2. KeysArriveInOrder
  <2>1. DOMAIN came = 1..Len(came) /\ DOMAIN typed = 1..Len(typed)
    BY LenProperties DEF InputInv, CameInOrder, TypedHolds
  <2> QED
    BY <2>1 DEF KeysArriveInOrder, InputInv, CameInOrder, TypedHolds
<1>3. LeaseSettles
  <2>1. ASSUME NEW p \in subs, leaseWire[p] = <<>> PROVE pages[p].writable = (owner = p)
    <3>1. Believes(pages[p].writable, leaseWire[p], owner = p)
      BY DEF InputInv, LeaseHolds
    <3>2. 1..Len(leaseWire[p]) = {}
      BY <2>1, NothingRises
    <3> QED
      BY <3>1, <3>2 DEF Believes
  <2>2. subs \subseteq Pages
    BY SetOfSeq DEF InputInv, OwnerHolds, SocketsTyped
  <2> QED
    BY <2>1, <2>2 DEF LeaseSettles, InputInv, OwnerHolds
<1> QED
  BY <1>1, <1>2, <1>3 DEF KeysArrive

\* What the agent gets is what was typed: keys reach the server in the order in which a page's
\* reader pressed them and the agent gets none of them twice, and once nothing is on its way one
\* of the pages that show the terminal may type and each knows whether it is the one.  For any
\* pages and any number of keys held back, whatever sockets are lost and screens looked away from.
THEOREM KeysTrue == InputSpec => []KeysArrive
<1>1. InputInit => InputInv
  BY InputBegins
<1>2. InputInv /\ [InputNext]_inputVars => InputInv'
  BY InputStep
<1>3. InputInv => KeysArrive
  BY InputInvHolds
<1> QED
  BY <1>1, <1>2, <1>3, PTL DEF InputSpec

-----------------------------------------------------------------------------
(* The sidebar.  What makes SidebarIsTrue inductive. *)

IndexRow == [tabs : Nat \ {0}, ui : {1, 100}]
IndexMessage == [kind : {"full", "delta"}, from : Nat, rev : Nat, tabs : Nat, ui : Nat]
NavRecord == [open : BOOLEAN, up : Seq(Nat \cup {Unknown}), down : Seq(IndexMessage), unsaid : BOOLEAN]
AskedRecord == [claim : Nat \cup {Unknown}, rev : Nat]
QuotaRecord ==
    [writes : Nat, prefers : Nat, refreshes : Nat, drops : Nat, failed : BOOLEAN]

\* From revision to revision the index only grows, tabs and preferences alike.
IndexGrows(ix) ==
    /\ ix \in Seq(IndexRow) /\ Len(ix) >= 1
    /\ \A r \in 1..Len(ix) : ix[r].tabs <= Len(ix)
    /\ \A r, s \in 1..Len(ix) : r <= s => ix[r].tabs <= ix[s].tabs /\ ix[r].ui <= ix[s].ui

TalkTyped ==
    /\ previous \in {0, Current} /\ client \in [wants : BOOLEAN, rev : 0..Current \cup {Unknown}]
    /\ asking \in Seq(AskedRecord)
    /\ nav \in NavRecord
PageTyped ==
    /\ shown \in [rev : 0..Current, tabs : Nat, ui : Nat]
    /\ answers \subseteq [kind : {"refresh", "prefer"}, rev : 0..Current]
    /\ quota \in QuotaRecord

\* A message says what its revision of the index says, or what it changed of another.
MessageTrue(m, ix) ==
    /\ m.rev \in 1..Len(ix)
    /\ m.kind = "full" => m.tabs = ix[m.rev].tabs /\ m.ui = ix[m.rev].ui
    /\ m.kind = "delta" => /\ m.from \in 1..Len(ix)
                           /\ m.tabs = Change(ix[m.from].tabs, ix[m.rev].tabs)
                           /\ m.ui = Change(ix[m.from].ui, ix[m.rev].ui)
MessagesTrue == \A m \in ToSet(nav.down) : MessageTrue(m, index)

\* The page shows a revision, but for preferences that it has set itself; once those are not
\* what is written, the request is under way, or has failed.
ShownTrue ==
    shown = NoIndex
    \/ (shown.rev \in 1..Current /\ shown.tabs = index[shown.rev].tabs /\ shown.ui \in {index[shown.rev].ui, 100})
PreferHolds ==
    /\ \A a \in answers : a.kind = "prefer" => a.rev = 0
    /\ shown.ui = 100 /\ index[Current].ui # 100 => quota.failed \/ \E a \in answers : a.kind = "prefer"

\* No subscription claims more than the page holds, or is answered from an index yet to come.
ClaimsHold ==
    /\ \A c \in ToSet(nav.up) : c <= shown.rev
    /\ \A q \in ToSet(asking) : q.claim <= shown.rev /\ q.rev <= Current

SocketHolds ==
    /\ ~ nav.open => nav = Closed0 /\ asking = <<>> /\ client = Unwatched
    /\ nav.open /\ nav.up = <<>> => client.wants

\* A revision that says what the last one says.
AsLast(r, ix) == r \in 1..Len(ix) /\ ix[r].tabs = ix[Len(ix)].tabs /\ ix[r].ui = ix[Len(ix)].ui
\* The page holds such a revision, or one is on its way, or will be the answer to what it asked.
AnswersLast(q, ix) == q.rev = 0 \/ (q.claim # q.rev /\ AsLast(q.rev, ix))
Settled == AsLast(shown.rev, index) \/ \E m \in ToSet(nav.down) : AsLast(m.rev, index)
WillSettle ==
    nav.open /\ nav.up = <<>> /\ ~ nav.unsaid => Settled \/ \E q \in ToSet(asking) : AnswersLast(q, index)

IndexInv ==
    /\ IndexGrows(index) /\ TalkTyped /\ PageTyped
    /\ MessagesTrue /\ ShownTrue /\ PreferHolds /\ ClaimsHold /\ SocketHolds /\ WillSettle

-----------------------------------------------------------------------------
(* What a sequence holds when it changes. *)

LEMMA SetOfTail ==
    ASSUME NEW T, NEW s \in Seq(T), s # <<>>
    PROVE  Head(s) \in T /\ Tail(s) \in Seq(T) /\ ToSet(s) = {Head(s)} \cup ToSet(Tail(s))
<1>1. Head(s) \in T /\ Tail(s) \in Seq(T) /\ Len(Tail(s)) = Len(s) - 1
      /\ \A i \in 1..Len(Tail(s)) : Tail(s)[i] = s[i + 1]
  BY HeadTailProperties
<1>2. Len(s) \in Nat \ {0} /\ Head(s) = s[1]
  BY EmptySeq
<1>3. /\ ToSet(s) = {s[i] : i \in 1..Len(s)}
      /\ ToSet(Tail(s)) = {Tail(s)[i] : i \in 1..Len(Tail(s))}
  <2>1. ToSet(s) = {s[i] : i \in 1..Len(s)}
    BY SetOfSeq
  <2> DEFINE t == Tail(s)
  <2>2. t \in Seq(T)
    BY <1>1
  <2> HIDE DEF t
  <2>3. ToSet(t) = {t[i] : i \in 1..Len(t)}
    BY <2>2, SetOfSeq
  <2> QED
    BY <2>1, <2>3 DEF t
<1>4. ASSUME NEW y \in ToSet(s) PROVE y \in {Head(s)} \cup ToSet(Tail(s))
  <2>1. PICK i \in 1..Len(s) : y = s[i]
    BY <1>3, <1>4
  <2>2. CASE i = 1
    BY <1>2, <2>1, <2>2
  <2>3. CASE i # 1
    <3>1. i - 1 \in 1..Len(Tail(s)) /\ (i - 1) + 1 = i
      BY <1>1, <1>2, <2>1, <2>3
    <3> QED
      BY <1>1, <1>3, <2>1, <3>1
  <2> QED
    BY <2>2, <2>3
<1>5. ASSUME NEW y \in {Head(s)} \cup ToSet(Tail(s)) PROVE y \in ToSet(s)
  <2>1. CASE y = Head(s)
    BY <1>2, <1>3, <2>1
  <2>2. CASE y \in ToSet(Tail(s))
    <3>1. PICK i \in 1..Len(Tail(s)) : y = Tail(s)[i]
      BY <1>3, <2>2
    <3>2. i + 1 \in 1..Len(s) /\ y = s[i + 1]
      BY <1>1, <1>2, <3>1
    <3> QED
      BY <1>3, <3>2
  <2> QED
    BY <1>5, <2>1, <2>2
<1> QED
  BY <1>1, <1>4, <1>5

LEMMA SetOfRemoved ==
    ASSUME NEW T, NEW s \in Seq(T), NEW i \in 1..Len(s)
    PROVE  /\ RemoveAt(s, i) \in Seq(T) /\ ToSet(RemoveAt(s, i)) \subseteq ToSet(s)
           /\ ToSet(s) \subseteq ToSet(RemoveAt(s, i)) \cup {s[i]}
<1> DEFINE t == RemoveAt(s, i)
<1>1. t \in Seq(T) /\ Len(t) = Len(s) - 1 /\ Len(s) \in Nat
      /\ \A j \in 1..Len(s) - 1 : t[j] = (IF j < i THEN s[j] ELSE s[j + 1])
  BY RemovedAt, LenProperties
<1> HIDE DEF t
<1>2. ToSet(t) = {t[j] : j \in 1..Len(t)} /\ ToSet(s) = {s[j] : j \in 1..Len(s)}
  BY <1>1, SetOfSeq
<1>3. ASSUME NEW y \in ToSet(t) PROVE y \in ToSet(s)
  <2>1. PICK j \in 1..Len(t) : y = t[j]
    BY <1>2, <1>3
  <2>2. \E k \in 1..Len(s) : y = s[k]
    <3>1. j \in 1..Len(s) /\ j + 1 \in 1..Len(s)
      BY <1>1, <2>1
    <3> QED
      BY <1>1, <2>1, <3>1
  <2> QED
    BY <1>2, <2>2
<1>4. ASSUME NEW y \in ToSet(s) PROVE y \in ToSet(t) \cup {s[i]}
  <2>1. PICK j \in 1..Len(s) : y = s[j]
    BY <1>2, <1>4
  <2>2. CASE j = i
    BY <2>1, <2>2
  <2>3. CASE j < i
    <3>1. j \in 1..Len(t) /\ t[j] = y
      BY <1>1, <2>1, <2>3
    <3> QED
      BY <1>2, <3>1
  <2>4. CASE j > i
    <3>1. j - 1 \in 1..Len(t) /\ t[j - 1] = s[(j - 1) + 1] /\ (j - 1) + 1 = j
      BY <1>1, <2>1, <2>4
    <3> QED
      BY <1>2, <2>1, <3>1
  <2> QED
    BY <1>1, <2>1, <2>2, <2>3, <2>4
<1> QED
  BY <1>1, <1>3, <1>4 DEF t

LEMMA SetOfExcept ==
    ASSUME NEW T, NEW s \in Seq(T), NEW i \in 1..Len(s), NEW x \in T
    PROVE  LET t == [s EXCEPT ![i] = x]
           IN  t \in Seq(T) /\ x \in ToSet(t) /\ ToSet(t) \subseteq ToSet(s) \cup {x}
               /\ ToSet(s) \subseteq ToSet(t) \cup {s[i]}
<1> DEFINE t == [s EXCEPT ![i] = x]
<1>1. t \in Seq(T) /\ Len(t) = Len(s) /\ \A j \in 1..Len(s) : t[j] = (IF j = i THEN x ELSE s[j])
  BY ExceptSeq
<1> HIDE DEF t
<1>2. ToSet(t) = {t[j] : j \in 1..Len(s)} /\ ToSet(s) = {s[j] : j \in 1..Len(s)}
  BY <1>1, SetOfSeq
<1>3. x \in ToSet(t)
  BY <1>1, <1>2
<1>4. ToSet(t) \subseteq ToSet(s) \cup {x}
  BY <1>1, <1>2
<1>5. ToSet(s) \subseteq ToSet(t) \cup {s[i]}
  BY <1>1, <1>2
<1> QED
  BY <1>1, <1>3, <1>4, <1>5 DEF t

-----------------------------------------------------------------------------
(* Revisions. *)

LEMMA RowsTyped ==
    ASSUME NEW ix, IndexGrows(ix)
    PROVE  /\ Len(ix) \in Nat \ {0} /\ Len(ix) \in 1..Len(ix)
           /\ \A r \in 1..Len(ix) : ix[r] \in IndexRow /\ ix[r].tabs \in Nat \ {0} /\ ix[r].ui \in {1, 100}
<1>1. Len(ix) \in Nat /\ \A r \in 1..Len(ix) : ix[r] \in IndexRow
  BY ElementOfSeq, LenProperties DEF IndexGrows
<1> QED
  BY <1>1 DEF IndexGrows, IndexRow

\* What says what the last revision says is followed by nothing else.
LEMMA AsLastOnward ==
    ASSUME NEW ix, IndexGrows(ix), NEW r, NEW s \in 1..Len(ix), AsLast(r, ix), r <= s
    PROVE  AsLast(s, ix)
<1>1. r \in 1..Len(ix) /\ ix[r].tabs = ix[Len(ix)].tabs /\ ix[r].ui = ix[Len(ix)].ui
  BY DEF AsLast
<1>2. Len(ix) \in 1..Len(ix) /\ s <= Len(ix)
      /\ \A q \in 1..Len(ix) : ix[q].tabs \in Nat \ {0} /\ ix[q].ui \in {1, 100}
  BY RowsTyped
<1>3. ix[r].tabs <= ix[s].tabs /\ ix[r].ui <= ix[s].ui /\ ix[s].tabs <= ix[Len(ix)].tabs /\ ix[s].ui <= ix[Len(ix)].ui
  BY <1>1, <1>2 DEF IndexGrows
<1> QED
  BY <1>1, <1>2, <1>3 DEF AsLast

\* A revision is written.
LEMMA IndexWritten ==
    ASSUME IndexGrows(index), NEW value \in IndexRow, index' = Append(index, value), value.tabs <= Current + 1,
           index[Current].tabs <= value.tabs, index[Current].ui <= value.ui
    PROVE  /\ IndexGrows(index') /\ Len(index') = Current + 1 /\ index'[Current + 1] = value
           /\ \A r \in 1..Current : index'[r] = index[r] /\ r \in 1..Len(index')
<1>1. index \in Seq(IndexRow) /\ Current \in Nat \ {0} /\ Current \in 1..Current
      /\ \A r \in 1..Current : index[r].tabs \in Nat \ {0} /\ index[r].ui \in {1, 100}
  BY RowsTyped DEF IndexGrows, Current
<1>2. index' \in Seq(IndexRow) /\ Len(index') = Current + 1 /\ index'[Current + 1] = value
      /\ \A r \in 1..Current : index'[r] = index[r]
  BY <1>1, AppendProperties DEF Current
<1>3. \A r \in 1..Current + 1 : r \in 1..Current \/ r = Current + 1
  BY <1>1
<1>4. value.tabs \in Nat /\ value.ui \in Nat
  BY DEF IndexRow
<1>5. \A r \in 1..Current + 1 : index'[r].tabs <= Current + 1
  BY <1>1, <1>2, <1>3 DEF IndexGrows, Current
<1>6. ASSUME NEW r \in 1..Current + 1, NEW s \in 1..Current + 1, r <= s
      PROVE  index'[r].tabs <= index'[s].tabs /\ index'[r].ui <= index'[s].ui
  <2>1. CASE s \in 1..Current
    <3>1. r \in 1..Current
      BY <1>1, <1>6, <2>1
    <3> QED
      BY <1>2, <1>6, <2>1, <3>1 DEF IndexGrows, Current
  <2>2. CASE r \in 1..Current /\ s = Current + 1
    <3>1. index[r].tabs <= index[Current].tabs /\ index[r].ui <= index[Current].ui
      BY <1>1, <2>2 DEF IndexGrows, Current
    <3>2. index[r].tabs \in Nat /\ index[Current].tabs \in Nat /\ index[r].ui \in Nat /\ index[Current].ui \in Nat
      BY <1>1, <2>2
    <3> QED
      BY <1>2, <1>4, <2>2, <3>1, <3>2
  <2>3. CASE r = Current + 1 /\ s = Current + 1
    BY <1>2, <1>4, <2>3
  <2> QED
    BY <1>1, <1>3, <1>6, <2>1, <2>2, <2>3
<1>7. IndexGrows(index')
  BY <1>1, <1>2, <1>5, <1>6 DEF IndexGrows
<1> QED
  BY <1>1, <1>2, <1>7

-----------------------------------------------------------------------------
(* What is sent, and what the page makes of it. *)

\* What sendIndex sends is true, and it sends nothing only if nothing has changed since the
\* revision it believed the page to hold.
LEMMA SendsTrue ==
    ASSUME IndexGrows(index'), NEW known, NEW rev \in 1..Len(index'), previous \in 0..Len(index'),
           NEW s \in Sends(known, rev)
    PROVE  /\ s.rev = rev
           /\ \/ /\ s.sent = <<>> /\ previous \in 1..Len(index') /\ previous = known
                 /\ index'[previous].tabs = index'[rev].tabs /\ index'[previous].ui = index'[rev].ui
              \/ \E m \in IndexMessage : s.sent = <<m>> /\ m.rev = rev /\ MessageTrue(m, index')
<1>1. Len(index') \in Nat
      /\ \A r \in 1..Len(index') : index'[r].tabs \in Nat \ {0} /\ index'[r].ui \in {1, 100}
  BY RowsTyped
<1> DEFINE f == Full(rev)  d == DeltaFrom(previous, rev)
<1>2. f \in IndexMessage /\ f.rev = rev /\ MessageTrue(f, index')
  BY <1>1 DEF Full, IndexMessage, MessageTrue
<1>3. CASE previous # 0 /\ previous = known /\ rev # previous
  <2>1. previous \in 1..Len(index')
    BY <1>1, <1>3
  <2>2. d \in IndexMessage /\ d.rev = rev /\ MessageTrue(d, index')
    BY <1>1, <2>1 DEF DeltaFrom, IndexMessage, MessageTrue, Change
  <2>3. d.tabs = 0 /\ d.ui = 0 => /\ index'[previous].tabs = index'[rev].tabs
                                 /\ index'[previous].ui = index'[rev].ui
    BY <1>1, <2>1 DEF DeltaFrom, Change
  <2> HIDE DEF f, d
  <2>4. s \in (IF d.tabs = 0 /\ d.ui = 0 THEN {[sent |-> <<>>, rev |-> rev]}
               ELSE {[sent |-> <<d>>, rev |-> rev], [sent |-> <<f>>, rev |-> rev]})
    BY <1>3 DEF Sends, f, d
  <2>5. CASE d.tabs = 0 /\ d.ui = 0
    BY <1>3, <2>1, <2>3, <2>4, <2>5
  <2>6. CASE ~ (d.tabs = 0 /\ d.ui = 0)
    BY <1>2, <2>2, <2>4, <2>6
  <2> QED
    BY <2>5, <2>6
<1>4. CASE ~ (previous # 0 /\ previous = known /\ rev # previous)
  <2>1. s = [sent |-> <<f>>, rev |-> rev]
    BY <1>4 DEF Sends
  <2> HIDE DEF f
  <2> QED
    BY <1>2, <2>1
<1> QED
  BY <1>3, <1>4

\* What is sent stands behind what is on its way.
LEMMA DownTakes ==
    ASSUME TalkTyped, NEW m \in IndexMessage, NEW b \in BOOLEAN,
           nav' = [nav EXCEPT !.down = @ \o <<m>>, !.unsaid = b]
    PROVE  /\ nav' \in NavRecord /\ nav'.open = nav.open /\ nav'.up = nav.up /\ nav'.unsaid = b
           /\ ToSet(nav'.down) = ToSet(nav.down) \cup {m}
<1> DEFINE d == nav.down  e == d \o <<m>>
<1>1. d \in Seq(IndexMessage)
  BY DEF TalkTyped, NavRecord
<1> HIDE DEF d
<1>2. e = Append(d, m)
  BY <1>1, AppendIsConcat
<1>3. e \in Seq(IndexMessage) /\ ToSet(e) = ToSet(d) \cup {m}
  <2>1. Append(d, m) \in Seq(IndexMessage)
    BY <1>1, AppendProperties
  <2>2. ToSet(Append(d, m)) = ToSet(d) \cup {m}
    BY <1>1, SetOfAppend
  <2> QED
    BY <1>2, <2>1, <2>2
<1> HIDE DEF e
<1>4. nav' = [nav EXCEPT !.down = e, !.unsaid = b]
  BY DEF d, e
<1> QED
  BY <1>3, <1>4 DEF TalkTyped, NavRecord, d

LEMMA DownStays ==
    ASSUME TalkTyped, NEW b \in BOOLEAN, nav' = [nav EXCEPT !.down = @ \o <<>>, !.unsaid = b]
    PROVE  /\ nav' \in NavRecord /\ nav'.open = nav.open /\ nav'.up = nav.up /\ nav'.unsaid = b
           /\ nav'.down = nav.down
<1> DEFINE d == nav.down  e == d \o <<>>
<1>1. d \in Seq(IndexMessage)
  BY DEF TalkTyped, NavRecord
<1> HIDE DEF d
<1>2. e = d
  BY <1>1, ConcatEmptySeq
<1> HIDE DEF e
<1>3. nav' = [nav EXCEPT !.down = e, !.unsaid = b]
  BY DEF d, e
<1> QED
  BY <1>1, <1>2, <1>3 DEF TalkTyped, NavRecord, d

\* The page takes what is true and not older than what it shows.
LEMMA PageTakes ==
    ASSUME IndexInv, NEW next \in [rev : 1..Current, tabs : Nat, ui : Nat], Adopt(next),
           next.tabs = index[next.rev].tabs, next.ui = index[next.rev].ui \/ (next.ui = 100 /\ shown.ui = 100)
    PROVE  /\ shown' \in [rev : 0..Current, tabs : Nat, ui : Nat] /\ shown.rev <= shown'.rev
           /\ shown' = NoIndex
              \/ (/\ shown'.rev \in 1..Current /\ shown'.tabs = index[shown'.rev].tabs
                  /\ shown'.ui \in {index[shown'.rev].ui, 100})
           /\ shown'.ui = 100 /\ index[Current].ui # 100 => shown.ui = 100
           /\ AsLast(shown.rev, index) \/ AsLast(next.rev, index) => AsLast(shown'.rev, index)
<1>1. Current \in Nat \ {0} /\ Current \in 1..Current
      /\ \A r \in 1..Current : index[r].tabs \in Nat \ {0} /\ index[r].ui \in {1, 100}
  BY RowsTyped DEF IndexInv, Current
<1>2. shown \in [rev : 0..Current, tabs : Nat, ui : Nat] /\ shown.rev \in Nat /\ next.rev \in Nat
  BY <1>1 DEF IndexInv, PageTyped
<1>3. CASE Adopts(next)
  <2>1. shown' = next /\ shown.rev <= next.rev /\ next.rev \in 1..Current
    BY <1>2, <1>3 DEF Adopt, Adopts
  <2>2. next.ui \in {index[next.rev].ui, 100}
    BY <1>1
  <2>3. next.ui = 100 /\ index[Current].ui # 100 => shown.ui = 100
    <3>1. index[next.rev].ui <= index[Current].ui
      BY <1>1, <2>1 DEF IndexInv, IndexGrows, Current
    <3> QED
      BY <1>1, <2>1, <3>1
  <2>4. AsLast(shown.rev, index) => AsLast(next.rev, index)
    BY <2>1, AsLastOnward DEF IndexInv, Current
  <2>5. next \in [rev : 0..Current, tabs : Nat, ui : Nat]
    BY <1>1
  <2> QED
    BY <2>1, <2>2, <2>3, <2>4, <2>5
<1>4. CASE ~ Adopts(next)
  <2>1. shown' = shown /\ next.rev <= shown.rev /\ shown.rev \in 1..Current
    BY <1>1, <1>2, <1>4 DEF Adopt, Adopts
  <2>2. AsLast(next.rev, index) => AsLast(shown.rev, index)
    BY <2>1, AsLastOnward DEF IndexInv, Current
  <2> QED
    BY <1>2, <2>1, <2>2 DEF IndexInv, ShownTrue
<1> QED
  BY <1>3, <1>4

-----------------------------------------------------------------------------
(* Writes. *)

\* What held of revisions holds of them after one more.
LEMMA OneMore ==
    ASSUME IndexInv, IndexGrows(index'), Len(index') = Current + 1,
           \A r \in 1..Current : index'[r] = index[r] /\ r \in 1..Len(index')
    PROVE  /\ \A m \in ToSet(nav.down) : MessageTrue(m, index')
           /\ shown \in [rev : 0..Current + 1, tabs : Nat, ui : Nat]
           /\ shown = NoIndex \/ (/\ shown.rev \in 1..Len(index') /\ shown.tabs = index'[shown.rev].tabs
                                  /\ shown.ui \in {index'[shown.rev].ui, 100})
           /\ \A q \in ToSet(asking) : q.rev <= Current + 1
<1>1. Current \in Nat \ {0}
  BY RowsTyped DEF IndexInv, Current
<1>2. ASSUME NEW m \in ToSet(nav.down) PROVE MessageTrue(m, index')
  <2>1. MessageTrue(m, index)
    BY <1>2 DEF IndexInv, MessagesTrue
  <2> QED
    BY <2>1 DEF MessageTrue, Current
<1>3. shown \in [rev : 0..Current + 1, tabs : Nat, ui : Nat]
  BY <1>1 DEF IndexInv, PageTyped
<1>4. shown = NoIndex \/ (/\ shown.rev \in 1..Len(index') /\ shown.tabs = index'[shown.rev].tabs
                          /\ shown.ui \in {index'[shown.rev].ui, 100})
  BY DEF IndexInv, ShownTrue
<1>5. ASSUME NEW q \in ToSet(asking) PROVE q.rev <= Current + 1
  <2>1. asking \in Seq(AskedRecord) /\ q.rev <= Current
    BY <1>5 DEF IndexInv, TalkTyped, ClaimsHold
  <2>2. q \in AskedRecord
    BY <1>5, <2>1, SetOfSeq
  <2>3. q.rev \in Nat
    BY <2>2 DEF AskedRecord
  <2> QED
    BY <1>1, <2>1, <2>3
<1> QED
  BY <1>2, <1>3, <1>4, <1>5

\* A revision is written and broadcast.
LEMMA WriteHolds ==
    ASSUME IndexInv, NEW value \in IndexRow, value.tabs <= Current + 1,
           index[Current].tabs <= value.tabs, index[Current].ui <= value.ui,
           WriteIndex(value), UNCHANGED <<asking, shown>>
    PROVE  /\ IndexGrows(index') /\ Len(index') = Current + 1 /\ index'[Current + 1] = value
           /\ TalkTyped' /\ shown' \in [rev : 0..Current + 1, tabs : Nat, ui : Nat]
           /\ MessagesTrue' /\ ShownTrue' /\ ClaimsHold' /\ SocketHolds' /\ WillSettle'
<1>1. Current \in Nat \ {0} /\ index' = Append(index, value) /\ previous' = Current + 1
  BY RowsTyped DEF IndexInv, WriteIndex, Current
<1>2. /\ IndexGrows(index') /\ Len(index') = Current + 1 /\ index'[Current + 1] = value
      /\ \A r \in 1..Current : index'[r] = index[r] /\ r \in 1..Len(index')
  BY <1>1, IndexWritten DEF IndexInv
<1>3. /\ \A m \in ToSet(nav.down) : MessageTrue(m, index')
      /\ shown \in [rev : 0..Current + 1, tabs : Nat, ui : Nat]
      /\ shown = NoIndex \/ (/\ shown.rev \in 1..Len(index') /\ shown.tabs = index'[shown.rev].tabs
                             /\ shown.ui \in {index'[shown.rev].ui, 100})
      /\ \A q \in ToSet(asking) : q.rev <= Current + 1
  BY <1>2, OneMore
<1>4. ShownTrue' /\ shown' \in [rev : 0..Current + 1, tabs : Nat, ui : Nat]
  BY <1>2, <1>3 DEF ShownTrue, Current
<1>5. client \in [wants : BOOLEAN, rev : 0..Current \cup {Unknown}] /\ asking \in Seq(AskedRecord)
      /\ nav \in NavRecord
      /\ previous \in {0, Current}
  BY DEF IndexInv, TalkTyped
<1>6. ASSUME nav'.up = nav.up PROVE ClaimsHold'
  BY <1>2, <1>3, <1>6 DEF IndexInv, ClaimsHold, Current
<1>7. CASE client.wants
  <2>1. PICK s \in Sends(client.rev, Current + 1) :
               /\ client' = [client EXCEPT !.rev = s.rev]
               /\ nav' = [nav EXCEPT !.down = @ \o s.sent, !.unsaid = @ /\ s.sent = <<>>]
    BY <1>7 DEF WriteIndex
  <2>2. /\ s.rev = Current + 1
        /\ \/ /\ s.sent = <<>> /\ previous \in 1..Len(index')
              /\ index'[previous].tabs = index'[Current + 1].tabs /\ index'[previous].ui = index'[Current + 1].ui
           \/ \E m \in IndexMessage : s.sent = <<m>> /\ m.rev = Current + 1 /\ MessageTrue(m, index')
    <3>1. Current + 1 \in 1..Len(index') /\ previous \in 0..Len(index')
      BY <1>1, <1>2, <1>5
    <3> QED
      BY <1>2, <3>1, SendsTrue
  <2>3. client' \in [wants : BOOLEAN, rev : 0..Current + 1 \cup {Unknown}] /\ client'.wants
    <3>1. Current + 1 \in 0..Current + 1 \cup {Unknown}
      BY <1>1
    <3>2. client' = [client EXCEPT !.rev = Current + 1]
      BY <2>1, <2>2
    <3> QED
      BY <1>5, <1>7, <3>1, <3>2
  <2>4. nav.open
    BY <1>7 DEF IndexInv, SocketHolds, Unwatched
  <2>5. CASE s.sent = <<>>
    <3>1. /\ nav' \in NavRecord /\ nav'.open = nav.open /\ nav'.up = nav.up /\ nav'.down = nav.down
          /\ nav'.unsaid = nav.unsaid
      <4> DEFINE b == nav.unsaid /\ s.sent = <<>>
      <4>1. b \in BOOLEAN /\ b = nav.unsaid
        BY <1>5, <2>5 DEF NavRecord
      <4> HIDE DEF b
      <4>2. nav' = [nav EXCEPT !.down = @ \o <<>>, !.unsaid = b]
        BY <2>1, <2>5 DEF b
      <4> QED
        BY <4>1, <4>2, DownStays DEF IndexInv
    <3>2. index[Current].tabs = value.tabs /\ index[Current].ui = value.ui
      <4>1. ~ \E m \in IndexMessage : s.sent = <<m>>
        BY <2>5
      <4>2. previous = Current
        BY <1>1, <1>5, <2>2, <4>1
      <4> QED
        BY <1>1, <1>2, <2>2, <4>1, <4>2
    <3>3. TalkTyped' /\ MessagesTrue' /\ SocketHolds'
      BY <1>1, <1>2, <1>3, <1>5, <2>3, <2>4, <3>1 DEF TalkTyped, MessagesTrue, SocketHolds, Current
    <3>4. ASSUME NEW r, AsLast(r, index) PROVE AsLast(r, index')
      BY <1>1, <1>2, <3>2, <3>4 DEF AsLast, Current
    <3>5. \A q : AnswersLast(q, index) => AnswersLast(q, index')
      BY <3>4 DEF AnswersLast
    <3>6. WillSettle'
      BY <3>1, <3>4, <3>5 DEF IndexInv, WillSettle, Settled
    <3> QED
      BY <1>2, <1>4, <1>6, <3>1, <3>3, <3>6
  <2>6. CASE \E m \in IndexMessage : s.sent = <<m>> /\ m.rev = Current + 1 /\ MessageTrue(m, index')
    <3>1. PICK m \in IndexMessage : s.sent = <<m>> /\ m.rev = Current + 1 /\ MessageTrue(m, index')
      BY <2>6
    <3>2. /\ nav' \in NavRecord
          /\ nav'.open = nav.open /\ nav'.up = nav.up /\ ToSet(nav'.down) = ToSet(nav.down) \cup {m}
      <4> DEFINE b == nav.unsaid /\ s.sent = <<>>
      <4>1. b \in BOOLEAN
        OBVIOUS
      <4> HIDE DEF b
      <4>2. nav' = [nav EXCEPT !.down = @ \o <<m>>, !.unsaid = b]
        BY <2>1, <3>1 DEF b
      <4> QED
        BY <4>1, <4>2, DownTakes DEF IndexInv
    <3>3. TalkTyped' /\ MessagesTrue' /\ SocketHolds'
      BY <1>1, <1>2, <1>3, <1>5, <2>3, <2>4, <3>1, <3>2 DEF TalkTyped, MessagesTrue, SocketHolds, Current
    <3>4. AsLast(m.rev, index')
      BY <1>1, <1>2, <3>1 DEF AsLast
    <3>5. WillSettle'
      BY <3>2, <3>4 DEF WillSettle, Settled
    <3> QED
      BY <1>2, <1>4, <1>6, <3>2, <3>3, <3>5
  <2> QED
    BY <2>2, <2>5, <2>6
<1>8. CASE ~ client.wants
  <2>1. nav' = nav /\ client' = client
    BY <1>8 DEF WriteIndex
  <2>2. TalkTyped' /\ MessagesTrue'
    BY <1>1, <1>2, <1>3, <1>5, <2>1 DEF TalkTyped, MessagesTrue, Current
  <2>3. SocketHolds' /\ WillSettle'
    BY <1>8, <2>1 DEF IndexInv, SocketHolds, WillSettle
  <2> QED
    BY <1>2, <1>4, <1>6, <2>1, <2>2, <2>3
<1> QED
  BY <1>7, <1>8

\* A tab or a group is written.
LEMMA TabsWrittenHolds ==
    ASSUME IndexInv, NEW visible \in BOOLEAN, TabsWritten(visible)
    PROVE  IndexInv'
<1> DEFINE row == index[Current]  value == [row EXCEPT !.tabs = IF visible THEN Current + 1 ELSE @]
<1>1. Current \in Nat \ {0} /\ row \in IndexRow /\ row.tabs \in Nat \ {0} /\ row.ui \in {1, 100}
      /\ row.tabs <= Current
  BY RowsTyped DEF IndexInv, IndexGrows, Current
<1>2. WriteIndex(value) /\ UNCHANGED <<asking, shown, answers>>
  BY DEF TabsWritten
<1>3. quota' \in QuotaRecord /\ quota'.failed = quota.failed
  BY DEF TabsWritten, Charge, IndexInv, PageTyped, QuotaRecord
<1>4. value \in IndexRow /\ value.tabs <= Current + 1 /\ row.tabs <= value.tabs /\ row.ui <= value.ui
      /\ value.ui = row.ui
  BY <1>1 DEF IndexRow
<1> HIDE DEF row, value
<1>5. /\ IndexGrows(index') /\ Len(index') = Current + 1 /\ index'[Current + 1] = value
      /\ TalkTyped' /\ shown' \in [rev : 0..Current + 1, tabs : Nat, ui : Nat]
      /\ MessagesTrue' /\ ShownTrue' /\ ClaimsHold' /\ SocketHolds' /\ WillSettle'
  BY <1>2, <1>3, <1>4, WriteHolds DEF row
<1>6. PageTyped'
  BY <1>1, <1>2, <1>3, <1>5 DEF IndexInv, PageTyped, Current
<1>7. PreferHolds'
  BY <1>2, <1>3, <1>4, <1>5 DEF IndexInv, PreferHolds, Current, row
<1> QED
  BY <1>5, <1>6, <1>7 DEF IndexInv

-----------------------------------------------------------------------------
(* Subscriptions. *)

LEMMA SubscribeTakenHolds ==
    ASSUME IndexInv, SubscribeTaken
    PROVE  IndexInv'
<1> DEFINE up == nav.up  q == [claim |-> Head(up), rev |-> 0]
<1>1. /\ nav.up # <<>> /\ nav' = [nav EXCEPT !.up = Tail(up), !.unsaid = FALSE]
      /\ client' = [client EXCEPT !.wants = TRUE]
      /\ asking' = Append(asking, q)
      /\ UNCHANGED <<index, previous, shown, answers, quota>>
  BY DEF SubscribeTaken
<1>2. client \in [wants : BOOLEAN, rev : 0..Current \cup {Unknown}] /\ asking \in Seq(AskedRecord)
      /\ nav \in NavRecord
      /\ previous \in {0, Current} /\ Current \in Nat \ {0}
  BY RowsTyped DEF IndexInv, TalkTyped, Current
<1>3. Head(up) \in Nat \cup {Unknown} /\ Tail(up) \in Seq(Nat \cup {Unknown})
      /\ ToSet(up) = {Head(up)} \cup ToSet(Tail(up))
  <2>1. up \in Seq(Nat \cup {Unknown}) /\ up # <<>>
    BY <1>1, <1>2 DEF NavRecord
  <2> HIDE DEF up
  <2> QED
    BY <2>1, SetOfTail
<1>4. q \in AskedRecord /\ q.claim = Head(up) /\ q.rev = 0
  BY <1>3 DEF AskedRecord
<1> HIDE DEF q
<1>5. asking' \in Seq(AskedRecord) /\ ToSet(asking') = ToSet(asking) \cup {q}
  BY <1>1, <1>2, <1>4, AppendProperties, SetOfAppend
<1>6. nav.open
  BY <1>1 DEF IndexInv, SocketHolds, Closed0
<1>7. TalkTyped'
  BY <1>1, <1>2, <1>3, <1>5 DEF TalkTyped, Current, NavRecord
<1>8. ClaimsHold' /\ SocketHolds'
  <2>1. Head(up) <= shown.rev /\ \A c \in ToSet(Tail(up)) : c <= shown.rev
    BY <1>3 DEF IndexInv, ClaimsHold
  <2>2. nav'.up = Tail(up) /\ nav'.open /\ client'.wants
    BY <1>1, <1>2, <1>6
  <2> QED
    BY <1>1, <1>2, <1>4, <1>5, <2>1, <2>2 DEF IndexInv, ClaimsHold, SocketHolds, Current
<1>9. WillSettle'
  BY <1>4, <1>5 DEF WillSettle, AnswersLast
<1>10. MessagesTrue' /\ ShownTrue' /\ PreferHolds' /\ PageTyped'
  BY <1>1, <1>2 DEF IndexInv, MessagesTrue, ShownTrue, PreferHolds, PageTyped, Current
<1> QED
  BY <1>1, <1>7, <1>8, <1>9, <1>10 DEF IndexInv

LEMMA SubscribeReadHolds ==
    ASSUME IndexInv, NEW i \in DOMAIN asking, SubscribeRead(i)
    PROVE  IndexInv'
<1> DEFINE q == asking[i]  x == [q EXCEPT !.rev = Current]
<1>1. /\ q.rev = 0 /\ asking' = [asking EXCEPT ![i] = x]
      /\ UNCHANGED <<index, previous, client, nav, shown, answers, quota>>
  BY DEF SubscribeRead
<1>2. asking \in Seq(AskedRecord) /\ i \in 1..Len(asking) /\ Current \in Nat \ {0} /\ Current \in 1..Current
  BY RowsTyped, LenProperties DEF IndexInv, TalkTyped, Current
<1>3. q \in AskedRecord /\ q \in ToSet(asking)
  BY <1>2, ElementOfSeq, SetOfSeq
<1>4. x \in AskedRecord /\ x.rev = Current /\ x.claim = q.claim
  BY <1>2, <1>3 DEF AskedRecord
<1> HIDE DEF x
<1>5. /\ asking' \in Seq(AskedRecord) /\ x \in ToSet(asking') /\ ToSet(asking') \subseteq ToSet(asking) \cup {x}
      /\ ToSet(asking) \subseteq ToSet(asking') \cup {q}
  <2> HIDE DEF q
  <2>1. q = asking[i]
    BY DEF q
  <2> QED
    BY <1>1, <1>2, <1>4, <2>1, SetOfExcept
<1> HIDE DEF q
<1>6. asking # <<>>
  BY <1>2, EmptySeq
<1>7. nav.open
  BY <1>6 DEF IndexInv, SocketHolds
<1>8. TalkTyped' /\ SocketHolds'
  BY <1>1, <1>5, <1>7 DEF IndexInv, TalkTyped, SocketHolds, Current
<1>9. ClaimsHold'
  <2>1. x.claim <= shown.rev /\ x.rev <= Current
    BY <1>2, <1>3, <1>4 DEF IndexInv, ClaimsHold
  <2>2. \A p \in ToSet(asking') : p.claim <= shown.rev /\ p.rev <= Current
    BY <1>5, <2>1 DEF IndexInv, ClaimsHold
  <2> QED
    BY <1>1, <2>2 DEF IndexInv, ClaimsHold, Current
<1>10. WillSettle'
  <2> SUFFICES ASSUME nav'.open /\ nav'.up = <<>> /\ ~ nav'.unsaid
               PROVE  Settled' \/ \E p \in ToSet(asking') : AnswersLast(p, index')
    BY DEF WillSettle
  <2>1. Settled \/ \E p \in ToSet(asking) : AnswersLast(p, index)
    BY <1>1 DEF IndexInv, WillSettle
  <2>2. CASE Settled
    BY <1>1, <2>2 DEF Settled
  <2>3. CASE \E p \in ToSet(asking') : AnswersLast(p, index)
    BY <1>1, <2>3
  <2>4. AsLast(Current, index)
    BY <1>2 DEF AsLast, Current
  <2>5. CASE q.claim # Current
    BY <1>1, <1>4, <1>5, <2>4, <2>5 DEF AnswersLast
  <2>6. CASE q.claim = Current
    <3>1. Current <= shown.rev /\ shown.rev \in 0..Current
      BY <1>3, <2>6 DEF IndexInv, ClaimsHold, PageTyped
    <3>2. shown.rev = Current
      BY <1>2, <3>1
    <3> QED
      BY <1>1, <2>4, <3>2 DEF Settled
  <2> QED
    BY <2>5, <2>6
<1>11. MessagesTrue' /\ ShownTrue' /\ PreferHolds' /\ PageTyped'
  BY <1>1 DEF IndexInv, MessagesTrue, ShownTrue, PreferHolds, PageTyped, Current
<1> QED
  BY <1>1, <1>8, <1>9, <1>10, <1>11 DEF IndexInv

LEMMA SubscribeAnsweredHolds ==
    ASSUME IndexInv, NEW i \in DOMAIN asking, SubscribeAnswered(i)
    PROVE  IndexInv'
<1> DEFINE q == asking[i]  known == IF q.claim = Unknown THEN client.rev ELSE q.claim
<1>1. /\ q.rev # 0 /\ asking' = RemoveAt(asking, i) /\ index' = index /\ UNCHANGED <<previous, shown, answers, quota>>
      /\ \/ q.claim = q.rev /\ client' = [client EXCEPT !.rev = q.rev] /\ UNCHANGED nav
         \/ /\ q.claim # q.rev
            /\ \E s \in Sends(known, q.rev) :
                 /\ client' = [client EXCEPT !.rev = s.rev]
                 /\ nav' = [nav EXCEPT !.down = @ \o s.sent, !.unsaid = @ \/ s.sent = <<>>]
  BY DEF SubscribeAnswered
<1>2. asking \in Seq(AskedRecord) /\ i \in 1..Len(asking) /\ Current \in Nat \ {0}
      /\ client \in [wants : BOOLEAN, rev : 0..Current \cup {Unknown}] /\ previous \in {0, Current}
      /\ nav \in NavRecord /\ quota \in QuotaRecord
  BY RowsTyped, LenProperties DEF IndexInv, TalkTyped, PageTyped, Current
<1>3. q \in AskedRecord /\ q \in ToSet(asking)
  BY <1>2, ElementOfSeq, SetOfSeq
<1>4. /\ asking' \in Seq(AskedRecord) /\ ToSet(asking') \subseteq ToSet(asking)
      /\ ToSet(asking) \subseteq ToSet(asking') \cup {q}
  <2> HIDE DEF q
  <2>1. q = asking[i]
    BY DEF q
  <2> QED
    BY <1>1, <1>2, <2>1, SetOfRemoved
<1> HIDE DEF q, known
<1>5. q.rev \in 1..Current
  <2>1. q.rev \in Nat /\ q.rev <= Current
    BY <1>3 DEF IndexInv, ClaimsHold, AskedRecord
  <2>2. q.rev # 0 /\ Current \in Nat
    BY <1>1, <1>2, Zenon
  <2> QED
    BY <2>1, <2>2
<1>6. asking # <<>>
  BY <1>2, EmptySeq
<1>7. nav.open
  BY <1>6 DEF IndexInv, SocketHolds
<1>8. ASSUME nav'.up = nav.up PROVE ClaimsHold'
  BY <1>1, <1>4, <1>8 DEF IndexInv, ClaimsHold, Current
<1>9. ASSUME client' = [client EXCEPT !.rev = q.rev]
      PROVE  client' \in [wants : BOOLEAN, rev : 0..Current \cup {Unknown}] /\ client'.wants = client.wants
  <2>1. q.rev \in 0..Current \cup {Unknown}
    BY <1>2, <1>5
  <2> QED
    BY <1>2, <1>9, <2>1
<1>10. ShownTrue' /\ shown' \in [rev : 0..Current', tabs : Nat, ui : Nat]
  BY <1>1 DEF IndexInv, ShownTrue, PageTyped, Current
<1>11. CASE q.claim = q.rev /\ client' = [client EXCEPT !.rev = q.rev] /\ UNCHANGED nav
  <2>1. TalkTyped' /\ SocketHolds'
    BY <1>1, <1>2, <1>4, <1>7, <1>9, <1>11 DEF IndexInv, TalkTyped, SocketHolds, Current
  <2>2. ~ AnswersLast(q, index)
    BY <1>1, <1>11 DEF AnswersLast
  <2>3. WillSettle'
    BY <1>1, <1>4, <1>11, <2>2 DEF IndexInv, WillSettle, Settled
  <2>4. MessagesTrue' /\ PreferHolds' /\ PageTyped'
    BY <1>1, <1>11 DEF IndexInv, MessagesTrue, PreferHolds, PageTyped, Current
  <2> QED
    BY <1>1, <1>8, <1>10, <1>11, <2>1, <2>3, <2>4 DEF IndexInv
<1>12. CASE q.claim # q.rev /\ \E s \in Sends(known, q.rev) :
              /\ client' = [client EXCEPT !.rev = s.rev]
              /\ nav' = [nav EXCEPT !.down = @ \o s.sent, !.unsaid = @ \/ s.sent = <<>>]
  <2>1. PICK s \in Sends(known, q.rev) :
              /\ client' = [client EXCEPT !.rev = s.rev]
              /\ nav' = [nav EXCEPT !.down = @ \o s.sent, !.unsaid = @ \/ s.sent = <<>>]
    BY <1>12
  <2>2. /\ s.rev = q.rev
        /\ s.sent = <<>> \/ \E m \in IndexMessage : s.sent = <<m>> /\ m.rev = q.rev /\ MessageTrue(m, index')
    <3>1. IndexGrows(index') /\ q.rev \in 1..Len(index') /\ previous \in 0..Len(index')
      <4>1. index' = index /\ Current \in Nat /\ previous \in {0, Current}
        BY <1>1, <1>2, Zenon
      <4> QED
        BY <1>5, <4>1 DEF IndexInv, Current
    <3> QED
      BY <3>1, SendsTrue
  <2>4. PreferHolds' /\ PageTyped'
    BY <1>1, <1>10 DEF IndexInv, PreferHolds, PageTyped, Current
  <2>5. CASE s.sent = <<>>
    <3>1. /\ nav' \in NavRecord /\ nav'.open = nav.open /\ nav'.up = nav.up /\ nav'.down = nav.down
          /\ nav'.unsaid
      <4> DEFINE b == nav.unsaid \/ s.sent = <<>>
      <4>1. b \in BOOLEAN /\ b
        BY <2>5
      <4> HIDE DEF b
      <4>2. nav' = [nav EXCEPT !.down = @ \o <<>>, !.unsaid = b]
        BY <2>1, <2>5 DEF b
      <4> QED
        BY <4>1, <4>2, DownStays DEF IndexInv
    <3>2. TalkTyped' /\ SocketHolds' /\ MessagesTrue'
      BY <1>1, <1>2, <1>4, <1>7, <1>9, <2>1, <2>2, <3>1
         DEF IndexInv, TalkTyped, SocketHolds, MessagesTrue, Current
    <3>3. WillSettle'
      BY <3>1 DEF WillSettle
    <3> QED
      BY <1>1, <1>8, <1>10, <2>4, <3>1, <3>2, <3>3 DEF IndexInv
  <2>6. CASE s.sent # <<>>
    <3>1. PICK m \in IndexMessage : s.sent = <<m>> /\ m.rev = q.rev /\ MessageTrue(m, index')
      BY <2>2, <2>6
    <3>2. /\ nav' \in NavRecord
          /\ nav'.open = nav.open /\ nav'.up = nav.up /\ ToSet(nav'.down) = ToSet(nav.down) \cup {m}
          /\ nav.unsaid => nav'.unsaid
      <4> DEFINE b == nav.unsaid \/ s.sent = <<>>
      <4>1. b \in BOOLEAN
        OBVIOUS
      <4> HIDE DEF b
      <4>2. nav' = [nav EXCEPT !.down = @ \o <<m>>, !.unsaid = b]
        BY <2>1, <3>1 DEF b
      <4> QED
        BY <4>1, <4>2, DownTakes DEF IndexInv, b
    <3>3. TalkTyped' /\ SocketHolds' /\ MessagesTrue'
      BY <1>1, <1>2, <1>4, <1>7, <1>9, <2>1, <2>2, <3>1, <3>2
         DEF IndexInv, TalkTyped, SocketHolds, MessagesTrue, Current
    <3>4. WillSettle'
      <4> SUFFICES ASSUME nav'.open /\ nav'.up = <<>> /\ ~ nav'.unsaid
                   PROVE  Settled' \/ \E p \in ToSet(asking') : AnswersLast(p, index')
        BY DEF WillSettle
      <4>1. Settled \/ \E p \in ToSet(asking) : AnswersLast(p, index)
        BY <3>2 DEF IndexInv, WillSettle
      <4>2. Settled => Settled'
        BY <1>1, <3>2 DEF Settled
      <4>3. AnswersLast(q, index) => Settled'
        BY <1>1, <3>1, <3>2 DEF AnswersLast, Settled
      <4> QED
        BY <1>1, <1>4, <4>1, <4>2, <4>3
    <3> QED
      BY <1>1, <1>8, <1>10, <2>4, <3>2, <3>3, <3>4 DEF IndexInv
  <2> QED
    BY <2>5, <2>6
<1> QED
  BY <1>1, <1>11, <1>12

-----------------------------------------------------------------------------
(* The page. *)

\* What the page takes leaves the rest as it was.
LEMMA TakesHold ==
    ASSUME IndexInv, shown' \in [rev : 0..Current, tabs : Nat, ui : Nat], shown.rev <= shown'.rev,
           UNCHANGED <<index, previous, client, asking, quota>>,
           nav' \in NavRecord,
           nav'.open = nav.open, nav.open, nav'.up = nav.up, ToSet(nav'.down) \subseteq ToSet(nav.down)
    PROVE  IndexGrows(index') /\ TalkTyped' /\ MessagesTrue' /\ ClaimsHold' /\ SocketHolds'
<1>1. asking \in Seq(AskedRecord) /\ shown.rev \in Nat /\ shown'.rev \in Nat /\ Current \in Nat
      /\ nav.up \in Seq(Nat \cup {Unknown})
  BY RowsTyped DEF IndexInv, TalkTyped, PageTyped, Current, NavRecord
<1>2. \A q \in ToSet(asking) : q.claim \in Int
  <2>1. \A q \in ToSet(asking) : q \in AskedRecord
    BY <1>1, SetOfSeq
  <2> QED
    BY <2>1 DEF AskedRecord, Unknown
<1>3. \A c \in ToSet(nav.up) : c \in Int
  <2> DEFINE up == nav.up
  <2>1. up \in Seq(Nat \cup {Unknown})
    BY <1>1
  <2> HIDE DEF up
  <2>2. ToSet(up) \subseteq Nat \cup {Unknown}
    BY <2>1, SetOfSeq
  <2> QED
    BY <2>2 DEF up, Unknown
<1>4. ClaimsHold'
  <2>1. \A c \in ToSet(nav.up) : c <= shown'.rev
    BY <1>1, <1>3 DEF IndexInv, ClaimsHold
  <2>2. \A q \in ToSet(asking) : q.claim <= shown'.rev /\ q.rev <= Current
    BY <1>1, <1>2 DEF IndexInv, ClaimsHold
  <2> QED
    BY <2>1, <2>2 DEF ClaimsHold, Current
<1>5. IndexGrows(index') /\ TalkTyped' /\ SocketHolds' /\ MessagesTrue'
  BY DEF IndexInv, TalkTyped, SocketHolds, MessagesTrue, Current
<1> QED
  BY <1>4, <1>5

\* What comes down is taken, or answered with a subscription.
LEMMA IndexReceivedHolds ==
    ASSUME IndexInv, IndexReceived
    PROVE  IndexInv'
<1> DEFINE m == Head(nav.down)  rest == [nav EXCEPT !.down = Tail(@)]
           next == [rev |-> m.rev, tabs |-> m.tabs, ui |-> m.ui]
           fit == [rev |-> m.rev, tabs |-> IF m.tabs = 0 THEN shown.tabs ELSE m.tabs,
                   ui |-> IF m.ui = 0 THEN shown.ui ELSE m.ui]
<1>1. /\ nav.down # <<>> /\ UNCHANGED <<index, previous, client, asking, answers, quota>>
      /\ \/ m.kind = "full" /\ Adopt(next) /\ nav' = rest
         \/ m.kind # "full" /\ Fits(m) /\ Adopt(fit) /\ nav' = rest
         \/ m.kind # "full" /\ nav' = [rest EXCEPT !.up = Append(@, Unknown)] /\ UNCHANGED shown
  BY DEF IndexReceived
<1>2. nav \in NavRecord
      /\ shown \in [rev : 0..Current, tabs : Nat, ui : Nat] /\ Current \in Nat \ {0}
      /\ \A r \in 1..Current : index[r].tabs \in Nat \ {0} /\ index[r].ui \in {1, 100}
  BY RowsTyped DEF IndexInv, TalkTyped, PageTyped, Current
<1>3. m \in IndexMessage /\ rest.down \in Seq(IndexMessage) /\ ToSet(nav.down) = {m} \cup ToSet(rest.down)
  <2> DEFINE d == nav.down
  <2>1. d \in Seq(IndexMessage) /\ d # <<>>
    BY <1>1, <1>2 DEF NavRecord
  <2> HIDE DEF d
  <2>2. Head(d) \in IndexMessage /\ Tail(d) \in Seq(IndexMessage) /\ ToSet(d) = {Head(d)} \cup ToSet(Tail(d))
    BY <2>1, SetOfTail
  <2>3. rest.down = Tail(d)
    BY <1>2 DEF d
  <2> QED
    BY <2>2, <2>3 DEF d
<1>4. rest \in NavRecord
      /\ rest.open = nav.open /\ rest.up = nav.up /\ rest.unsaid = nav.unsaid
  BY <1>2, <1>3 DEF NavRecord
<1>5. nav.open
  BY <1>1 DEF IndexInv, SocketHolds, Closed0
<1>6. MessageTrue(m, index) /\ m.rev \in 1..Current /\ m.tabs \in Nat /\ m.ui \in Nat /\ m.kind \in {"full", "delta"}
  BY <1>3 DEF IndexInv, MessagesTrue, MessageTrue, IndexMessage, Current
<1> HIDE DEF m, rest
<1>7. ASSUME NEW x \in [rev : 1..Current, tabs : Nat, ui : Nat], Adopt(x), x.rev = m.rev, nav' = rest,
             x.tabs = index[x.rev].tabs, x.ui = index[x.rev].ui \/ (x.ui = 100 /\ shown.ui = 100)
      PROVE  IndexInv'
  <2>1. /\ shown' \in [rev : 0..Current, tabs : Nat, ui : Nat] /\ shown.rev <= shown'.rev
        /\ shown' = NoIndex
           \/ (/\ shown'.rev \in 1..Current /\ shown'.tabs = index[shown'.rev].tabs
               /\ shown'.ui \in {index[shown'.rev].ui, 100})
        /\ shown'.ui = 100 /\ index[Current].ui # 100 => shown.ui = 100
        /\ AsLast(shown.rev, index) \/ AsLast(x.rev, index) => AsLast(shown'.rev, index)
    BY <1>7, PageTakes
  <2>2. IndexGrows(index') /\ TalkTyped' /\ MessagesTrue' /\ ClaimsHold' /\ SocketHolds'
    BY <1>1, <1>3, <1>4, <1>5, <1>7, <2>1, TakesHold
  <2>3. ShownTrue' /\ PageTyped' /\ PreferHolds'
    BY <1>1, <2>1 DEF IndexInv, ShownTrue, PageTyped, PreferHolds, Current
  <2>4. Settled => Settled'
    BY <1>1, <1>3, <1>7, <2>1 DEF Settled
  <2>5. WillSettle'
    BY <1>1, <1>4, <1>7, <2>4 DEF IndexInv, WillSettle, NavRecord
  <2> QED
    BY <2>2, <2>3, <2>5 DEF IndexInv
<1>8. CASE m.kind = "full" /\ Adopt(next) /\ nav' = rest
  <2>1. next \in [rev : 1..Current, tabs : Nat, ui : Nat] /\ next.rev = m.rev /\ next.tabs = m.tabs /\ next.ui = m.ui
    BY <1>6
  <2> HIDE DEF next
  <2>2. m.tabs = index[m.rev].tabs /\ m.ui = index[m.rev].ui
    BY <1>6, <1>8 DEF MessageTrue
  <2> QED
    BY <1>7, <1>8, <2>1, <2>2
<1>9. CASE m.kind # "full" /\ Fits(m) /\ Adopt(fit) /\ nav' = rest
  <2>1. shown.rev = m.from /\ shown.tabs = index[m.from].tabs /\ shown.ui \in {index[m.from].ui, 100}
    BY <1>9 DEF Fits, IndexInv, ShownTrue
  <2>2. /\ m.from \in 1..Current
        /\ m.tabs = (IF index[m.from].tabs = index[m.rev].tabs THEN 0 ELSE index[m.rev].tabs)
        /\ m.ui = (IF index[m.from].ui = index[m.rev].ui THEN 0 ELSE index[m.rev].ui)
    BY <1>6, <1>9 DEF MessageTrue, Change, Current
  <2>3. fit \in [rev : 1..Current, tabs : Nat, ui : Nat] /\ fit.rev = m.rev
        /\ fit.tabs = (IF m.tabs = 0 THEN shown.tabs ELSE m.tabs) /\ fit.ui = (IF m.ui = 0 THEN shown.ui ELSE m.ui)
    BY <1>2, <1>6
  <2> HIDE DEF fit
  <2>4. fit.tabs = index[fit.rev].tabs
    BY <1>2, <1>6, <2>1, <2>2, <2>3
  <2>5. fit.ui = index[fit.rev].ui \/ (fit.ui = 100 /\ shown.ui = 100)
    BY <1>2, <1>6, <2>1, <2>2, <2>3
  <2> QED
    BY <1>7, <1>9, <2>3, <2>4, <2>5
<1>10. CASE m.kind # "full" /\ nav' = [rest EXCEPT !.up = Append(@, Unknown)] /\ UNCHANGED shown
  <2> DEFINE up == rest.up  more == Append(up, Unknown)
  <2>1. up \in Seq(Nat \cup {Unknown})
    BY <1>4 DEF NavRecord
  <2> HIDE DEF up
  <2>2. more \in Seq(Nat \cup {Unknown}) /\ more # <<>>
    BY <2>1, AppendProperties
  <2>3. ToSet(more) = ToSet(up) \cup {Unknown}
    BY <2>1, SetOfAppend
  <2> HIDE DEF more
  <2>4. nav' = [rest EXCEPT !.up = more]
    BY <1>10 DEF up, more
  <2>5. nav' \in NavRecord
        /\ nav'.open /\ nav'.up = more /\ nav'.down = rest.down
    BY <1>4, <1>5, <2>2, <2>4 DEF NavRecord
  <2>6. TalkTyped' /\ MessagesTrue' /\ SocketHolds'
    BY <1>1, <1>3, <2>2, <2>5 DEF IndexInv, TalkTyped, MessagesTrue, SocketHolds, Current
  <2>7. ClaimsHold'
    <3>1. Unknown <= shown.rev
      BY <1>2 DEF Unknown
    <3>2. \A c \in ToSet(more) : c <= shown.rev
      BY <1>4, <2>3, <3>1 DEF IndexInv, ClaimsHold, up
    <3> QED
      BY <1>1, <1>10, <2>5, <3>2 DEF IndexInv, ClaimsHold, Current
  <2>8. WillSettle'
    BY <2>2, <2>5 DEF WillSettle
  <2>9. ShownTrue' /\ PageTyped' /\ PreferHolds'
    BY <1>1, <1>10 DEF IndexInv, ShownTrue, PageTyped, PreferHolds, Current
  <2> QED
    BY <1>1, <2>6, <2>7, <2>8, <2>9 DEF IndexInv
<1> QED
  BY <1>1, <1>8, <1>9, <1>10

LEMMA AnswerLandsHolds ==
    ASSUME IndexInv, NEW a \in answers, AnswerLands(a)
    PROVE  IndexInv'
<1> DEFINE x == Whole(a.rev)
<1>1. a.rev # 0 /\ answers' = answers \ {a} /\ Adopt(x) /\ UNCHANGED <<index, previous, client, asking, nav, quota>>
  BY DEF AnswerLands
<1>2. nav \in NavRecord
      /\ shown \in [rev : 0..Current, tabs : Nat, ui : Nat] /\ a.rev \in 1..Current /\ Current \in Nat \ {0}
      /\ \A r \in 1..Current : index[r].tabs \in Nat \ {0} /\ index[r].ui \in {1, 100}
  <2>1. Current \in Nat \ {0} /\ \A r \in 1..Current : index[r].tabs \in Nat \ {0} /\ index[r].ui \in {1, 100}
    BY RowsTyped DEF IndexInv, Current
  <2>2. a.rev \in 0..Current
    BY DEF IndexInv, PageTyped
  <2>3. a.rev \in 1..Current
    BY <1>1, <2>1, <2>2
  <2> QED
    BY <2>1, <2>3 DEF IndexInv, TalkTyped, PageTyped
<1>3. x \in [rev : 1..Current, tabs : Nat, ui : Nat] /\ x.tabs = index[x.rev].tabs /\ x.ui = index[x.rev].ui
  <2>1. index[a.rev].tabs \in Nat /\ index[a.rev].ui \in Nat
    BY <1>2
  <2> QED
    BY <1>2, <2>1 DEF Whole
<1> HIDE DEF x
<1>4. /\ shown' \in [rev : 0..Current, tabs : Nat, ui : Nat] /\ shown.rev <= shown'.rev
      /\ shown' = NoIndex
         \/ (/\ shown'.rev \in 1..Current /\ shown'.tabs = index[shown'.rev].tabs
             /\ shown'.ui \in {index[shown'.rev].ui, 100})
      /\ shown'.ui = 100 /\ index[Current].ui # 100 => shown.ui = 100
      /\ AsLast(shown.rev, index) \/ AsLast(x.rev, index) => AsLast(shown'.rev, index)
  BY <1>1, <1>3, PageTakes
<1>5. a.kind # "prefer"
  BY <1>1 DEF IndexInv, PreferHolds
<1>6. ShownTrue' /\ PageTyped' /\ PreferHolds'
  BY <1>1, <1>4, <1>5 DEF IndexInv, ShownTrue, PageTyped, PreferHolds, Current
<1>7. CASE nav.open
  <2>1. IndexGrows(index') /\ TalkTyped' /\ MessagesTrue' /\ ClaimsHold' /\ SocketHolds'
    BY <1>1, <1>2, <1>4, <1>7, TakesHold
  <2>2. WillSettle'
    BY <1>1, <1>4 DEF IndexInv, WillSettle, Settled
  <2> QED
    BY <1>6, <2>1, <2>2 DEF IndexInv
<1>8. CASE ~ nav.open
  <2>1. nav = Closed0 /\ asking = <<>>
    BY <1>8 DEF IndexInv, SocketHolds
  <2>2. nav.up = <<>> /\ ToSet(nav.up) = {} /\ ToSet(asking) = {}
    BY <2>1 DEF Closed0, ToSet
  <2>3. ClaimsHold' /\ WillSettle'
    BY <1>1, <1>8, <2>2 DEF ClaimsHold, WillSettle
  <2>4. IndexGrows(index') /\ TalkTyped' /\ MessagesTrue' /\ SocketHolds'
    BY <1>1 DEF IndexInv, TalkTyped, MessagesTrue, SocketHolds, Current
  <2> QED
    BY <1>6, <2>3, <2>4 DEF IndexInv
<1> QED
  BY <1>7, <1>8

\* What changes neither the index nor what is said of it leaves the rest as it was.
LEMMA RestHolds ==
    ASSUME IndexInv, UNCHANGED <<index, previous, client, asking, nav>>, shown'.rev = shown.rev
    PROVE  IndexGrows(index') /\ TalkTyped' /\ MessagesTrue' /\ ClaimsHold' /\ SocketHolds' /\ WillSettle'
<1>1. IndexGrows(index') /\ TalkTyped' /\ MessagesTrue' /\ SocketHolds'
  BY DEF IndexInv, TalkTyped, MessagesTrue, SocketHolds, Current
<1>2. ClaimsHold' /\ WillSettle'
  BY DEF IndexInv, ClaimsHold, WillSettle, Settled, Current
<1> QED
  BY <1>1, <1>2

LEMMA RefreshHolds ==
    ASSUME IndexInv, Refresh
    PROVE  IndexInv'
<1>1. /\ UNCHANGED <<index, previous, client, asking, nav, shown>>
      /\ answers' = answers \cup {[kind |-> "refresh", rev |-> 0]}
  BY DEF Refresh
<1>2. quota' \in QuotaRecord /\ quota'.failed = quota.failed
  BY DEF Refresh, Charge, IndexInv, PageTyped, QuotaRecord
<1>3. IndexGrows(index') /\ TalkTyped' /\ MessagesTrue' /\ ClaimsHold' /\ SocketHolds' /\ WillSettle'
  BY <1>1, <1>2, RestHolds
<1>4. Current \in Nat
  BY RowsTyped DEF IndexInv, Current
<1>5. [kind |-> "refresh", rev |-> 0] \in [kind : {"refresh", "prefer"}, rev : 0..Current]
  BY <1>4
<1>6. ShownTrue' /\ PageTyped' /\ PreferHolds'
  BY <1>1, <1>2, <1>5 DEF IndexInv, ShownTrue, PageTyped, PreferHolds, Current
<1> QED
  BY <1>3, <1>6 DEF IndexInv

LEMMA PreferHoldsOn ==
    ASSUME IndexInv, Prefer
    PROVE  IndexInv'
<1> DEFINE new == [kind |-> "prefer", rev |-> 0]
<1>1. /\ UNCHANGED <<index, previous, client, asking, nav>> /\ answers' = answers \cup {new}
      /\ shown # NoIndex /\ shown' = [shown EXCEPT !.ui = 100]
  BY DEF Prefer
<1>2. quota' \in QuotaRecord /\ quota'.failed = quota.failed
  BY DEF Prefer, Charge, IndexInv, PageTyped, QuotaRecord
<1>3. Current \in Nat /\ shown \in [rev : 0..Current, tabs : Nat, ui : Nat]
  BY RowsTyped DEF IndexInv, PageTyped, Current
<1>4. shown' \in [rev : 0..Current, tabs : Nat, ui : Nat] /\ shown'.rev = shown.rev /\ shown'.tabs = shown.tabs
      /\ shown'.ui = 100
  BY <1>1, <1>3
<1>5. IndexGrows(index') /\ TalkTyped' /\ MessagesTrue' /\ ClaimsHold' /\ SocketHolds' /\ WillSettle'
  BY <1>1, <1>2, <1>4, RestHolds
<1>6. new \in [kind : {"refresh", "prefer"}, rev : 0..Current] /\ new.kind = "prefer" /\ new.rev = 0
  BY <1>3
<1> HIDE DEF new
<1>7. ShownTrue' /\ PageTyped' /\ PreferHolds'
  BY <1>1, <1>2, <1>4, <1>6 DEF IndexInv, ShownTrue, PageTyped, PreferHolds, Current
<1> QED
  BY <1>5, <1>7 DEF IndexInv

\* The server reads the index, writes the preferences, or fails to.
LEMMA AnswerReadHolds ==
    ASSUME IndexInv, NEW a \in answers, AnswerRead(a)
    PROVE  IndexInv'
<1> DEFINE row == index[Current]  value == [row EXCEPT !.ui = 100]
           late == [a EXCEPT !.rev = Current]
           new == [kind |-> "refresh", rev |-> Current + 1]  again == [kind |-> "refresh", rev |-> 0]
<1>1. /\ a.rev = 0 /\ UNCHANGED <<asking, shown>>
      /\ \/ /\ a.kind = "refresh" /\ answers' = (answers \ {a}) \cup {late}
            /\ UNCHANGED <<index, previous, client, nav, quota>>
         \/ a.kind = "prefer" /\ WriteIndex(value) /\ answers' = (answers \ {a}) \cup {new} /\ UNCHANGED quota
         \/ /\ a.kind = "prefer" /\ answers' = (answers \ {a}) \cup {again}
            /\ quota' = [quota EXCEPT !.failed = TRUE] /\ UNCHANGED <<index, previous, client, nav>>
  BY DEF AnswerRead, Replace
<1>2. Current \in Nat \ {0} /\ row \in IndexRow /\ row.tabs \in Nat \ {0} /\ row.ui \in {1, 100}
      /\ row.tabs <= Current
  BY RowsTyped DEF IndexInv, IndexGrows, Current
<1>3. a \in [kind : {"refresh", "prefer"}, rev : 0..Current] /\ quota \in QuotaRecord
      /\ answers \subseteq [kind : {"refresh", "prefer"}, rev : 0..Current]
  BY DEF IndexInv, PageTyped
<1>4. late \in [kind : {"refresh", "prefer"}, rev : 0..Current] /\ late.kind = a.kind
  BY <1>2, <1>3
<1>5. /\ again \in [kind : {"refresh", "prefer"}, rev : 0..Current] /\ again.kind = "refresh"
      /\ new \in [kind : {"refresh", "prefer"}, rev : 0..Current + 1] /\ new.kind = "refresh"
  BY <1>2
<1> HIDE DEF late, new, again
<1>6. CASE /\ a.kind = "refresh" /\ answers' = (answers \ {a}) \cup {late}
           /\ UNCHANGED <<index, previous, client, nav, quota>>
  <2>1. IndexGrows(index') /\ TalkTyped' /\ MessagesTrue' /\ ClaimsHold' /\ SocketHolds' /\ WillSettle'
    BY <1>1, <1>6, RestHolds
  <2>2. ShownTrue' /\ PageTyped' /\ PreferHolds'
    BY <1>1, <1>4, <1>6 DEF IndexInv, ShownTrue, PageTyped, PreferHolds, Current
  <2> QED
    BY <2>1, <2>2 DEF IndexInv
<1>7. CASE a.kind = "prefer" /\ WriteIndex(value) /\ answers' = (answers \ {a}) \cup {new} /\ UNCHANGED quota
  <2>1. value \in IndexRow /\ value.tabs = row.tabs /\ value.tabs <= Current + 1 /\ row.tabs <= value.tabs
        /\ row.ui <= value.ui /\ value.ui = 100
    BY <1>2 DEF IndexRow
  <2> HIDE DEF row, value
  <2>2. /\ IndexGrows(index') /\ Len(index') = Current + 1 /\ index'[Current + 1] = value
        /\ TalkTyped' /\ shown' \in [rev : 0..Current + 1, tabs : Nat, ui : Nat]
        /\ MessagesTrue' /\ ShownTrue' /\ ClaimsHold' /\ SocketHolds' /\ WillSettle'
    BY <1>1, <1>7, <2>1, WriteHolds DEF row
  <2>3. answers' \subseteq [kind : {"refresh", "prefer"}, rev : 0..Current + 1]
    <3>1. [kind : {"refresh", "prefer"}, rev : 0..Current]
          \subseteq [kind : {"refresh", "prefer"}, rev : 0..Current + 1]
      BY <1>2
    <3> QED
      BY <1>3, <1>5, <1>7, <3>1
  <2>4. PageTyped'
    BY <1>3, <1>7, <2>2, <2>3 DEF PageTyped, Current
  <2>5. PreferHolds'
    BY <1>5, <1>7, <2>1, <2>2 DEF IndexInv, PreferHolds, Current
  <2> QED
    BY <2>2, <2>4, <2>5 DEF IndexInv
<1>8. CASE /\ a.kind = "prefer" /\ answers' = (answers \ {a}) \cup {again}
           /\ quota' = [quota EXCEPT !.failed = TRUE] /\ UNCHANGED <<index, previous, client, nav>>
  <2>1. quota' \in QuotaRecord /\ quota'.failed
    BY <1>3, <1>8 DEF QuotaRecord
  <2>2. IndexGrows(index') /\ TalkTyped' /\ MessagesTrue' /\ ClaimsHold' /\ SocketHolds' /\ WillSettle'
    BY <1>1, <1>8, <2>1, RestHolds
  <2>3. ShownTrue' /\ PageTyped' /\ PreferHolds'
    BY <1>1, <1>5, <1>8, <2>1 DEF IndexInv, ShownTrue, PageTyped, PreferHolds, Current
  <2> QED
    BY <2>2, <2>3 DEF IndexInv
<1> QED
  BY <1>1, <1>6, <1>7, <1>8

-----------------------------------------------------------------------------
(* The socket, and the steps together. *)

LEMMA NavOpensHolds ==
    ASSUME IndexInv, NavOpens
    PROVE  IndexInv'
<1> DEFINE c == IF shown = NoIndex THEN 0 ELSE shown.rev  up == <<c>>
<1>1. /\ ~ nav.open /\ nav' = [nav EXCEPT !.open = TRUE, !.up = up]
      /\ UNCHANGED <<index, previous, client, asking, shown, answers, quota>>
  BY DEF NavOpens
<1>2. Current \in Nat /\ shown \in [rev : 0..Current, tabs : Nat, ui : Nat]
      /\ nav \in NavRecord
  BY RowsTyped DEF IndexInv, TalkTyped, PageTyped, Current
<1>3. c \in Nat /\ c <= shown.rev
  BY <1>2
<1> HIDE DEF c
<1>4. up \in Seq(Nat \cup {Unknown}) /\ up # <<>> /\ \A x \in ToSet(up) : x = c
  <2>1. up \in Seq(Nat \cup {Unknown}) /\ Len(up) = 1 /\ up[1] = c
    BY <1>3
  <2> HIDE DEF up
  <2>2. up # <<>> /\ ToSet(up) = {up[i] : i \in 1..1}
    BY <2>1, SetOfSeq, EmptySeq
  <2> QED
    BY <2>1, <2>2
<1> HIDE DEF up
<1>5. nav' \in NavRecord
      /\ nav'.open /\ nav'.up = up /\ nav'.down = nav.down
  BY <1>1, <1>2, <1>4 DEF NavRecord
<1>6. TalkTyped' /\ MessagesTrue' /\ SocketHolds' /\ WillSettle'
  BY <1>1, <1>4, <1>5 DEF IndexInv, TalkTyped, MessagesTrue, SocketHolds, WillSettle, Current
<1>7. ClaimsHold'
  BY <1>1, <1>3, <1>4, <1>5 DEF IndexInv, ClaimsHold, Current
<1>8. ShownTrue' /\ PageTyped' /\ PreferHolds'
  BY <1>1 DEF IndexInv, ShownTrue, PageTyped, PreferHolds, Current
<1> QED
  BY <1>1, <1>6, <1>7, <1>8 DEF IndexInv

\* A closed socket carries nothing.
LEMMA ClosedTyped ==
    /\ Closed0 \in NavRecord
    /\ ~ Closed0.open /\ ToSet(Closed0.up) = {} /\ ToSet(Closed0.down) = {}
    /\ <<>> \in Seq(AskedRecord) /\ ToSet(<<>>) = {}
<1> DEFINE e == <<>>
<1>1. e \in Seq(Nat \cup {Unknown}) /\ e \in Seq(IndexMessage) /\ e \in Seq(AskedRecord) /\ Len(e) = 0
  BY EmptySeq
<1>2. ToSet(e) = {}
  BY <1>1, SetOfSeq
<1>3. Closed0 = [open |-> FALSE, up |-> e, down |-> e, unsaid |-> FALSE]
  BY DEF Closed0
<1> HIDE DEF e
<1>4. Closed0 \in NavRecord
      /\ ~ Closed0.open /\ ToSet(Closed0.up) = {} /\ ToSet(Closed0.down) = {}
  BY <1>1, <1>2, <1>3 DEF NavRecord
<1> QED
  BY <1>1, <1>2, <1>4 DEF e

LEMMA NavDropsHolds ==
    ASSUME IndexInv, NavDrops
    PROVE  IndexInv'
<1>1. /\ nav' = Closed0 /\ client' = Unwatched /\ asking' = <<>> /\ previous' \in {previous, 0}
      /\ UNCHANGED <<index, shown, answers>>
  BY DEF NavDrops
<1>2. quota' \in QuotaRecord /\ quota'.failed = quota.failed
  BY DEF NavDrops, Charge, IndexInv, PageTyped, QuotaRecord
<1>3. client' \in [wants : BOOLEAN, rev : 0..Current \cup {Unknown}]
  BY <1>1 DEF Unwatched
<1>4. TalkTyped'
  BY <1>1, <1>3, ClosedTyped DEF IndexInv, TalkTyped, Current
<1>5. MessagesTrue' /\ ClaimsHold' /\ SocketHolds' /\ WillSettle'
  BY <1>1, ClosedTyped DEF MessagesTrue, ClaimsHold, SocketHolds, WillSettle
<1>6. ShownTrue' /\ PageTyped' /\ PreferHolds'
  BY <1>1, <1>2 DEF IndexInv, ShownTrue, PageTyped, PreferHolds, Current
<1> QED
  BY <1>1, <1>4, <1>5, <1>6 DEF IndexInv

LEMMA IndexBegins ==
    ASSUME IndexInit
    PROVE  IndexInv
<1> DEFINE row == [tabs |-> 1, ui |-> 1]  ix == <<row>>
<1>1. ix \in Seq(IndexRow) /\ Len(ix) = 1 /\ ix[1] = row
  <2>1. row \in IndexRow
    BY DEF IndexRow
  <2> HIDE DEF row
  <2> QED
    BY <2>1
<1>2. index = ix /\ previous = 0 /\ client = Unwatched /\ asking = <<>> /\ nav = Closed0 /\ shown = NoIndex
      /\ answers = {[kind |-> "refresh", rev |-> 0]}
  BY DEF IndexInit
<1>3. row.tabs = 1 /\ row.ui = 1
  OBVIOUS
<1> HIDE DEF row, ix
<1>4. Current = 1 /\ index[1] = row
  BY <1>1, <1>2 DEF Current
<1>5. IndexGrows(index)
  <2>1. Len(index) = 1 /\ \A r \in 1..Len(index) : r = 1 /\ index[r].tabs = 1 /\ index[r].ui = 1
    BY <1>3, <1>4 DEF Current
  <2>2. index \in Seq(IndexRow)
    BY <1>1, <1>2
  <2> QED
    BY <2>1, <2>2 DEF IndexGrows
<1>6. TalkTyped
  BY <1>2, <1>4, ClosedTyped DEF TalkTyped, Unwatched
<1>7. quota \in QuotaRecord
  BY IndexAssumption DEF IndexInit, QuotaRecord
<1>8. PageTyped /\ ShownTrue
  BY <1>2, <1>4, <1>7 DEF PageTyped, ShownTrue, NoIndex
<1>9. PreferHolds
  BY <1>2 DEF PreferHolds, NoIndex
<1>10. MessagesTrue /\ ClaimsHold /\ SocketHolds /\ WillSettle
  BY <1>2, ClosedTyped DEF MessagesTrue, ClaimsHold, SocketHolds, WillSettle
<1> QED
  BY <1>5, <1>6, <1>8, <1>9, <1>10 DEF IndexInv

LEMMA IndexStep ==
    ASSUME IndexInv, [IndexNext]_indexVars
    PROVE  IndexInv'
<1>1. CASE IndexSystem
  BY <1>1, SubscribeTakenHolds, IndexReceivedHolds, NavOpensHolds, SubscribeReadHolds, SubscribeAnsweredHolds,
     AnswerReadHolds, AnswerLandsHolds DEF IndexSystem
<1>2. CASE IndexUser
  BY <1>2, RefreshHolds, PreferHoldsOn, NavDropsHolds, TabsWrittenHolds DEF IndexUser
<1>3. CASE UNCHANGED indexVars
  <2>1. UNCHANGED <<index, previous, client, asking, nav, shown, answers, quota>>
    BY <1>3 DEF indexVars
  <2>2. IndexGrows(index') /\ TalkTyped' /\ MessagesTrue' /\ ClaimsHold' /\ SocketHolds' /\ WillSettle'
    BY <2>1, RestHolds
  <2>3. ShownTrue' /\ PageTyped' /\ PreferHolds'
    BY <2>1 DEF IndexInv, ShownTrue, PageTyped, PreferHolds, Current
  <2> QED
    BY <2>2, <2>3 DEF IndexInv
<1> QED
  BY <1>1, <1>2, <1>3 DEF IndexNext

LEMMA IndexInvHolds ==
    ASSUME IndexInv
    PROVE  SidebarIsTrue
<1>1. Current \in Nat \ {0} /\ Current \in 1..Current
      /\ \A r \in 1..Current : index[r].tabs \in Nat \ {0} /\ index[r].ui \in {1, 100}
  BY RowsTyped DEF IndexInv, Current
<1>2. IndexTypes
  BY <1>1 DEF IndexInv, TalkTyped, PageTyped, SocketHolds, IndexTypes
<1>3. SidebarCatchesUp
  <2> SUFFICES ASSUME nav.open, nav.up = <<>>, nav.down = <<>>, asking = <<>>, answers = {}, ~ nav.unsaid
               PROVE  shown.tabs = index[Current].tabs /\ (shown.ui = index[Current].ui \/ quota.failed)
    BY DEF SidebarCatchesUp
  <2>1. AsLast(shown.rev, index)
    BY ClosedTyped DEF IndexInv, WillSettle, Settled
  <2>2. shown.rev \in 1..Current /\ shown # NoIndex
    BY <2>1 DEF AsLast, NoIndex, Current
  <2>3. shown.tabs = index[Current].tabs /\ shown.ui \in {index[Current].ui, 100}
    BY <2>1, <2>2 DEF IndexInv, ShownTrue, AsLast, Current
  <2>4. shown.ui = 100 /\ index[Current].ui # 100 => quota.failed
    BY DEF IndexInv, PreferHolds
  <2> QED
    BY <2>3, <2>4
<1> QED
  BY <1>2, <1>3 DEF SidebarIsTrue

\* A page at rest shows the tabs and the preferences there are, whatever order pushes and answers
\* came in and whatever was lost: for any number of writes, preferences, refreshes and drops.
THEOREM SidebarTrue == IndexSpec => []SidebarIsTrue
<1>1. IndexInit => IndexInv
  BY IndexBegins
<1>2. IndexInv /\ [IndexNext]_indexVars => IndexInv'
  BY IndexStep
<1>3. IndexInv => SidebarIsTrue
  BY IndexInvHolds
<1> QED
  BY <1>1, <1>2, <1>3, PTL DEF IndexSpec
=============================================================================
