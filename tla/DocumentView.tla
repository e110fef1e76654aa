------------------------------- MODULE DocumentView -------------------------------
(***************************************************************************)
(* A document read in the page, chunk by chunk (client/document-loader.ts, *)
(* client/document-viewer.tsx, server/documents.ts).  The server holds what *)
(* was opened in memory only; the loader outlives the answers to what it   *)
(* asked, opens a forgotten document again, and opens the document a link  *)
(* stands in again when the server no longer knows that one.               *)
(*                                                                         *)
(* An identifier is an HMAC of the path under a key kept on disk, so a     *)
(* document has the same one for ever; a revision is one of the file's     *)
(* stat, so it is a version.  Every file is permitted and valid UTF-8.     *)
(***************************************************************************)
EXTENDS Integers, Sequences, FiniteSets, SequencesExt

CONSTANTS
  Documents,
  DocChunks,       \* chunks of each document, in every version
  MemoMax,         \* DOCUMENT_MEMO_MAX_ENTRIES
  RefreshDepth,    \* MAX_PARENT_REFRESH_DEPTH
  DocumentLoads    \* bounds: asks, reads, writes, restarts, fails, looks

\* The documents are numbered from 1 (0 is none), and have so many chunks each.
ASSUME DocumentsAssumption ==
  /\ Documents \subseteq Nat \ {0} /\ DocChunks \in [Documents -> Nat] /\ {MemoMax, RefreshDepth} \subseteq Nat
  /\ DocumentLoads \subseteq [{"asks", "reads", "writes", "restarts", "fails", "looks"} -> Nat]

VARIABLES
  files,     \* the version of each file
  memo,      \* the server's documents, the least recently used first: [doc, version]
  viewer,    \* the loader and its state, see Closed
  calls,     \* what the loader awaits
  wanted,    \* history: the document the reader asked for last, or 0
  funds

documentVars == <<files, memo, viewer, calls, wanted, funds>>

\* doc is what href names when it is resolved where it stands; base is where it stands, 0
\* for an answer, and parent what is sent as parentDocId.
Request(doc, parent, base) == [doc |-> doc, parent |-> parent, base |-> base]
NoRequest == Request(0, 0, 0)
\* initialState and the loader's fields; fed: the chunks its decoder and its assembler were
\* given, which remember what they got; left: the page looked away while it opened.
Closed ==
  [status |-> "closed", reserved |-> FALSE, source |-> NoRequest, doc |-> 0, version |-> 0,
   shown |-> <<>>, fed |-> <<>>, complete |-> FALSE, error |-> "none", epoch |-> 0, attempt |-> 0,
   inFlight |-> FALSE, active |-> TRUE, reopened |-> FALSE, left |-> FALSE]
Spends(what) == funds[what] > 0 /\ funds' = [funds EXCEPT ![what] = @ - 1]

-----------------------------------------------------------------------------
\* The server.  A request is answered in steps, also when nobody waits for it any more.

Known(d) == \E i \in DOMAIN memo : memo[i].doc = d
\* touchMemo.
Touched(d, version) ==
  LET rest == Append(RemoveFirstMatch(memo, LAMBDA m : m.doc = d), [doc |-> d, version |-> version])
  IN  SubSeq(rest, Len(rest) - (IF Len(rest) > MemoMax THEN MemoMax ELSE Len(rest)) + 1, Len(rest))
Replies(c, code) ==
  calls' = (calls \ {c}) \cup (IF c.settled THEN {} ELSE {[c EXCEPT !.phase = "answered", !.code = code]})
Advances(c, phase, version) ==
  calls' = (calls \ {c}) \cup {[c EXCEPT !.phase = phase, !.version = version]}

\* DocumentService.open: the parent, the file, and then the memo.
OpenStats(c) ==
  /\ c.kind = "open" /\ c.phase = "sent"
  /\ IF c.request.parent # 0 /\ ~ Known(c.request.parent) THEN Replies(c, "parentUnknown")
     ELSE Advances(c, "statted", files[c.request.doc])
  /\ UNCHANGED <<files, memo, viewer, wanted, funds>>
OpenIssues(c) ==
  /\ c.kind = "open" /\ c.phase = "statted"
  /\ memo' = Touched(c.request.doc, c.version) /\ Replies(c, "ok")
  /\ UNCHANGED <<files, viewer, wanted, funds>>

\* readChunk: the file must be what was opened before its bytes are read and after.
ChunkStats(c) ==
  /\ c.kind = "chunk" /\ c.phase = "sent"
  /\ IF ~ Known(c.request.doc) THEN Replies(c, "idUnknown") /\ UNCHANGED memo
     ELSE LET m == CHOOSE x \in ToSet(memo) : x.doc = c.request.doc IN
          /\ memo' = Touched(m.doc, m.version)
          /\ IF files[m.doc] # c.version \/ m.version # c.version THEN Replies(c, "changed")
             ELSE Advances(c, "statted", c.version)
  /\ UNCHANGED <<files, viewer, wanted, funds>>
ChunkReads(c) ==
  /\ c.kind = "chunk" /\ c.phase = "statted"
  /\ calls' = (calls \ {c}) \cup {[c EXCEPT !.phase = "read", !.bytes = files[c.request.doc]]}
  /\ UNCHANGED <<files, memo, viewer, wanted, funds>>
ChunkSends(c) ==
  /\ c.kind = "chunk" /\ c.phase = "read"
  /\ Replies(c, IF files[c.request.doc] # c.version THEN "changed" ELSE "ok")
  /\ UNCHANGED <<files, memo, viewer, wanted, funds>>

\* Somebody saves the file; the server starts afresh; a request fails on its way.
FileSaved(d) ==
  /\ Spends("writes") /\ files' = [files EXCEPT ![d] = @ + 1]
  /\ UNCHANGED <<memo, viewer, calls, wanted>>
DocumentServerRestarts ==
  /\ Spends("restarts") /\ memo' = <<>>
  /\ calls' = {IF c.phase = "answered" THEN c ELSE [c EXCEPT !.phase = "answered", !.code = "failed"]
                : c \in {d \in calls : ~ d.settled}}
  /\ UNCHANGED <<files, viewer, wanted>>
CallFails(c) ==
  /\ c.phase # "answered" /\ ~ c.aborted /\ Spends("fails") /\ Replies(c, "failed")
  /\ UNCHANGED <<files, memo, viewer, wanted>>

-----------------------------------------------------------------------------
\* The loader.

\* current; the mutant asks for no attempt.
OfThisDocument(c) == ~ c.aborted /\ c.epoch = viewer.epoch
StillWanted(c) == ~ c.aborted /\ c.epoch = viewer.epoch /\ c.attempt = viewer.attempt

\* abortRequestOnly: the call that was made last, if it is still awaited.  The mutant only
\* counts the attempt.
AbortedNone(cs) == cs
Aborted(cs) == {IF c.attempt = viewer.attempt THEN [c EXCEPT !.aborted = TRUE] ELSE c : c \in cs}
NewCall(kind, v, request, version) ==
  [kind |-> kind, epoch |-> v.epoch, attempt |-> v.attempt, aborted |-> FALSE, settled |-> FALSE,
   phase |-> "sent", code |-> "none", request |-> request, version |-> version, bytes |-> 0, index |-> Len(v.shown),
   from |-> NoRequest, fromDoc |-> 0, depth |-> 0, link |-> NoRequest, frees |-> kind = "chunk"]

\* open, from the viewer v: link is what open opens next when this open was made for a link
\* whose document was forgotten, frees says that loadNext awaits it.
Opens(v, request, reopened, depth, link, frees, others) ==
  LET w == [v EXCEPT !.status = "opening", !.source = request, !.doc = 0, !.version = 0, !.shown = <<>>,
                     !.fed = <<>>, !.complete = FALSE, !.error = "none", !.inFlight = FALSE,
                     !.reopened = reopened, !.left = FALSE, !.epoch = @ + 1, !.attempt = @ + 2]
  IN  /\ viewer' = w
      /\ calls' = Aborted(others) \cup
           {[NewCall("open", w, request, 0) EXCEPT !.from = v.source, !.fromDoc = v.doc, !.depth = depth,
                                                   !.link = link, !.frees = frees]}

\* shouldRefreshStaleParent.
RefreshesParent(c) ==
  /\ c.code = "parentUnknown" /\ c.from # NoRequest
  /\ c.fromDoc = c.request.parent /\ c.depth < RefreshDepth

\* A call that was aborted is settled before any call made since is: it is rejected at once,
\* while they have the network before them.  The server goes on with its request.
MayLand(c) ==
  /\ ~ c.settled /\ (c.aborted \/ c.phase = "answered")
  /\ \A d \in calls : d.aborted /\ ~ d.settled => d.attempt >= c.attempt
LeftBy(c) == (calls \ {c}) \cup (IF c.phase = "answered" THEN {} ELSE {[c EXCEPT !.settled = TRUE]})
Freed(c) == [viewer EXCEPT !.inFlight = @ /\ ~ c.frees]

\* The end of open, and of the open that awaits it.
OpenLands(c) ==
  LET others == LeftBy(c)
      v == Freed(c)
      opened == [v EXCEPT !.status = "open", !.reserved = TRUE, !.doc = c.request.doc,
                          !.version = c.version, !.complete = DocChunks[c.request.doc] = 0]
      w == IF ~ StillWanted(c) THEN v
           ELSE IF c.code = "ok" THEN opened ELSE [v EXCEPT !.status = "error", !.error = c.code]
  IN  /\ c.kind = "open" /\ MayLand(c)
      /\ IF StillWanted(c) /\ RefreshesParent(c)
         THEN Opens(v, c.from, FALSE, c.depth + 1, c.request, c.frees, others)
         ELSE IF c.link # NoRequest /\ w.status = "open"
         THEN Opens(w, [c.link EXCEPT !.parent = w.doc], FALSE, c.depth, NoRequest, c.frees, others)
         ELSE viewer' = w /\ calls' = others
      /\ UNCHANGED <<files, memo, wanted, funds>>

\* loadNext, up to its call and from there.
LoadsNext ==
  /\ viewer.active /\ ~ viewer.inFlight /\ ~ viewer.complete /\ viewer.doc # 0
  /\ LET w == [viewer EXCEPT !.inFlight = TRUE, !.attempt = @ + 1, !.status = "loading", !.error = "none"]
     IN  viewer' = w /\ calls' = calls \cup {NewCall("chunk", w, Request(w.doc, 0, 0), w.version)}
ChunkLands(c) ==
  LET others == LeftBy(c)
      v == Freed(c)
      text == Append(SubSeq(v.shown, 1, c.index),
                     [doc |-> c.request.doc, version |-> c.bytes, index |-> c.index])
  IN  /\ c.kind = "chunk" /\ MayLand(c)
      /\ CASE ~ StillWanted(c) -> viewer' = v /\ calls' = others
           [] StillWanted(c) /\ c.code = "ok" ->
                /\ viewer' = [v EXCEPT !.status = "open", !.shown = text, !.fed = Append(@, c.index), !.error = "none",
                                       !.complete = Len(text) >= DocChunks[v.doc]]
                /\ calls' = others
           [] StillWanted(c) /\ c.code = "idUnknown" /\ ~ v.reopened ->
                Opens(v, v.source, TRUE, 0, NoRequest, TRUE, others)
           [] OTHER -> viewer' = [v EXCEPT !.status = "error", !.error = c.code] /\ calls' = others
      /\ UNCHANGED <<files, memo, wanted, funds>>

-----------------------------------------------------------------------------
\* The reader.

\* A link in an answer, and one in the document that is shown.
AsksForDocument(d) ==
  /\ viewer.active /\ Spends("asks") /\ wanted' = d
  /\ Opens(viewer, Request(d, 0, 0), FALSE, 0, NoRequest, FALSE, calls) /\ UNCHANGED <<files, memo>>
FollowsLink(d) ==
  /\ viewer.active /\ viewer.shown # <<>> /\ d # viewer.doc /\ Spends("asks") /\ wanted' = d
  /\ Opens(viewer, Request(d, viewer.doc, viewer.doc), FALSE, 0, NoRequest, FALSE, calls)
  /\ UNCHANGED <<files, memo>>
\* The effect that loads the first chunk of what is visible, and the reader's wish for more.
LoadsFirst ==
  /\ viewer.reserved /\ viewer.status = "open" /\ viewer.shown = <<>> /\ LoadsNext
  /\ UNCHANGED <<files, memo, wanted, funds>>
LoadsMore == viewer.shown # <<>> /\ Spends("reads") /\ LoadsNext /\ UNCHANGED <<files, memo, wanted>>
\* retry asks for what the error is about, which may be the document a link stood in.
RetriesDocument ==
  /\ viewer.active /\ viewer.status = "error" /\ Spends("asks")
  /\ IF viewer.doc = 0
     THEN wanted' = viewer.source.doc /\ Opens(viewer, viewer.source, FALSE, 0, NoRequest, FALSE, calls)
     ELSE LoadsNext /\ UNCHANGED wanted
  /\ UNCHANGED <<files, memo>>
ClosesDocument ==
  /\ viewer.active /\ viewer.reserved /\ wanted' = 0 /\ calls' = Aborted(calls)
  /\ viewer' = [Closed EXCEPT !.epoch = viewer.epoch + 1, !.attempt = viewer.attempt + 1,
                              !.reopened = viewer.reopened]
  /\ UNCHANGED <<files, memo, funds>>
\* setActive.
LooksAway ==
  /\ viewer.active /\ Spends("looks") /\ calls' = Aborted(calls)
  /\ viewer' = [viewer EXCEPT !.active = FALSE, !.inFlight = FALSE, !.attempt = @ + 1,
                              !.status = IF @ = "loading" THEN "open" ELSE @,
                              !.left = @ \/ viewer.status = "opening"]
  /\ UNCHANGED <<files, memo, wanted>>
LooksBack ==
  /\ ~ viewer.active /\ viewer' = [viewer EXCEPT !.active = TRUE]
  /\ UNCHANGED <<files, memo, calls, wanted, funds>>

DocumentInit ==
  /\ files = [d \in Documents |-> 1] /\ memo = <<>> /\ viewer = Closed /\ calls = {} /\ wanted = 0
  /\ funds \in DocumentLoads

DocumentNext ==
  \/ \E c \in calls :
       \/ OpenStats(c) \/ OpenIssues(c) \/ ChunkStats(c) \/ ChunkReads(c) \/ ChunkSends(c)
       \/ CallFails(c) \/ OpenLands(c) \/ ChunkLands(c)
  \/ \E d \in Documents : FileSaved(d) \/ AsksForDocument(d) \/ FollowsLink(d)
  \/ DocumentServerRestarts \/ LoadsFirst \/ LoadsMore \/ RetriesDocument \/ ClosesDocument
  \/ LooksAway \/ LooksBack
DocumentSpec == DocumentInit /\ [][DocumentNext]_documentVars

-----------------------------------------------------------------------------
\* Properties.

DocumentTypes ==
  /\ viewer.status \in {"closed", "opening", "open", "loading", "error"}
  /\ viewer.doc \in Documents \cup {0} /\ wanted \in Documents \cup {0}
  /\ Len(memo) <= MemoMax /\ Cardinality(calls) = Cardinality({c.attempt : c \in calls})

\* What is drawn is the document's own text from its start, with nothing missing, nothing
\* twice, and nothing of another version, and the decoder was given just that: whatever was
\* saved, aborted or asked twice.
TextIsOneVersion ==
  /\ \A i \in DOMAIN viewer.shown :
       viewer.shown[i] = [doc |-> viewer.doc, version |-> viewer.version, index |-> i - 1]
  /\ viewer.fed = [i \in DOMAIN viewer.shown |-> i - 1]

\* The reader sees the document he asked for last, or none when he closed it, however late
\* the answers to what he asked before.
LastAskedIsShown ==
  /\ viewer.doc # 0 => viewer.doc = wanted
  /\ (viewer.status = "closed") = (wanted = 0)

\* A link is only ever resolved against the document it stands in, also when that one had to
\* be opened again first.
LinksKeepTheirBase == \A c \in calls : c.kind = "open" => c.request.parent = c.request.base

\* A spinner is turning for a call that will still be heard, and the loader is not locked by
\* one that will not.  (A document that was opening when the reader looked away spins on.)
SpinnersEnd ==
  /\ viewer.status = "loading" \/ (viewer.status = "opening" /\ ~ viewer.left)
     => \E c \in calls : StillWanted(c)
  /\ viewer.inFlight => \E c \in calls : c.kind = "chunk" /\ StillWanted(c)

\* A document is shown whole, in one version, and is the one asked for last.
DocumentHolds == DocumentTypes /\ TextIsOneVersion /\ LastAskedIsShown /\ LinksKeepTheirBase /\ SpinnersEnd
=============================================================================
