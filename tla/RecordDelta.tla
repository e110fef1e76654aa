------------------------------ MODULE RecordDelta ------------------------------
(***************************************************************************)
(* What changed in a list of records (shared/tab-delta.ts), and the order  *)
(* in which a queue is read (shared/prompt-order.ts).  A record is         *)
(* [id, text, done]: done is 0 while it waits, then its completion time.   *)
(***************************************************************************)
EXTENDS Integers, Sequences, FiniteSets, SequencesExt

NoMove == [id |-> 0, before |-> 0]
IdsOf(list) == [i \in DOMAIN list |-> list[i].id]
HasId(list, id) == \E i \in DOMAIN list : list[i].id = id
With(list, id) == list[CHOOSE i \in DOMAIN list : list[i].id = id]
Drop(list, id) == SelectSeq(list, LAMBDA r : r.id # id)
IndexOf(list, id) == CHOOSE i \in DOMAIN list : list[i].id = id

\* singleMove: the record whose removal makes the two orders the same, looked for where
\* they first differ, and the record it now stands before (0 for the end).
SingleMove(before, after) ==
  LET differ == {i \in DOMAIN before : before[i] # after[i]}
      d == CHOOSE i \in differ : \A j \in differ : i <= j
      Moved(c) == SelectSeq(before, LAMBDA x : x # c) = SelectSeq(after, LAMBDA x : x # c)
      c == IF Moved(after[d]) THEN after[d] ELSE before[d]
      at == CHOOSE i \in DOMAIN after : after[i] = c
  IN  IF Len(before) # Len(after) \/ differ = {} \/ ~ Moved(c) THEN NoMove
      ELSE [id |-> c, before |-> IF at < Len(after) THEN after[at + 1] ELSE 0]

\* buildRecordDelta.
Delta(previous, next) ==
  LET upserts == SelectSeq(next, LAMBDA r : ~ HasId(previous, r.id) \/ With(previous, r.id) # r)
      gone == {previous[i].id : i \in {j \in DOMAIN previous : ~ HasId(next, previous[j].id)}}
      stay == SelectSeq(IdsOf(next), LAMBDA id : HasId(previous, id))
      reordered == stay # SelectSeq(IdsOf(previous), LAMBDA id : HasId(next, id))
      move == IF reordered /\ upserts = <<>> /\ gone = {}
              THEN SingleMove(IdsOf(previous), IdsOf(next)) ELSE NoMove
  IN  [upserts |-> upserts, gone |-> gone, move |-> move,
       order |-> IF reordered /\ move = NoMove THEN IdsOf(next) ELSE <<>>]

\* moveIsApplicable.
MoveIsApplicable(list, move) ==
  move # NoMove /\ HasId(list, move.id) => move.before = 0 \/ HasId(list, move.before)

ApplyMove(list, move) ==
  IF ~ HasId(list, move.id) THEN list
  ELSE LET rest == Drop(list, move.id)
           at == IF move.before = 0 THEN Len(rest) + 1 ELSE IndexOf(rest, move.before)
       IN  SubSeq(rest, 1, at - 1) \o <<With(list, move.id)>> \o SubSeq(rest, at, Len(rest))

\* orderRecords: those the order names, in its order, before the others.
OrderRecords(list, order) ==
  LET known == SelectSeq(order, LAMBDA id : HasId(list, id))
  IN  [i \in DOMAIN known |-> With(list, known[i])]
        \o SelectSeq(list, LAMBDA r : ~ Contains(order, r.id))

\* applyRecordDelta: a record the page does not show goes to the end.  One mutant applies the
\* changes and forgets what was deleted, one takes every change for a new record.
ApplyAppends(list, delta) == SelectSeq(list, LAMBDA r : r.id \notin delta.gone) \o delta.upserts
ApplyNotGone(list, delta) ==
  LET kept == [i \in DOMAIN list |->
                 IF HasId(delta.upserts, list[i].id) THEN With(delta.upserts, list[i].id) ELSE list[i]]
  IN  kept \o SelectSeq(delta.upserts, LAMBDA r : ~ HasId(list, r.id))
Apply(list, delta) ==
  LET left == SelectSeq(list, LAMBDA r : r.id \notin delta.gone)
      kept == [i \in DOMAIN left |->
                 IF HasId(delta.upserts, left[i].id) THEN With(delta.upserts, left[i].id) ELSE left[i]]
      all  == kept \o SelectSeq(delta.upserts, LAMBDA r : ~ HasId(left, r.id))
  IN  IF delta.move # NoMove THEN ApplyMove(all, delta.move) ELSE OrderRecords(all, delta.order)

\* sortSettledByCompletion: the settled records share out their places by completion.
ReadOrder(stored) ==
  LET slots == {i \in DOMAIN stored : stored[i].done # 0}
      ranked == SetToSortSeq(slots, LAMBDA i, j : \/ stored[i].done < stored[j].done
                                                  \/ stored[i].done = stored[j].done /\ i < j)
      Rank(i) == Cardinality({j \in slots : j <= i})
  IN  [i \in DOMAIN stored |-> IF i \in slots THEN stored[ranked[Rank(i)]] ELSE stored[i]]

\* tailWindowStart: the last records, and everything from the first that still waits.
WindowStart(list, limit) ==
  LET waiting == {i \in DOMAIN list : list[i].done = 0}
      tail == IF Len(list) > limit THEN Len(list) - limit ELSE 0
  IN  IF waiting = {} THEN tail
      ELSE LET first == CHOOSE i \in waiting : \A j \in waiting : i <= j
           IN  IF first - 1 < tail THEN first - 1 ELSE tail
=============================================================================
