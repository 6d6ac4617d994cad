---------------------------- MODULE Streams_proofs ----------------------------
(***************************************************************************)
(* Proofs about Streams, for any rows, any number of revisions and upsets, *)
(* and any limit of the gateway's queue, and about the recalls TradeRecall *)
(* adds to them, for any number of calls.                                  *)
(***************************************************************************)
EXTENDS TradeRecall, TLAPS

USE WatchedAssumption, StreamBounds DEF streamVars

Events ==
  [type : {"SNAPSHOT"}, rows : [Rows -> 0 .. Final]]
    \cup [type : {"UPSERT", "REJECTED"}, row : Rows, rev : 1 .. Final]
    \cup [type : {"DELETE"}, row : Rows] \cup {End}

(* What an event makes of row r, if anything.                              *)
Touches(e, r) ==
  e.type = "SNAPSHOT" \/ (e.type \in {"UPSERT", "DELETE"} /\ e.row = r)
Gives(e, r) ==
  IF e.type = "SNAPSHOT" THEN e.rows[r] ELSE IF e.type = "UPSERT" THEN e.rev ELSE 0

(* Row r, held as v, comes to n once the events of q have been taken: the  *)
(* last of them that touches it says so, or none does and it is n already. *)
ComesTo(v, q, r, n) ==
  \/ \E i \in 1 .. Len(q) :
       /\ Touches(q[i], r) /\ Gives(q[i], r) = n
       /\ \A j \in i + 1 .. Len(q) : ~Touches(q[j], r)
  \/ v = n /\ \A i \in 1 .. Len(q) : ~Touches(q[i], r)

(* An empty queue leaves a row as it is.                                   *)
LEMMA ComesToEmpty ==
  ASSUME NEW v, NEW r, NEW n
  PROVE  ComesTo(v, <<>>, r, n) <=> v = n
  BY DEF ComesTo

(* An event at the end of the queue decides about the rows it touches.     *)
LEMMA ComesToAppend ==
  ASSUME NEW q \in Seq(Events), NEW e \in Events, NEW v, NEW r \in Rows, NEW n
  PROVE  /\ Touches(e, r) /\ Gives(e, r) = n => ComesTo(v, Append(q, e), r, n)
         /\ ~Touches(e, r) /\ ComesTo(v, q, r, n) => ComesTo(v, Append(q, e), r, n)
<1>1. /\ Len(Append(q, e)) = Len(q) + 1 /\ Append(q, e)[Len(q) + 1] = e
      /\ \A i \in 1 .. Len(q) : Append(q, e)[i] = q[i]
      /\ Len(q) \in Nat
  OBVIOUS
<1> QED BY <1>1 DEF ComesTo

(* Taking the first event of the queue leaves what a row comes to.         *)
LEMMA ComesToTail ==
  ASSUME NEW q \in Seq(Events), q # <<>>, NEW v, NEW r \in Rows, NEW n,
         ComesTo(v, q, r, n)
  PROVE  ComesTo(IF Touches(Head(q), r) THEN Gives(Head(q), r) ELSE v, Tail(q), r, n)
<1>1. /\ Len(Tail(q)) = Len(q) - 1 /\ Head(q) = q[1] /\ Len(q) \in Nat \ {0}
      /\ \A i \in 1 .. Len(q) - 1 : Tail(q)[i] = q[i + 1]
  OBVIOUS
<1>2. CASE v = n /\ \A i \in 1 .. Len(q) : ~Touches(q[i], r)
  BY <1>1, <1>2 DEF ComesTo
<1>3. ASSUME NEW i \in 1 .. Len(q), Touches(q[i], r), Gives(q[i], r) = n,
             \A j \in i + 1 .. Len(q) : ~Touches(q[j], r)
      PROVE  ComesTo(IF Touches(Head(q), r) THEN Gives(Head(q), r) ELSE v,
                     Tail(q), r, n)
  <2>1. CASE i = 1
    BY <1>1, <1>3, <2>1 DEF ComesTo
  <2>2. CASE i # 1
    <3>1. i - 1 \in 1 .. Len(Tail(q)) /\ Tail(q)[i - 1] = q[i]
      BY <1>1, <2>2
    <3>2. \A j \in (i - 1) + 1 .. Len(Tail(q)) : ~Touches(Tail(q)[j], r)
      BY <1>1, <1>3, <2>2
    <3> QED BY <1>3, <3>1, <3>2 DEF ComesTo
  <2> QED BY <2>1, <2>2
<1> QED BY <1>2, <1>3 DEF ComesTo

(* The queue as it grows.                                                  *)
LEMMA QueueGrows ==
  ASSUME NEW q \in Seq(Events), NEW e \in Events
  PROVE  /\ <<>> \in Seq(Events) /\ <<e>> = Append(<<>>, e)
         /\ q \o <<e>> = Append(q, e)
         /\ q \o <<e, End>> = Append(Append(q, e), End)
         /\ <<e, End>> = Append(Append(<<>>, e), End)
         /\ End \in Events
         /\ Append(q, e) \in Seq(Events) /\ Append(Append(q, e), End) \in Seq(Events)
  BY DEF Events

-----------------------------------------------------------------------------
(* The type invariant, with that of the queue and the page, and what each  *)
(* kind of stream never has.                                               *)

Pages == [rows : [Rows -> 0 .. MaxRev], current : BOOLEAN]

QueueOK ==
  /\ queue \in Seq(Events) /\ Len(queue) <= QueueLimit
  /\ behind \in BOOLEAN /\ gap \in BOOLEAN /\ (behind => sub = "open")
  /\ page # NoPage =>
       kind = "tail" /\ page \in Pages /\ (page.current => sub = "open")
  /\ kind = "tail" =>
       ~behind /\ \A i \in 1 .. Len(queue) : queue[i].type = "UPSERT"
  /\ kind # "one" =>
       sub # "ended" /\ \A i \in 1 .. Len(queue) : queue[i].type # "END"

RowsOK ==
  /\ kind = "tail" => \A r \in Rows : table[r] <= MaxRev
  /\ kind # "one" => \A r \in Rows : table[r] <= Final

ShapeInv == StreamTypeOK /\ QueueOK /\ RowsOK

(* The revisions of a row that count.                                      *)
LEMMA Revisions ==
  /\ MaxRev \in Nat /\ MaxRev > 1 /\ QueueLimit \in Nat /\ QueueLimit > 1
  /\ Final = MaxRev + 1 /\ Forgotten = MaxRev + 2
  BY DEF Final, Forgotten

(* What is shown of the rows has the reader's type.                        *)
LEMMA ShownType ==
  ASSUME NEW t \in [Rows -> 0 .. Forgotten], ShapeInv
  PROVE  /\ ShownIn(t) \in [Rows -> 0 .. Final]
         /\ Snapshot(t) \in Events
         /\ kind # "one" => ShownIn(t) \in [Rows -> 0 .. MaxRev]
<1>1. ShownIn(t) \in [Rows -> 0 .. Final]
  <2>1. ASSUME NEW r \in Rows PROVE ShownIn(t)[r] \in 0 .. Final
    <3>1. CASE kind = "one"
      BY <3>1, Revisions DEF ShownIn
    <3>2. CASE kind # "one"
      BY <3>2, Revisions DEF ShownIn
    <3> QED BY <3>1, <3>2
  <2> QED BY <2>1 DEF ShownIn
<1>2. kind # "one" => ShownIn(t) \in [Rows -> 0 .. MaxRev]
  BY Revisions DEF ShownIn
<1> QED BY <1>1, <1>2 DEF Snapshot, Events

(* Emitting one event, or a last one with the end behind it: it goes on    *)
(* the queue, or the stream has missed it.                                 *)
LEMMA EmitCases ==
  ASSUME ShapeInv, NEW e \in Events,
         Emit(<<e>>) \/ (kind # "tail" /\ Emit(<<e, End>>))
  PROVE  \/ /\ sub = "open" /\ ~behind /\ UNCHANGED <<behind, gap, page>>
            /\ Len(queue') <= QueueLimit
            /\ \/ Emit(<<e>>) /\ queue' = Append(queue, e)
               \/ Emit(<<e, End>>) /\ queue' = Append(Append(queue, e), End)
         \/ /\ sub # "open" \/ behind
            /\ UNCHANGED <<queue, behind, page>> /\ gap' = (gap \/ kind = "tail")
         \/ /\ sub = "open" /\ kind # "tail" /\ behind' = TRUE
            /\ UNCHANGED <<queue, gap, page>>
         \/ /\ sub = "open" /\ kind = "tail" /\ gap' = TRUE
            /\ page' = (IF page = NoPage THEN NoPage ELSE [page EXCEPT !.current = FALSE])
            /\ UNCHANGED <<queue, behind>>
<1>1. /\ <<e>> # <<>> /\ <<e, End>> # <<>> /\ Len(<<e>>) = 1 /\ Len(<<e, End>>) = 2
      /\ queue \in Seq(Events)
  BY DEF ShapeInv, QueueOK
<1>2. /\ queue \o <<e>> = Append(queue, e)
      /\ queue \o <<e, End>> = Append(Append(queue, e), End)
      /\ Len(Append(queue, e)) = Len(queue) + 1
      /\ Len(Append(Append(queue, e), End)) = Len(queue) + 2
  BY <1>1, QueueGrows
<1>3. CASE Emit(<<e>>)
  BY <1>1, <1>2, <1>3 DEF Emit
<1>4. CASE kind # "tail" /\ Emit(<<e, End>>)
  BY <1>1, <1>2, <1>4 DEF Emit
<1> QED BY <1>3, <1>4

(* The queue keeps its type, and what a kind of stream never has on it,    *)
(* when an event is emitted.                                               *)
LEMMA EmitShape ==
  ASSUME ShapeInv, NEW e \in Events, e.type # "END",
         kind = "tail" => e.type = "UPSERT",
         Emit(<<e>>) \/ (kind = "one" /\ Emit(<<e, End>>)),
         UNCHANGED <<kind, options, sub, view>>
  PROVE  QueueOK'
<1>1. ASSUME NEW q \in Seq(Events), NEW f \in Events
      PROVE  /\ Append(q, f) \in Seq(Events)
             /\ Len(Append(q, f)) = Len(q) + 1
             /\ \A i \in 1 .. Len(Append(q, f)) :
                  Append(q, f)[i] = IF i \in 1 .. Len(q) THEN q[i] ELSE f
  OBVIOUS
<1>2. End \in Events
  BY DEF Events
<1>3. CASE sub = "open" /\ kind = "tail" /\ gap' = TRUE /\ UNCHANGED <<queue, behind>>
           /\ page' = IF page = NoPage THEN NoPage ELSE [page EXCEPT !.current = FALSE]
  <2>1. page' # NoPage => page' \in Pages /\ page'.current = FALSE
    BY <1>3 DEF ShapeInv, QueueOK, Pages
  <2> QED BY <1>3, <2>1 DEF ShapeInv, QueueOK, StreamTypeOK
<1>4. CASE queue' = Append(queue, e) /\ Len(queue') <= QueueLimit
           /\ UNCHANGED <<behind, gap, page>>
  BY <1>1, <1>4 DEF ShapeInv, QueueOK, StreamTypeOK
<1>5. CASE queue' = Append(Append(queue, e), End) /\ kind = "one"
           /\ Len(queue') <= QueueLimit /\ UNCHANGED <<behind, gap, page>>
  <2>1. queue' \in Seq(Events)
    BY <1>1, <1>2, <1>5 DEF ShapeInv, QueueOK
  <2> QED BY <1>5, <2>1 DEF ShapeInv, QueueOK, StreamTypeOK
<1>6. CASE UNCHANGED <<queue, behind, page>> /\ gap' = (gap \/ kind = "tail")
  BY <1>6 DEF ShapeInv, QueueOK, StreamTypeOK
<1>7. CASE sub = "open" /\ kind # "tail" /\ behind' = TRUE /\ UNCHANGED <<queue, gap, page>>
  BY <1>7 DEF ShapeInv, QueueOK, StreamTypeOK
<1>8. Emit(<<e, End>>) /\ ~Emit(<<e>>) => kind = "one"
  OBVIOUS
<1>9. CASE Emit(<<e>>)
  <2>1. queue' # Append(Append(queue, e), End) \/ queue' = Append(queue, e)
    <3>1. queue' \in {queue, queue \o <<e>>}
      BY <1>9 DEF Emit
    <3>2. queue \o <<e>> = Append(queue, e)
      BY QueueGrows DEF ShapeInv, QueueOK
    <3>3. Len(Append(Append(queue, e), End)) = Len(queue) + 2
      BY <1>1, <1>2 DEF ShapeInv, QueueOK
    <3> QED BY <1>1, <3>1, <3>2, <3>3 DEF ShapeInv, QueueOK
  <2> QED BY <2>1, <1>3, <1>4, <1>6, <1>7, <1>9, EmitCases
<1>10. CASE kind = "one" /\ Emit(<<e, End>>)
  BY <1>3, <1>4, <1>5, <1>6, <1>7, <1>10, EmitCases
<1> QED BY <1>9, <1>10

(* A step of the feed keeps the shape.                                     *)
LEMMA FeedShape ==
  ASSUME ShapeInv, FeedStep
  PROVE  ShapeInv'
<1> USE Revisions
<1>1. ASSUME NEW e \in Events, e.type # "END", kind = "tail" => e.type = "UPSERT",
             Emit(<<e>>) \/ (kind = "one" /\ Emit(<<e, End>>)),
             UNCHANGED <<kind, options, sub, view>>,
             upsets' \in 0 .. MaxUpsets, RowsOK', table' \in [Rows -> 0 .. Forgotten]
      PROVE  ShapeInv'
  <2>1. QueueOK'
    BY <1>1, EmitShape
  <2> QED BY <1>1, <2>1 DEF ShapeInv, StreamTypeOK, QueueOK
<1>2. ASSUME kind = "latest", EmitLatest,
             UNCHANGED <<kind, options, sub, view, upsets>>,
             RowsOK', table' \in [Rows -> 0 .. Forgotten]
      PROVE  ShapeInv'
  <2>1. Snapshot(table') \in Events /\ Snapshot(table').type = "SNAPSHOT"
    BY <1>2, ShownType DEF Snapshot
  <2>2. PICK e \in Events : e.type = "SNAPSHOT" /\ (queue' = queue \/ queue' = <<e>>)
    BY <1>2, <2>1 DEF EmitLatest
  <2>3. <<e>> \in Seq(Events) /\ Len(<<e>>) = 1 /\ <<e>>[1] = e
    OBVIOUS
  <2>4. /\ queue' \in Seq(Events) /\ Len(queue') <= QueueLimit
        /\ \A i \in 1 .. Len(queue') : queue'[i].type # "END"
    <3>1. CASE queue' = queue
      BY <1>2, <3>1 DEF ShapeInv, QueueOK
    <3>2. CASE queue' = <<e>>
      BY <2>2, <2>3, <3>2
    <3> QED BY <2>2, <3>1, <3>2
  <2> QED BY <1>2, <2>4 DEF EmitLatest, ShapeInv, StreamTypeOK, QueueOK
<1>3. ASSUME NEW r \in Rows, Change(r) PROVE ShapeInv'
  <2>1. table[r] \in 0 .. MaxRev - 1 /\ table' = [table EXCEPT ![r] = @ + 1]
        /\ UNCHANGED <<kind, options, sub, view, upsets>>
    BY <1>3 DEF Change, ShapeInv, StreamTypeOK
  <2>2. table' \in [Rows -> 0 .. Forgotten] /\ RowsOK'
    BY <2>1 DEF ShapeInv, StreamTypeOK, RowsOK
  <2>3. Upsert(r, table[r] + 1) \in Events /\ Upsert(r, table[r] + 1).type = "UPSERT"
    BY <2>1 DEF Upsert, Events
  <2>4. IF kind = "latest" THEN EmitLatest ELSE Emit(<<Upsert(r, table[r] + 1)>>)
    BY <1>3 DEF Change
  <2> QED BY <1>1, <1>2, <2>1, <2>2, <2>3, <2>4 DEF ShapeInv, StreamTypeOK
<1>4. ASSUME NEW r \in Rows, Finish(r) PROVE ShapeInv'
  <2>1. kind # "tail" /\ table[r] \in 1 .. MaxRev
        /\ table' = [table EXCEPT ![r] = Final]
        /\ UNCHANGED <<kind, options, sub, view, upsets>>
    BY <1>4 DEF Finish
  <2>2. table' \in [Rows -> 0 .. Forgotten] /\ RowsOK'
    BY <2>1 DEF ShapeInv, StreamTypeOK, RowsOK
  <2>3. /\ Upsert(r, Final) \in Events /\ Upsert(r, Final).type = "UPSERT"
        /\ Delete(r) \in Events /\ Delete(r).type = "DELETE"
    BY DEF Upsert, Delete, Events
  <2>4. \/ kind = "latest" /\ EmitLatest
        \/ kind = "one" /\ Emit(<<Upsert(r, Final), End>>)
        \/ Emit(<<Delete(r)>>)
    BY <1>4 DEF Finish
  <2> QED BY <1>1, <1>2, <2>1, <2>2, <2>3, <2>4 DEF ShapeInv, StreamTypeOK
<1>5. ASSUME NEW r \in Rows, RefuseLate(r) PROVE ShapeInv'
  <2>1. PICK n \in 1 .. Final : Emit(<<Rejected(r, n)>>)
    BY <1>5 DEF RefuseLate
  <2>2. Rejected(r, n) \in Events /\ Rejected(r, n).type = "REJECTED"
    BY DEF Rejected, Events
  <2>3. kind # "tail" /\ UNCHANGED <<kind, options, sub, view, table>>
        /\ upsets' \in 0 .. MaxUpsets
    BY <1>5 DEF RefuseLate, ShapeInv, StreamTypeOK
  <2>4. RowsOK'
    BY <2>3 DEF ShapeInv, RowsOK
  <2> QED BY <1>1, <2>1, <2>2, <2>3, <2>4 DEF ShapeInv, StreamTypeOK
<1>6. CASE RefreshStore
  <2>1. table' \in [Rows -> 0 .. Forgotten] /\ RowsOK'
    BY <1>6 DEF RefreshStore, ShapeInv, StreamTypeOK, RowsOK
  <2> QED BY <1>6, <2>1 DEF RefreshStore, ShapeInv, StreamTypeOK, QueueOK
<1> QED BY <1>3, <1>4, <1>5, <1>6 DEF FeedStep

(* What a stream opens on, and what is sent again to a reader that fell    *)
(* behind: one snapshot, an end, or the last of an order and its end.      *)
LEMMA OpeningCases ==
  ASSUME ShapeInv
  PROVE  /\ Snapshot(table) \in Events /\ End \in Events
         /\ Upsert(Watched, Final) \in Events
         /\ \/ kind = "tail" /\ Opening = <<>>
            \/ kind = "one" /\ table[Watched] = Final /\ Opening = <<Snapshot(table), End>>
            \/ kind # "tail" /\ Opening = <<Snapshot(table)>>
         /\ \/ kind = "one" /\ table[Watched] = Forgotten /\ Reread = <<End>>
            \/ /\ kind = "one" /\ table[Watched] = Final
               /\ Reread = <<Upsert(Watched, Final), End>>
            \/ /\ ~(kind = "one" /\ table[Watched] \in {Final, Forgotten})
               /\ Reread = <<Snapshot(table)>>
<1>1. table \in [Rows -> 0 .. Forgotten]
  BY DEF ShapeInv, StreamTypeOK
<1>2. Snapshot(table) \in Events
  BY <1>1, ShownType
<1>3. End \in Events /\ Upsert(Watched, Final) \in Events
  BY Revisions DEF Upsert, Events
<1>4. kind = "one" => kind # "tail"
  OBVIOUS
<1>5. Final # Forgotten
  BY Revisions
<1> QED BY <1>2, <1>3, <1>4, <1>5 DEF Opening, Reread

(* What taking one event does to the rows held.                            *)
LEMMA ApplyType ==
  ASSUME ShapeInv, NEW e \in Events, kind = "tail" => e.type = "UPSERT"
  PROVE  /\ Apply(e) \in [Rows -> 0 .. Final]
         /\ e = End <=> e.type = "END"
         /\ kind # "tail" => \A r \in Rows :
              Apply(e)[r] = IF Touches(e, r) THEN Gives(e, r) ELSE view[r]
         /\ kind = "tail" => \A r \in Rows :
              /\ Apply(e)[r] \in {view[r], e.rev} /\ Apply(e)[r] >= view[r]
              /\ r = e.row => Apply(e)[r] >= e.rev
              /\ r # e.row => Apply(e)[r] = view[r]
<1> USE Revisions
<1>1. view \in [Rows -> 0 .. Final]
  BY DEF ShapeInv, StreamTypeOK
<1>2. CASE e.type = "SNAPSHOT"
  BY <1>1, <1>2 DEF Events, End, Apply, Touches, Gives
<1>3. CASE e.type = "UPSERT"
  BY <1>1, <1>3 DEF Events, End, Apply, Touches, Gives
<1>4. CASE e.type = "DELETE"
  BY <1>1, <1>4 DEF Events, End, Apply, Touches, Gives
<1>5. CASE e.type \in {"REJECTED", "END"}
  BY <1>1, <1>5 DEF Events, End, Apply, Touches, Gives
<1> QED BY <1>2, <1>3, <1>4, <1>5 DEF Events, End

(* The steps of the connection and of the reader keep the shape.           *)
LEMMA ReaderShape ==
  ASSUME ShapeInv, CatchUp \/ ConnectionStep \/ KeepaliveFails \/ ReaderStep
  PROVE  ShapeInv'
<1> USE Revisions DEF ShapeInv, StreamTypeOK, QueueOK, RowsOK
<1>1. ASSUME NEW q, NEW e \in Events, NEW f \in Events,
             q = <<>> \/ q = <<e>> \/ q = <<e, f>>
      PROVE  /\ q \in Seq(Events) /\ Len(q) <= QueueLimit
             /\ \A i \in 1 .. Len(q) : q[i] \in {e, f}
             /\ q = <<e>> => \A i \in 1 .. Len(q) : q[i] = e
  <2>1. CASE q = <<>>
    BY <2>1
  <2>2. CASE q = <<e>>
    BY <2>2
  <2>3. CASE q = <<e, f>>
    BY <2>3
  <2> QED BY <1>1, <2>1, <2>2, <2>3
<1>2. CASE CatchUp
  <2>1. kind # "tail" /\ queue' = Reread
        /\ UNCHANGED <<kind, options, sub, gap, page, view, table, upsets>>
        /\ behind' = FALSE
    BY <1>2 DEF CatchUp
  <2>2. queue' \in Seq(Events) /\ Len(queue') <= QueueLimit
    BY <2>1, <1>1, OpeningCases
  <2>3. kind # "one" => \A i \in 1 .. Len(queue') : queue'[i].type # "END"
    <3>1. kind # "one" => queue' = <<Snapshot(table)>> /\ Snapshot(table) \in Events
      BY <2>1, OpeningCases
    <3>2. Snapshot(table).type # "END"
      BY DEF Snapshot
    <3>3. kind # "one" => \A i \in 1 .. Len(queue') : queue'[i] = Snapshot(table)
      BY <3>1, <1>1
    <3> QED BY <3>2, <3>3
  <2> QED BY <2>1, <2>2, <2>3
<1>3. CASE Break \/ GoSilent
  <2>1. page' # NoPage => kind = "tail" /\ page' \in Pages /\ page'.current = FALSE
    BY <1>3 DEF Break, GoSilent, StalePage, Pages
  <2>2. <<>> \in Seq(Events) /\ Len(<<>>) = 0 /\ \A i \in 1 .. 0 : FALSE
    OBVIOUS
  <2>3. /\ queue' = <<>> /\ behind' = FALSE /\ upsets' \in 0 .. MaxUpsets
        /\ sub' \in {"broken", "silent"} /\ sub = "open"
        /\ UNCHANGED <<kind, options, gap, view, table>>
    BY <1>3 DEF Break, GoSilent, Lost
  <2>4. QueueOK'
    <3>1. queue' \in Seq(Events) /\ Len(queue') = 0 /\ Len(queue') <= QueueLimit
      BY <2>2, <2>3
    <3>2. page' # NoPage => ~page'.current
      BY <2>1
    <3>3. \A i \in 1 .. Len(queue') : FALSE
      BY <2>2, <2>3
    <3> QED BY <2>1, <2>3, <3>1, <3>2, <3>3
  <2>5. StreamTypeOK' /\ RowsOK'
    BY <2>2, <2>3
  <2> QED BY <2>4, <2>5
<1>4. CASE KeepaliveFails
  BY <1>4 DEF KeepaliveFails
<1>5. CASE Subscribe
  <2>1. CASE sub' = "ended" /\ UNCHANGED <<queue, gap>> /\ kind = "one"
    BY <1>5, <2>1 DEF Subscribe
  <2>2. CASE sub' = "open" /\ queue' = Opening /\ gap' = (kind = "tail")
    <3>1. queue' \in Seq(Events) /\ Len(queue') <= QueueLimit
      BY <2>2, <1>1, OpeningCases
    <3>2. Snapshot(table).type # "END"
      BY DEF Snapshot
    <3>3. kind # "one" => \A i \in 1 .. Len(queue') : queue'[i].type # "END"
      BY <2>2, <3>2, OpeningCases
    <3>4. kind = "tail" => queue' = <<>>
      BY <2>2, OpeningCases
    <3> QED BY <1>5, <2>2, <3>1, <3>3, <3>4 DEF Subscribe
  <2> QED BY <1>5, <2>1, <2>2 DEF Subscribe
<1>6. CASE Take
  <2>1. /\ Head(queue) \in Events /\ Head(queue) = queue[1] /\ 1 \in 1 .. Len(queue)
        /\ Tail(queue) \in Seq(Events) /\ Len(Tail(queue)) = Len(queue) - 1
        /\ \A i \in 1 .. Len(Tail(queue)) :
             Tail(queue)[i] = queue[i + 1] /\ i + 1 \in 1 .. Len(queue)
    BY <1>6 DEF Take
  <2>4. /\ kind = "tail" => Head(queue).type = "UPSERT"
        /\ kind # "one" => Head(queue).type # "END"
    BY <2>1
  <2>2. view' \in [Rows -> 0 .. Final]
        /\ (Head(queue) = End => kind = "one")
    <3>1. /\ Apply(Head(queue)) \in [Rows -> 0 .. Final]
          /\ Head(queue) = End => Head(queue).type = "END"
      BY <2>1, <2>4, ApplyType
    <3> QED BY <1>6, <2>4, <3>1 DEF Take
  <2>3. /\ queue' \in Seq(Events) /\ Len(queue') <= QueueLimit
        /\ kind = "tail" => \A i \in 1 .. Len(queue') : queue'[i].type = "UPSERT"
        /\ kind # "one" => \A i \in 1 .. Len(queue') : queue'[i].type # "END"
    <3>1. CASE queue' = <<>>
      BY <3>1
    <3>2. CASE queue' = Tail(queue)
      BY <2>1, <3>2
    <3> QED BY <1>6, <3>1, <3>2 DEF Take
  <2> QED BY <1>6, <2>2, <2>3 DEF Take
<1>7. CASE Query
  <2>1. page' \in Pages /\ page'.current = (sub = "open")
    BY <1>7, ShownType DEF Query, Pages
  <2> QED BY <1>7, <2>1 DEF Query
<1>8. CASE ReadPage
  <2>1. view' \in [Rows -> 0 .. Final]
    BY <1>8 DEF ReadPage, Pages
  <2> QED BY <1>8, <2>1 DEF ReadPage, Pages
<1> QED BY <1>2, <1>3, <1>4, <1>5, <1>6, <1>7, <1>8 DEF ConnectionStep, ReaderStep

(* The type invariant of the streams, with what each kind never has.       *)
LEMMA Shape == StreamSpec => []ShapeInv
<1>1. StreamInit => ShapeInv
  <2>1. <<>> \in Seq(Events) /\ Len(<<>>) = 0 /\ \A i \in 1 .. 0 : FALSE
    OBVIOUS
  <2>2. StreamInit => StreamTypeOK /\ RowsOK
    BY Revisions DEF StreamInit, StreamTypeOK, RowsOK
  <2>3. StreamInit => QueueOK
    <3> SUFFICES ASSUME StreamInit PROVE QueueOK
      OBVIOUS
    <3>1. /\ queue = <<>> /\ behind = FALSE /\ gap = FALSE /\ page = NoPage
          /\ sub = "closed" /\ Len(queue) = 0
      BY <2>1 DEF StreamInit
    <3>2. Len(queue) <= QueueLimit
      BY <3>1, Revisions
    <3> QED BY <2>1, <3>1, <3>2 DEF QueueOK
  <2> QED BY <2>2, <2>3 DEF ShapeInv
<1>2. ShapeInv /\ [StreamNext]_streamVars => ShapeInv'
  <2> SUFFICES ASSUME ShapeInv, [StreamNext]_streamVars PROVE ShapeInv'
    OBVIOUS
  <2>1. CASE UNCHANGED streamVars
    BY <2>1 DEF ShapeInv, StreamTypeOK, QueueOK, RowsOK
  <2> QED BY <2>1, FeedShape, ReaderShape DEF StreamNext
<1> QED BY <1>1, <1>2, PTL DEF StreamSpec

(* The type invariant of the streams.                                      *)
THEOREM StreamTypes == StreamSpec => []StreamTypeOK
<1>1. ShapeInv => StreamTypeOK
  BY DEF ShapeInv
<1> QED BY <1>1, Shape, PTL

-----------------------------------------------------------------------------
(* A row of a tail is never replaced by an older revision of itself: pages *)
(* and events may overtake each other, and neither takes a row back.       *)
THEOREM TailOnlyAdvances == StreamSpec => TailNeverOlder
<1>1. ShapeInv /\ [StreamNext]_streamVars
        => [kind = "tail" => \A r \in Rows : view'[r] >= view[r]]_streamVars
  <2> SUFFICES ASSUME ShapeInv, StreamNext, kind = "tail", NEW r \in Rows
               PROVE  view'[r] >= view[r]
    OBVIOUS
  <2>1. view[r] \in 0 .. Final
    BY DEF ShapeInv, StreamTypeOK
  <2>2. CASE Take
    <3>1. Head(queue) \in Events /\ Head(queue).type = "UPSERT"
      BY <2>2 DEF Take, ShapeInv, QueueOK
    <3> QED BY <2>2, <3>1, ApplyType DEF Take
  <2>3. CASE ReadPage
    BY <2>1, <2>3, Revisions DEF ReadPage, ShapeInv, QueueOK, Pages
  <2>4. CASE UNCHANGED view
    BY <2>1, <2>4, Revisions
  <2> QED BY <2>2, <2>3, <2>4 DEF StreamNext, FeedStep, ConnectionStep, ReaderStep,
        Change, Finish, RefuseLate, RefreshStore, CatchUp, Break, GoSilent,
        KeepaliveFails, Subscribe, Query
<1> QED BY <1>1, Shape, PTL DEF StreamSpec, TailNeverOlder

-----------------------------------------------------------------------------
(* What a reader comes to hold: streams that open on a snapshot.           *)

Gone == kind = "one" /\ table[Watched] = Forgotten

(* The events on their way bring the reader up to date, unless it has      *)
(* fallen behind or its order is gone.                                     *)
FeedInv ==
  kind # "tail" /\ sub = "open" /\ ~behind /\ ~Gone =>
    \A r \in Rows : ComesTo(view[r], queue, r, ShownIn(table)[r])

HasEnd(q) == \E i \in 1 .. Len(q) : q[i].type = "END"
EndsOnce(q) == \A i \in 1 .. Len(q) : q[i].type = "END" => i = Len(q)

(* A watch_order's reader holds no other row.  The end comes last, behind  *)
(* the order's terminal state unless the order is gone.                    *)
OneInv ==
  kind = "one" =>
    /\ \A r \in Rows \ {Watched} :
         view[r] = 0 /\ \A i \in 1 .. Len(queue) : ~Touches(queue[i], r) \/ Gives(queue[i], r) = 0
    /\ sub = "open" /\ ~behind /\ Gone => HasEnd(queue)
    /\ sub = "open" /\ HasEnd(queue) =>
         /\ EndsOnce(queue)
         /\ \/ Gone
            \/ table[Watched] = Final /\ ComesTo(view[Watched], queue, Watched, Final)

EndedInv ==
  sub = "ended" => kind = "one" /\ (view[Watched] = Final \/ Gone)

UpToDateInv == FeedInv /\ OneInv /\ EndedInv

(* The end touches no row; it is the only event of its type.               *)
LEMMA EndIsQuiet ==
  /\ End \in Events /\ End.type = "END" /\ \A r : ~Touches(End, r)
  /\ \A e \in Events : e.type = "END" => e = End
  BY DEF End, Events, Touches

(* An event that says of each row it touches what the gateway now holds,   *)
(* and touches each row that has changed, keeps a reader up to date.       *)
LEMMA EmitKeepsUp ==
  ASSUME ShapeInv, FeedInv, ~Gone, kind # "tail", UNCHANGED <<kind, sub, view>>,
         NEW e \in Events, Emit(<<e>>) \/ Emit(<<e, End>>),
         \A r \in Rows :
           \/ Touches(e, r) /\ Gives(e, r) = ShownIn(table')[r]
           \/ ~Touches(e, r) /\ ShownIn(table')[r] = ShownIn(table)[r]
  PROVE  FeedInv'
<1>1. ShownIn(table)' = ShownIn(table')
  BY DEF ShownIn
<1>2. CASE sub # "open" \/ behind'
  BY <1>2 DEF FeedInv
<1>3. CASE sub = "open" /\ ~behind /\ UNCHANGED behind
           /\ queue' \in {Append(queue, e), Append(Append(queue, e), End)}
  <2>1. queue \in Seq(Events) /\ Append(queue, e) \in Seq(Events)
    BY DEF ShapeInv, QueueOK
  <2>2. ASSUME NEW r \in Rows PROVE ComesTo(view[r], queue', r, ShownIn(table')[r])
    <3>1. ComesTo(view[r], queue, r, ShownIn(table)[r])
      BY <1>3 DEF FeedInv
    <3>2. ComesTo(view[r], Append(queue, e), r, ShownIn(table')[r])
      BY <2>1, <3>1, ComesToAppend
    <3>3. ComesTo(view[r], Append(Append(queue, e), End), r, ShownIn(table')[r])
      BY <2>1, <3>2, ComesToAppend, EndIsQuiet
    <3> QED BY <1>3, <3>2, <3>3
  <2>3. \A r \in Rows : ComesTo(view[r], queue, r, ShownIn(table)[r])'
    BY <1>1, <2>2 DEF ComesTo
  <2> QED BY <2>3 DEF FeedInv
<1> QED BY <1>2, <1>3, EmitCases

(* Emitting an event about a watched order that is not at its end, and its *)
(* end with its terminal state, keeps what is known of a watch_order.      *)
LEMMA EmitOne ==
  ASSUME ShapeInv, OneInv, ~Gone, kind = "one", UNCHANGED <<kind, sub, view>>,
         table[Watched] # Final, table'[Watched] # Forgotten,
         NEW e \in Events, e.type = "UPSERT", e.row = Watched,
         \/ Emit(<<e>>)
         \/ Emit(<<e, End>>) /\ table'[Watched] = Final /\ e.rev = Final
  PROVE  OneInv'
<1>1. sub = "open" => ~HasEnd(queue)
  BY DEF OneInv
<1>2. queue \in Seq(Events) /\ Append(queue, e) \in Seq(Events)
  BY DEF ShapeInv, QueueOK
<1>3. ~Gone'
  BY DEF Gone
<1>4. \A r \in Rows \ {Watched} : ~Touches(e, r) /\ ~Touches(End, r)
  BY EndIsQuiet DEF Touches
<1>5. CASE UNCHANGED queue
  BY <1>1, <1>3, <1>5 DEF OneInv, Touches, Gives, HasEnd
<1>6. CASE queue' = Append(queue, e) /\ sub = "open"
  <2>1. \A i \in 1 .. Len(queue') :
          queue'[i] = e \/ (i \in 1 .. Len(queue) /\ queue'[i] = queue[i])
    BY <1>2, <1>6
  <2>2. ~HasEnd(queue')
    BY <1>1, <1>6, <2>1 DEF HasEnd
  <2>3. \A r \in Rows \ {Watched} :
          view'[r] = 0
          /\ \A i \in 1 .. Len(queue') : ~Touches(queue'[i], r) \/ Gives(queue'[i], r) = 0
    BY <1>4, <2>1 DEF OneInv
  <2> QED BY <1>3, <2>2, <2>3 DEF OneInv, Touches, Gives, HasEnd
<1>7. CASE /\ queue' = Append(Append(queue, e), End) /\ sub = "open"
           /\ table'[Watched] = Final /\ e.rev = Final
  <2>1. \A i \in 1 .. Len(queue') :
          \/ i = Len(queue') /\ queue'[i] = End
          \/ queue'[i] = e \/ (i \in 1 .. Len(queue) /\ queue'[i] = queue[i])
    BY <1>2, <1>7
  <2>2. EndsOnce(queue')
    BY <1>1, <1>7, <2>1 DEF HasEnd, EndsOnce
  <2>3. ComesTo(view[Watched], Append(queue, e), Watched, Final)
    BY <1>2, <1>7, ComesToAppend DEF Touches, Gives
  <2>4. ComesTo(view[Watched], queue', Watched, Final)
    BY <1>2, <1>7, <2>3, ComesToAppend, EndIsQuiet
  <2>5. \A r \in Rows \ {Watched} :
          view'[r] = 0
          /\ \A i \in 1 .. Len(queue') : ~Touches(queue'[i], r) \/ Gives(queue'[i], r) = 0
    BY <1>4, <2>1 DEF OneInv
  <2> QED BY <1>3, <1>7, <2>2, <2>4, <2>5 DEF OneInv, Touches, Gives, EndsOnce, ComesTo
<1>8. Emit(<<e>>) => queue' \in {queue, Append(queue, e)}
  BY <1>2, QueueGrows DEF Emit
<1>9. Emit(<<e, End>>) => queue' \in {queue, Append(Append(queue, e), End)}
  BY <1>2, QueueGrows DEF Emit
<1>10. queue' # queue => sub = "open"
  BY EmitCases
<1> QED BY <1>5, <1>6, <1>7, <1>8, <1>9, <1>10

(* What is shown of the rows, row by row, as one of them changes.          *)
LEMMA ShownAs ==
  ASSUME ShapeInv, NEW t \in [Rows -> 0 .. Forgotten], NEW r \in Rows
  PROVE  /\ kind # "one" => ShownIn(t)[r] = IF t[r] \in 1 .. MaxRev THEN t[r] ELSE 0
         /\ kind = "one" /\ r = Watched =>
              ShownIn(t)[r] = IF t[r] # Forgotten THEN t[r] ELSE 0
         /\ kind = "one" /\ r # Watched => ShownIn(t)[r] = 0
  BY DEF ShownIn

(* One row changes, and what is shown of the others stays.                 *)
LEMMA ShownMoves ==
  ASSUME ShapeInv, NEW r \in Rows, kind = "one" => r = Watched,
         table' \in [Rows -> 0 .. Forgotten], table'[r] \in 0 .. Final,
         \A x \in Rows : x # r => table'[x] = table[x]
  PROVE  /\ \A x \in Rows : x # r => ShownIn(table')[x] = ShownIn(table)[x]
         /\ kind = "one" => ShownIn(table')[r] = table'[r]
         /\ kind # "one" =>
              ShownIn(table')[r] = IF table'[r] \in 1 .. MaxRev THEN table'[r] ELSE 0
<1>1. table \in [Rows -> 0 .. Forgotten]
  BY DEF ShapeInv, StreamTypeOK
<1>2. ASSUME NEW x \in Rows, x # r PROVE ShownIn(table')[x] = ShownIn(table)[x]
  BY <1>1, <1>2, ShownAs
<1>3. table'[r] # Forgotten
  BY Revisions
<1> QED BY <1>2, <1>3, ShownAs

(* A queue of one snapshot, with the end behind it or not, brings every    *)
(* row to what is shown.                                                   *)
LEMMA SnapshotSays ==
  ASSUME ShapeInv, NEW t \in [Rows -> 0 .. Forgotten], NEW r \in Rows, NEW v
  PROVE  /\ ComesTo(v, <<Snapshot(t)>>, r, ShownIn(t)[r])
         /\ ComesTo(v, <<Snapshot(t), End>>, r, ShownIn(t)[r])
<1>1. Snapshot(t) \in Events /\ <<>> \in Seq(Events) /\ End \in Events
  BY ShownType, EndIsQuiet
<1>2. Touches(Snapshot(t), r) /\ Gives(Snapshot(t), r) = ShownIn(t)[r]
  BY DEF Snapshot, Touches, Gives
<1> HIDE DEF Snapshot
<1>3. /\ <<Snapshot(t)>> = Append(<<>>, Snapshot(t))
      /\ <<Snapshot(t), End>> = Append(<<Snapshot(t)>>, End)
      /\ <<Snapshot(t)>> \in Seq(Events)
  BY <1>1
<1>4. ComesTo(v, <<Snapshot(t)>>, r, ShownIn(t)[r])
  BY <1>1, <1>2, <1>3, ComesToAppend
<1> QED BY <1>1, <1>3, <1>4, ComesToAppend, EndIsQuiet

(* A step of the feed keeps the reader up to date, or puts it behind.      *)
LEMMA FeedKeeps ==
  ASSUME ShapeInv, UpToDateInv, FeedStep
  PROVE  UpToDateInv'
<1> USE Revisions
<1>0. table \in [Rows -> 0 .. Forgotten] /\ FeedInv /\ OneInv /\ EndedInv
  BY DEF ShapeInv, StreamTypeOK, UpToDateInv
<1>1. ASSUME kind = "latest", EmitLatest, UNCHANGED <<kind, sub, view>>,
             table' \in [Rows -> 0 .. Forgotten]
      PROVE  UpToDateInv'
  <2>1. sub = "open" => queue' = <<Snapshot(table')>>
    BY <1>1 DEF EmitLatest
  <2>2. ShownIn(table)' = ShownIn(table')
    BY <1>1 DEF ShownIn
  <2>3. sub = "open" => \A r \in Rows : ComesTo(view[r], queue', r, ShownIn(table')[r])
    BY <1>1, <2>1, SnapshotSays
  <2>4. FeedInv'
    BY <1>1, <2>2, <2>3 DEF FeedInv, ComesTo
  <2> QED BY <1>0, <1>1, <2>4 DEF UpToDateInv, OneInv, EndedInv
<1>2. ASSUME NEW r \in Rows, Change(r) PROVE UpToDateInv'
  <2>1. table[r] \in 0 .. MaxRev - 1 /\ table' = [table EXCEPT ![r] = table[r] + 1]
        /\ UNCHANGED <<kind, options, sub, view, upsets>> /\ (kind = "one" => r = Watched)
    BY <1>0, <1>2 DEF Change, Relevant
  <2>2. table' \in [Rows -> 0 .. Forgotten] /\ ~Gone
    BY <1>0, <2>1 DEF Gone
  <2>3. EndedInv'
    BY <1>0, <2>1, <2>2 DEF EndedInv, Gone
  <2>4. CASE kind = "latest"
    BY <1>1, <1>2, <2>1, <2>2, <2>4 DEF Change
  <2>5. CASE kind # "latest"
    <3> DEFINE e == Upsert(r, table[r] + 1)
    <3>1. e \in Events /\ e.type = "UPSERT" /\ e.row = r /\ e.rev = table[r] + 1
      BY <2>1 DEF Upsert, Events
    <3>2. Emit(<<e>>)
      BY <1>2, <2>5 DEF Change
    <3> HIDE DEF e
    <3>3. ASSUME NEW x \in Rows
          PROVE  \/ Touches(e, x) /\ Gives(e, x) = ShownIn(table')[x]
                 \/ ~Touches(e, x) /\ ShownIn(table')[x] = ShownIn(table)[x]
      <4>1. /\ x # r => ShownIn(table')[x] = ShownIn(table)[x]
            /\ ShownIn(table')[r] = table[r] + 1
        <5>1. /\ table'[r] = table[r] + 1 /\ table'[r] \in 0 .. Final
              /\ table'[r] \in 1 .. MaxRev /\ \A y \in Rows : y # r => table'[y] = table[y]
          BY <1>0, <2>1
        <5> QED BY <2>1, <2>2, <5>1, ShownMoves, Zenon
      <4> QED BY <3>1, <4>1 DEF Touches, Gives
    <3>4. kind # "tail" => FeedInv'
      BY <1>0, <2>1, <2>2, <3>1, <3>2, <3>3, EmitKeepsUp
    <3>5. kind = "tail" => FeedInv'
      BY <2>1 DEF FeedInv
    <3>6. OneInv'
      <4>1. CASE kind = "one"
        <5>1. e.row = Watched /\ table[Watched] # Final /\ table'[Watched] # Forgotten
          BY <1>0, <2>1, <3>1, <4>1
        <5> QED BY <1>0, <2>1, <2>2, <3>1, <3>2, <4>1, <5>1, EmitOne
      <4> QED BY <2>1, <4>1 DEF OneInv
    <3> QED BY <2>3, <3>4, <3>5, <3>6 DEF UpToDateInv
  <2> QED BY <2>4, <2>5
<1>3. ASSUME NEW r \in Rows, Finish(r) PROVE UpToDateInv'
  <2>1. kind # "tail" /\ table[r] \in 1 .. MaxRev /\ table' = [table EXCEPT ![r] = Final]
        /\ UNCHANGED <<kind, options, sub, view, upsets>> /\ (kind = "one" => r = Watched)
    BY <1>0, <1>3 DEF Finish, Relevant
  <2>2. table' \in [Rows -> 0 .. Forgotten] /\ ~Gone
    BY <1>0, <2>1 DEF Gone
  <2>3. EndedInv'
    BY <1>0, <2>1, <2>2 DEF EndedInv, Gone
  <2>4. CASE kind = "latest"
    BY <1>1, <1>3, <2>1, <2>2, <2>4 DEF Finish
  <2>5. CASE kind = "one"
    <3> DEFINE e == Upsert(r, Final)
    <3>1. e \in Events /\ e.type = "UPSERT" /\ e.row = r /\ e.rev = Final
      BY <2>1 DEF Upsert, Events
    <3>2. Emit(<<e, End>>)
      BY <1>3, <2>5 DEF Finish
    <3> HIDE DEF e
    <3>3. ASSUME NEW x \in Rows
          PROVE  \/ Touches(e, x) /\ Gives(e, x) = ShownIn(table')[x]
                 \/ ~Touches(e, x) /\ ShownIn(table')[x] = ShownIn(table)[x]
      <4>1. /\ x # r => ShownIn(table')[x] = ShownIn(table)[x]
            /\ ShownIn(table')[r] = Final
        <5>1. /\ table'[r] = Final /\ table'[r] \in 0 .. Final
              /\ table'[r] \notin 1 .. MaxRev /\ \A y \in Rows : y # r => table'[y] = table[y]
          BY <1>0, <2>1
        <5> QED BY <2>1, <2>2, <2>5, <5>1, ShownMoves, Zenon
      <4> QED BY <3>1, <4>1 DEF Touches, Gives
    <3>4. FeedInv'
      BY <1>0, <2>1, <2>2, <3>1, <3>2, <3>3, EmitKeepsUp
    <3>5. OneInv'
      <4>1. /\ e.row = Watched /\ table[Watched] # Final
            /\ table'[Watched] = Final /\ table'[Watched] # Forgotten
        BY <1>0, <2>1, <2>5, <3>1
      <4> QED BY <1>0, <2>1, <2>2, <2>5, <3>1, <3>2, <4>1, EmitOne
    <3> QED BY <2>3, <3>4, <3>5 DEF UpToDateInv
  <2>6. CASE kind \notin {"latest", "one"}
    <3>1. Delete(r) \in Events /\ Delete(r).type = "DELETE" /\ Delete(r).row = r
      BY DEF Delete, Events
    <3>2. Emit(<<Delete(r)>>)
      BY <1>3, <2>6 DEF Finish
    <3>3. ASSUME NEW x \in Rows
          PROVE  \/ Touches(Delete(r), x) /\ Gives(Delete(r), x) = ShownIn(table')[x]
                 \/ ~Touches(Delete(r), x) /\ ShownIn(table')[x] = ShownIn(table)[x]
      <4>1. /\ x # r => ShownIn(table')[x] = ShownIn(table)[x]
            /\ ShownIn(table')[r] = 0
        <5>1. /\ table'[r] = Final /\ table'[r] \in 0 .. Final
              /\ table'[r] \notin 1 .. MaxRev /\ \A y \in Rows : y # r => table'[y] = table[y]
          BY <1>0, <2>1
        <5> QED BY <2>1, <2>2, <2>6, <5>1, ShownMoves, Zenon
      <4> QED BY <3>1, <4>1 DEF Touches, Gives
    <3>4. FeedInv'
      BY <1>0, <2>1, <2>2, <3>1, <3>2, <3>3, EmitKeepsUp
    <3> QED BY <2>1, <2>3, <2>6, <3>4 DEF UpToDateInv, OneInv
  <2> QED BY <2>4, <2>5, <2>6
<1>4. ASSUME NEW r \in Rows, RefuseLate(r) PROVE UpToDateInv'
  <2>1. PICK n \in 1 .. Final : Emit(<<Rejected(r, n)>>)
    BY <1>0, <1>4 DEF RefuseLate
  <2>2. kind = "view" /\ UNCHANGED <<kind, sub, view, table>>
    BY <1>4 DEF RefuseLate
  <2>3. Rejected(r, n) \in Events /\ \A x \in Rows : ~Touches(Rejected(r, n), x)
    BY DEF Rejected, Events, Touches
  <2>4. FeedInv'
    BY <1>0, <2>1, <2>2, <2>3, EmitKeepsUp DEF Gone
  <2> QED BY <1>0, <2>2, <2>4 DEF UpToDateInv, OneInv, EndedInv
<1>5. CASE RefreshStore
  <2>1. /\ kind = "one" /\ behind' = (sub = "open")
        /\ UNCHANGED <<kind, sub, queue, view>>
        /\ UNCHANGED table \/ (table[Watched] \in 1 .. Final
                               /\ table' = [table EXCEPT ![Watched] = Forgotten])
    BY <1>5 DEF RefreshStore
  <2>2. FeedInv' /\ EndedInv'
    BY <1>0, <2>1 DEF FeedInv, EndedInv, Gone
  <2>3. Gone \/ Gone' \/ UNCHANGED table
    BY <1>0, <2>1 DEF Gone
  <2>4. Gone => Gone'
    BY <1>0, <2>1 DEF Gone
  <2>5. OneInv'
    <3>1. /\ \A x \in Rows \ {Watched} :
               view[x] = 0
               /\ \A i \in 1 .. Len(queue) : ~Touches(queue[i], x) \/ Gives(queue[i], x) = 0
          /\ sub = "open" /\ HasEnd(queue) =>
               /\ EndsOnce(queue)
               /\ Gone' \/ (table'[Watched] = Final /\ ComesTo(view[Watched], queue, Watched, Final))
      BY <1>0, <2>1, <2>3, <2>4 DEF OneInv
    <3>2. queue' = queue /\ view' = view /\ sub' = sub /\ (sub = "open" => behind')
      BY <2>1
    <3> QED BY <3>1, <3>2 DEF OneInv, HasEnd, EndsOnce, Touches, Gives, ComesTo
  <2> QED BY <2>2, <2>5 DEF UpToDateInv
<1> QED BY <1>2, <1>3, <1>4, <1>5 DEF FeedStep

(* A queue a stream opens on, or that makes good what a reader missed,     *)
(* brings it up to date.                                                   *)
LEMMA FreshQueue ==
  ASSUME ShapeInv, kind # "tail", NEW q,
         \A r \in Rows \ {Watched} : kind = "one" => view[r] = 0,
         \/ q = <<Snapshot(table)>> /\ ~Gone
         \/ q = <<Snapshot(table), End>> /\ kind = "one" /\ table[Watched] = Final
         \/ q = <<Upsert(Watched, Final), End>> /\ kind = "one" /\ table[Watched] = Final
  PROVE  /\ \A r \in Rows : ComesTo(view[r], q, r, ShownIn(table)[r])
         /\ kind = "one" => \A r \in Rows \ {Watched}, i \in 1 .. Len(q) :
              ~Touches(q[i], r) \/ Gives(q[i], r) = 0
         /\ HasEnd(q) => /\ EndsOnce(q) /\ table[Watched] = Final
                         /\ ComesTo(view[Watched], q, Watched, Final)
<1> USE Revisions
<1>0. table \in [Rows -> 0 .. Forgotten]
  BY DEF ShapeInv, StreamTypeOK
<1>1. kind = "one" => \A r \in Rows \ {Watched} :
        ~Touches(Snapshot(table), r) \/ Gives(Snapshot(table), r) = 0
  BY <1>0, ShownAs DEF Snapshot, Touches, Gives
<1>2. kind = "one" /\ table[Watched] = Final => ShownIn(table)[Watched] = Final
  BY <1>0, ShownAs
<1>3. Snapshot(table).type # "END" /\ End.type = "END" /\ \A r : ~Touches(End, r)
  BY EndIsQuiet DEF Snapshot
<1>4. CASE q = <<Snapshot(table)>> /\ ~Gone
  <2>1. \A r \in Rows : ComesTo(view[r], q, r, ShownIn(table)[r])
    BY <1>0, <1>4, SnapshotSays
  <2>2. \A i \in 1 .. Len(q) : q[i] = Snapshot(table)
    BY <1>4
  <2>3. ~HasEnd(q)
    BY <1>3, <2>2 DEF HasEnd
  <2> QED BY <1>1, <2>1, <2>2, <2>3
<1>5. CASE q = <<Snapshot(table), End>> /\ kind = "one" /\ table[Watched] = Final
  <2>1. \A r \in Rows : ComesTo(view[r], q, r, ShownIn(table)[r])
    BY <1>0, <1>5, SnapshotSays
  <2>2. Len(q) = 2 /\ q[1] = Snapshot(table) /\ q[2] = End
    BY <1>5
  <2>3. EndsOnce(q)
    BY <1>3, <2>2 DEF EndsOnce
  <2>4. \A r \in Rows \ {Watched}, i \in 1 .. Len(q) :
          ~Touches(q[i], r) \/ Gives(q[i], r) = 0
    BY <1>1, <1>3, <1>5, <2>2
  <2> QED BY <1>2, <1>5, <2>1, <2>3, <2>4
<1>6. CASE q = <<Upsert(Watched, Final), End>> /\ kind = "one" /\ table[Watched] = Final
  <2> DEFINE e == Upsert(Watched, Final)
  <2>1. /\ e.type = "UPSERT" /\ Touches(e, Watched) /\ Gives(e, Watched) = Final
        /\ \A r \in Rows \ {Watched} : ~Touches(e, r)
    BY DEF Upsert, Touches, Gives
  <2>2. Len(q) = 2 /\ q[1] = e /\ q[2] = End
    BY <1>6
  <2> HIDE DEF e
  <2>3. ComesTo(view[Watched], q, Watched, Final)
    BY <1>3, <2>1, <2>2 DEF ComesTo
  <2>4. ASSUME NEW r \in Rows \ {Watched} PROVE ComesTo(view[r], q, r, ShownIn(table)[r])
    <3>1. ShownIn(table)[r] = 0 /\ view[r] = 0
      BY <1>0, <1>6, ShownAs
    <3>2. \A i \in 1 .. Len(q) : ~Touches(q[i], r)
      BY <1>3, <2>1, <2>2
    <3> QED BY <3>1, <3>2 DEF ComesTo
  <2>5. EndsOnce(q)
    BY <2>1, <2>2 DEF EndsOnce
  <2>6. \A r \in Rows \ {Watched}, i \in 1 .. Len(q) : ~Touches(q[i], r)
    BY <1>3, <2>1, <2>2
  <2> QED BY <1>2, <1>6, <2>3, <2>4, <2>5, <2>6
<1> QED BY <1>4, <1>5, <1>6

(* A reader that opens its stream or is sent what it missed is brought up  *)
(* to date.                                                                *)
LEMMA OpeningKeeps ==
  ASSUME ShapeInv, UpToDateInv, CatchUp \/ Subscribe
  PROVE  UpToDateInv'
<1> USE Revisions
<1>0. FeedInv /\ OneInv /\ EndedInv
  BY DEF UpToDateInv
<1>1. ASSUME NEW q, queue' = q, sub' = "open", UNCHANGED <<kind, view, table>>, kind # "tail",
             \/ q = <<Snapshot(table)>> /\ ~Gone
             \/ q = <<Snapshot(table), End>> /\ kind = "one" /\ table[Watched] = Final
             \/ q = <<Upsert(Watched, Final), End>> /\ kind = "one" /\ table[Watched] = Final
      PROVE  UpToDateInv'
  <2>1. \A r \in Rows \ {Watched} : kind = "one" => view[r] = 0
    BY <1>0 DEF OneInv
  <2>2. /\ \A r \in Rows : ComesTo(view[r], q, r, ShownIn(table)[r])
        /\ kind = "one" => \A r \in Rows \ {Watched}, i \in 1 .. Len(q) :
             ~Touches(q[i], r) \/ Gives(q[i], r) = 0
        /\ HasEnd(q) => /\ EndsOnce(q) /\ table[Watched] = Final
                        /\ ComesTo(view[Watched], q, Watched, Final)
    BY <1>1, <2>1, FreshQueue
  <2>3. ShownIn(table)' = ShownIn(table) /\ Gone' = Gone
    BY <1>1 DEF ShownIn, Gone
  <2>4. ~Gone
    BY <1>1 DEF Gone
  <2>5. FeedInv'
    BY <1>1, <2>2, <2>3 DEF FeedInv, ComesTo
  <2>6. OneInv'
    BY <1>1, <2>1, <2>2, <2>3, <2>4 DEF OneInv, HasEnd, EndsOnce, ComesTo, Touches, Gives
  <2> QED BY <1>1, <2>5, <2>6 DEF UpToDateInv, EndedInv
<1>2. CASE CatchUp
  <2>1. /\ sub = "open" /\ queue' = Reread /\ kind # "tail"
        /\ UNCHANGED <<kind, options, sub, gap, page, view, table, upsets>>
    BY <1>2 DEF CatchUp, ShapeInv, QueueOK
  <2>2. CASE kind = "one" /\ table[Watched] = Forgotten /\ Reread = <<End>>
    <3>1. Len(queue') = 1 /\ queue'[1] = End /\ 1 \in 1 .. 1
      BY <2>1, <2>2
    <3>2. HasEnd(queue') /\ EndsOnce(queue')
          /\ \A r \in Rows, i \in 1 .. Len(queue') : ~Touches(queue'[i], r)
      BY <3>1, EndIsQuiet DEF HasEnd, EndsOnce
    <3>3. Gone /\ Gone'
      BY <2>1, <2>2 DEF Gone
    <3>4. OneInv'
      BY <1>0, <2>1, <3>2, <3>3 DEF OneInv, HasEnd, EndsOnce, Touches
    <3> QED BY <2>1, <3>3, <3>4 DEF UpToDateInv, FeedInv, EndedInv
  <2>3. CASE ~(kind = "one" /\ table[Watched] = Forgotten)
    BY <1>1, <2>1, <2>3, OpeningCases DEF Gone
  <2> QED BY <2>2, <2>3, OpeningCases
<1>3. CASE Subscribe
  <2>1. CASE kind = "one" /\ table[Watched] = Forgotten
    <3>1. sub' = "ended" /\ UNCHANGED <<kind, queue, behind, view, table>>
      BY <1>3, <2>1 DEF Subscribe
    <3>2. OneInv'
      BY <1>0, <3>1 DEF OneInv, Touches, Gives
    <3> QED BY <2>1, <3>1, <3>2 DEF UpToDateInv, FeedInv, EndedInv, Gone
  <2>2. CASE ~(kind = "one" /\ table[Watched] = Forgotten)
    <3>1. sub' = "open" /\ queue' = Opening /\ UNCHANGED <<kind, view, table>>
      BY <1>3, <2>2 DEF Subscribe
    <3>2. CASE kind = "tail"
      BY <3>1, <3>2 DEF UpToDateInv, FeedInv, OneInv, EndedInv
    <3>3. CASE kind # "tail"
      BY <1>1, <2>2, <3>1, <3>3, OpeningCases DEF Gone
    <3> QED BY <3>2, <3>3
  <2> QED BY <2>1, <2>2
<1> QED BY <1>2, <1>3

(* Taking what was sent, a stream that breaks, and what only a tail's      *)
(* reader does keep what is known of the other streams.                    *)
LEMMA TakingKeeps ==
  ASSUME ShapeInv, UpToDateInv,
         Take \/ ConnectionStep \/ KeepaliveFails \/ Query \/ ReadPage
  PROVE  UpToDateInv'
<1>0. FeedInv /\ OneInv /\ EndedInv /\ queue \in Seq(Events)
  BY DEF UpToDateInv, ShapeInv, QueueOK
<1>1. CASE kind = "tail"
  <2>1. kind' = "tail" /\ (sub' = "ended" => sub = "ended" \/ (Take /\ Head(queue) = End))
    BY <1>1 DEF Take, ConnectionStep, Break, GoSilent, KeepaliveFails, Query, ReadPage
  <2>2. Take => Head(queue) # End
    <3>1. Take => Head(queue).type = "UPSERT"
      BY <1>0, <1>1 DEF Take, ShapeInv, QueueOK
    <3> QED BY <3>1 DEF End
  <2>3. sub # "ended"
    BY <1>0, <1>1 DEF EndedInv
  <2> QED BY <2>1, <2>2, <2>3 DEF UpToDateInv, FeedInv, OneInv, EndedInv
<1>2. CASE ConnectionStep \/ KeepaliveFails
  <2>1. /\ sub' \in {"silent", "broken"} /\ queue' \in {queue, <<>>}
        /\ UNCHANGED <<kind, view, table>>
    BY <1>2 DEF ConnectionStep, Break, GoSilent, Lost, KeepaliveFails
  <2>2. \A r \in Rows, i \in 1 .. Len(queue') :
          /\ i \in 1 .. Len(queue) /\ queue'[i] = queue[i]
    BY <2>1
  <2>3. OneInv'
    BY <1>0, <2>1, <2>2 DEF OneInv, Touches, Gives
  <2> QED BY <2>1, <2>3 DEF UpToDateInv, FeedInv, EndedInv
<1>3. CASE Query \/ ReadPage
  BY <1>1, <1>3 DEF Query, ReadPage, ShapeInv, QueueOK
<1>4. CASE kind # "tail" /\ Take
  <2> DEFINE e == Head(queue)
  <2>1. /\ e \in Events /\ e = queue[1] /\ 1 \in 1 .. Len(queue) /\ queue # <<>>
        /\ Tail(queue) \in Seq(Events) /\ Len(Tail(queue)) = Len(queue) - 1
        /\ Len(queue) \in Nat
        /\ \A i \in 1 .. Len(Tail(queue)) :
             Tail(queue)[i] = queue[i + 1] /\ i + 1 \in 1 .. Len(queue)
    BY <1>0, <1>4 DEF Take
  <2>2. /\ view' = Apply(e) /\ sub = "open" /\ UNCHANGED <<kind, table>>
        /\ IF e = End THEN sub' = "ended" /\ queue' = <<>>
           ELSE queue' = Tail(queue) /\ UNCHANGED <<sub, behind>>
    BY <1>4 DEF Take
  <2> HIDE DEF e
  <2>3. \A r \in Rows : view'[r] = IF Touches(e, r) THEN Gives(e, r) ELSE view[r]
    BY <1>4, <2>1, <2>2, ApplyType
  <2>4. ASSUME NEW r \in Rows, NEW n, ComesTo(view[r], queue, r, n)
        PROVE  ComesTo(view'[r], Tail(queue), r, n)
    BY <2>1, <2>3, <2>4, ComesToTail DEF e
  <2>5. CASE e = End
    <3>1. kind = "one" /\ HasEnd(queue)
      BY <1>4, <2>1, <2>5, EndIsQuiet DEF HasEnd, ShapeInv, QueueOK
    <3>2. Len(queue) = 1
      BY <1>0, <2>1, <2>2, <2>5, <3>1, EndIsQuiet DEF OneInv, EndsOnce
    <3>3. Tail(queue) = <<>>
      BY <2>1, <3>2
    <3>4. Gone \/ view'[Watched] = Final
      <4>1. Gone \/ ComesTo(view[Watched], queue, Watched, Final)
        BY <1>0, <2>2, <3>1 DEF OneInv
      <4>2. ASSUME ComesTo(view[Watched], queue, Watched, Final)
            PROVE  view'[Watched] = Final
        <5>1. ComesTo(view'[Watched], Tail(queue), Watched, Final)
          BY <2>4, <4>2
        <5>2. ComesTo(view'[Watched], <<>>, Watched, Final)
          BY <3>3, <5>1
        <5> QED BY <5>2 DEF ComesTo
      <4> QED BY <4>1, <4>2
    <3>5. \A r \in Rows \ {Watched} : view'[r] = 0
      BY <1>0, <2>3, <2>5, <3>1, EndIsQuiet DEF OneInv
    <3>6. \A i \in 1 .. Len(queue') : FALSE
      BY <2>2, <2>5
    <3>7. OneInv'
      BY <2>2, <2>5, <3>5, <3>6 DEF OneInv
    <3> QED BY <2>2, <2>5, <3>1, <3>4, <3>7 DEF UpToDateInv, FeedInv, EndedInv, Gone
  <2>6. CASE e # End
    <3>1. queue' = Tail(queue) /\ UNCHANGED <<sub, behind>>
      BY <2>2, <2>6
    <3>2. ShownIn(table)' = ShownIn(table) /\ Gone' = Gone
      BY <2>2 DEF ShownIn, Gone
    <3>3. kind # "tail" /\ sub = "open" /\ ~behind /\ ~Gone =>
            \A r \in Rows : ComesTo(view'[r], Tail(queue), r, ShownIn(table)[r])
      BY <1>0, <2>4 DEF FeedInv
    <3>4. FeedInv'
      BY <2>2, <3>1, <3>2, <3>3 DEF FeedInv, ComesTo
    <3>5. kind = "one" => \A r \in Rows \ {Watched} :
            view'[r] = 0
            /\ \A i \in 1 .. Len(queue') : ~Touches(queue'[i], r) \/ Gives(queue'[i], r) = 0
      BY <1>0, <2>1, <2>3, <3>1 DEF OneInv
    <3>6. e.type # "END"
      BY <2>1, <2>6, EndIsQuiet
    <3>7. HasEnd(queue) => HasEnd(Tail(queue))
      <4> SUFFICES ASSUME NEW i \in 1 .. Len(queue), queue[i].type = "END"
                   PROVE  HasEnd(Tail(queue))
        BY DEF HasEnd
      <4>1. i # 1
        BY <2>1, <3>6
      <4>2. i - 1 \in 1 .. Len(Tail(queue)) /\ Tail(queue)[i - 1] = queue[i]
        BY <2>1, <4>1
      <4> QED BY <4>2 DEF HasEnd
    <3>8. /\ HasEnd(Tail(queue)) => HasEnd(queue)
          /\ EndsOnce(queue) => EndsOnce(Tail(queue))
      <4>1. HasEnd(Tail(queue)) => HasEnd(queue)
        BY <2>1 DEF HasEnd
      <4>2. ASSUME EndsOnce(queue), NEW i \in 1 .. Len(Tail(queue)),
                   Tail(queue)[i].type = "END"
            PROVE  i = Len(Tail(queue))
        <5>1. i + 1 \in 1 .. Len(queue) /\ queue[i + 1].type = "END"
          BY <2>1, <4>2
        <5>2. i + 1 = Len(queue)
          BY <4>2, <5>1 DEF EndsOnce
        <5>3. i \in Int /\ Len(Tail(queue)) = Len(queue) - 1 /\ Len(queue) \in Nat
          BY <2>1
        <5> QED BY <5>2, <5>3
      <4> QED BY <4>1, <4>2 DEF EndsOnce
    <3>9. kind = "one" =>
            /\ ~behind /\ Gone => HasEnd(Tail(queue))
            /\ HasEnd(Tail(queue)) =>
                 /\ EndsOnce(Tail(queue))
                 /\ \/ Gone
                    \/ table[Watched] = Final
                       /\ ComesTo(view'[Watched], Tail(queue), Watched, Final)
      BY <1>0, <2>2, <2>4, <3>7, <3>8 DEF OneInv
    <3>10. OneInv'
      <4>1. /\ HasEnd(queue)' = HasEnd(Tail(queue)) /\ EndsOnce(queue)' = EndsOnce(Tail(queue))
            /\ ComesTo(view[Watched], queue, Watched, Final)'
                 = ComesTo(view'[Watched], Tail(queue), Watched, Final)
        BY <3>1 DEF HasEnd, EndsOnce, ComesTo
      <4>2. kind = "one" => \A r \in Rows \ {Watched} :
              (view[r] = 0
               /\ \A i \in 1 .. Len(queue) : ~Touches(queue[i], r) \/ Gives(queue[i], r) = 0)'
        BY <3>5 DEF Touches, Gives
      <4> QED BY <2>2, <3>1, <3>2, <3>9, <4>1, <4>2 DEF OneInv
    <3> QED BY <2>2, <3>1, <3>4, <3>10 DEF UpToDateInv, EndedInv
  <2> QED BY <2>5, <2>6
<1> QED BY <1>1, <1>2, <1>3, <1>4

(* Streams that open on a snapshot: what their readers come to hold.       *)
LEMMA UpToDate == StreamSpec => [](ShapeInv /\ UpToDateInv)
<1>1. StreamInit => UpToDateInv
  <2> SUFFICES ASSUME StreamInit PROVE UpToDateInv
    OBVIOUS
  <2>1. sub = "closed" /\ \A r \in Rows : view[r] = 0
    BY DEF StreamInit
  <2>2. \A i \in 1 .. Len(queue) : FALSE
    BY DEF StreamInit
  <2> QED BY <2>1, <2>2 DEF UpToDateInv, FeedInv, OneInv, EndedInv
<1>2. ShapeInv /\ UpToDateInv /\ [StreamNext]_streamVars => UpToDateInv'
  <2> SUFFICES ASSUME ShapeInv, UpToDateInv, [StreamNext]_streamVars PROVE UpToDateInv'
    OBVIOUS
  <2>1. CASE UNCHANGED streamVars
    BY <2>1 DEF UpToDateInv, FeedInv, OneInv, EndedInv, Gone, HasEnd, EndsOnce,
         ComesTo, Touches, Gives, ShownIn
  <2> QED BY <2>1, FeedKeeps, OpeningKeeps, TakingKeeps DEF StreamNext, ReaderStep
<1> QED BY <1>1, <1>2, Shape, PTL DEF StreamSpec

(* A watch_order that ends cleanly is done: its reader was shown the       *)
(* terminal state, or the gateway holds the order no more.                 *)
THEOREM CleanEnd == StreamSpec => []CleanEndIsDone
<1>1. UpToDateInv => CleanEndIsDone
  BY DEF UpToDateInv, EndedInv, CleanEndIsDone, Gone
<1> QED BY <1>1, UpToDate, PTL

-----------------------------------------------------------------------------
(* What a reader comes to hold: a tail, whose reader skips silently.       *)

(* Row r is held at the revision the gateway has, or that revision is on   *)
(* its way.                                                                *)
OnItsWay(r) ==
  \/ view[r] = table[r]
  \/ \E i \in 1 .. Len(queue) : queue[i].row = r /\ queue[i].rev = table[r]

(* Nothing held or on its way is ahead of the gateway.  A reader that has  *)
(* missed no row is on its way to each; one that may have, once it reads   *)
(* a page made since the last that it missed.                              *)
TailInv ==
  kind = "tail" =>
    /\ \A r \in Rows : view[r] <= table[r]
    /\ \A i \in 1 .. Len(queue) : queue[i].rev <= table[queue[i].row]
    /\ page # NoPage => \A r \in Rows : page.rows[r] <= table[r]
    /\ sub = "open" /\ ~gap => \A r \in Rows : OnItsWay(r)
    /\ page # NoPage /\ page.current =>
         \A r \in Rows : page.rows[r] = table[r] \/ OnItsWay(r)

(* What a tail's state is made of.                                         *)
LEMMA TailTypes ==
  ASSUME ShapeInv, kind = "tail"
  PROVE  /\ view \in [Rows -> 0 .. Final] /\ table \in [Rows -> 0 .. MaxRev]
         /\ queue \in Seq(Events) /\ Len(queue) \in Nat
         /\ \A i \in 1 .. Len(queue) :
              queue[i].type = "UPSERT" /\ queue[i].row \in Rows /\ queue[i].rev \in 1 .. Final
         /\ page # NoPage =>
              /\ page.rows \in [Rows -> 0 .. MaxRev] /\ page.current \in BOOLEAN
              /\ (page.current => sub = "open")
         /\ ~behind
<1>1. /\ view \in [Rows -> 0 .. Final] /\ table \in [Rows -> 0 .. Forgotten]
      /\ \A r \in Rows : table[r] <= MaxRev
      /\ queue \in Seq(Events) /\ Len(queue) \in Nat
  BY DEF ShapeInv, StreamTypeOK, QueueOK, RowsOK
<1>2. table \in [Rows -> 0 .. MaxRev]
  BY <1>1, Revisions
<1>3. ASSUME NEW i \in 1 .. Len(queue)
      PROVE  queue[i].type = "UPSERT" /\ queue[i].row \in Rows /\ queue[i].rev \in 1 .. Final
  <2>1. queue[i] \in Events /\ queue[i].type = "UPSERT"
    BY <1>1 DEF ShapeInv, QueueOK
  <2> QED BY <2>1 DEF Events, End
<1>4. page # NoPage =>
        /\ page.rows \in [Rows -> 0 .. MaxRev] /\ page.current \in BOOLEAN
        /\ (page.current => sub = "open")
  BY DEF ShapeInv, QueueOK, Pages
<1> QED BY <1>1, <1>2, <1>3, <1>4 DEF ShapeInv, QueueOK

(* A row that moves on is put on its way, or missed and known to be.       *)
LEMMA TailChange ==
  ASSUME ShapeInv, TailInv, kind = "tail", NEW r \in Rows, Change(r)
  PROVE  TailInv'
<1> DEFINE e == Upsert(r, table[r] + 1)
<1> USE Revisions
<1>1. /\ table[r] \in 0 .. MaxRev - 1 /\ table' = [table EXCEPT ![r] = table[r] + 1]
      /\ UNCHANGED <<kind, sub, view>> /\ Emit(<<e>>)
  BY TailTypes DEF Change
<1>2. e \in Events /\ e.type = "UPSERT" /\ e.row = r /\ e.rev = table[r] + 1
  BY <1>1 DEF Upsert, Events
<1> HIDE DEF e
<1>3. /\ table'[r] = table[r] + 1
      /\ \A x \in Rows : x # r => table'[x] = table[x]
      /\ \A x \in Rows : table'[x] >= table[x] /\ table[x] \in Nat /\ table'[x] \in Nat
  BY <1>1, TailTypes
<1>4. \A x \in Rows : view'[x] <= table'[x]
  <2> SUFFICES ASSUME NEW x \in Rows PROVE view[x] <= table'[x]
    BY <1>1
  <2>1. view[x] \in Int /\ view[x] <= table[x]
    BY TailTypes DEF TailInv
  <2> QED BY <1>3, <2>1
<1>5. ASSUME NEW i \in 1 .. Len(queue)
      PROVE  queue[i].rev <= table'[queue[i].row]
  <2>1. queue[i].row \in Rows /\ queue[i].rev \in Int /\ queue[i].rev <= table[queue[i].row]
    BY TailTypes DEF TailInv
  <2> QED BY <1>3, <2>1
<1>6. page # NoPage => \A x \in Rows : page.rows[x] <= table'[x]
  <2> SUFFICES ASSUME page # NoPage, NEW x \in Rows PROVE page.rows[x] <= table'[x]
    OBVIOUS
  <2>1. page.rows[x] \in Int /\ page.rows[x] <= table[x]
    BY TailTypes DEF TailInv
  <2> QED BY <1>3, <2>1
<1>7. CASE queue' = Append(queue, e) /\ UNCHANGED <<gap, page>>
  <2>1. /\ Len(queue') = Len(queue) + 1 /\ queue'[Len(queue) + 1] = e
        /\ \A i \in 1 .. Len(queue) : queue'[i] = queue[i]
        /\ \A i \in 1 .. Len(queue') : i \in 1 .. Len(queue) \/ i = Len(queue) + 1
        /\ Len(queue) + 1 \in 1 .. Len(queue')
        /\ \A i \in 1 .. Len(queue) : i \in 1 .. Len(queue')
    BY <1>2, <1>7, TailTypes
  <2>2. \A i \in 1 .. Len(queue') : queue'[i].rev <= table'[queue'[i].row]
    BY <1>2, <1>3, <1>5, <2>1
  <2>3. ASSUME NEW x \in Rows, OnItsWay(x) \/ x = r
        PROVE  OnItsWay(x)'
    <3>1. CASE x = r
      BY <1>2, <1>3, <2>1, <3>1 DEF OnItsWay
    <3>2. CASE x # r
      BY <1>1, <1>3, <2>1, <2>3, <3>2 DEF OnItsWay
    <3> QED BY <3>1, <3>2
  <2>4. (page # NoPage /\ page.current =>
           \A x \in Rows : page.rows[x] = table[x] \/ OnItsWay(x))'
    BY <1>3, <1>7, <2>3 DEF TailInv
  <2>5. (sub = "open" /\ ~gap => \A x \in Rows : OnItsWay(x))'
    BY <1>1, <1>7, <2>3 DEF TailInv
  <2> QED BY <1>4, <1>6, <1>7, <2>2, <2>4, <2>5 DEF TailInv
<1>8. CASE gap' = TRUE /\ UNCHANGED queue
           /\ \/ page' = page /\ sub # "open"
              \/ page' = IF page = NoPage THEN NoPage ELSE [page EXCEPT !.current = FALSE]
  <2>1. page' # NoPage => ~page'.current /\ page # NoPage /\ page'.rows = page.rows
    <3>1. page # NoPage => page \in Pages
      BY DEF ShapeInv, QueueOK
    <3> QED BY <1>8, <3>1, TailTypes DEF Pages
  <2>2. \A i \in 1 .. Len(queue') : queue'[i].rev <= table'[queue'[i].row]
    BY <1>5, <1>8
  <2> QED BY <1>4, <1>6, <1>8, <2>1, <2>2 DEF TailInv
<1>9. \/ queue' = queue \o <<e>> /\ UNCHANGED <<gap, page>>
      \/ gap' = TRUE /\ UNCHANGED <<queue, page>> /\ sub # "open"
      \/ /\ gap' = TRUE /\ UNCHANGED queue
         /\ page' = IF page = NoPage THEN NoPage ELSE [page EXCEPT !.current = FALSE]
  <2>1. <<e>> # <<>> /\ ~behind
    BY TailTypes
  <2> QED BY <1>1, <2>1 DEF Emit
<1>10. queue \o <<e>> = Append(queue, e)
  BY TailTypes, <1>2, QueueGrows
<1> QED BY <1>7, <1>8, <1>9, <1>10

(* What a tail's reader takes or reads it holds, and the rest stays on its *)
(* way.                                                                    *)
LEMMA TailReads ==
  ASSUME ShapeInv, TailInv, kind = "tail", Take \/ ReadPage \/ Query
  PROVE  TailInv'
<1> USE Revisions
<1>1. CASE Take
  <2> DEFINE e == Head(queue)
  <2>1. /\ e = queue[1] /\ 1 \in 1 .. Len(queue) /\ e \in Events
        /\ Len(Tail(queue)) = Len(queue) - 1 /\ Len(queue) \in Nat
        /\ \A i \in 1 .. Len(Tail(queue)) :
             Tail(queue)[i] = queue[i + 1] /\ i + 1 \in 1 .. Len(queue)
    BY <1>1, TailTypes DEF Take
  <2>2. e.type = "UPSERT" /\ e.row \in Rows /\ e.rev \in 1 .. Final
        /\ e.rev <= table[e.row]
    BY <2>1, TailTypes DEF TailInv
  <2>3. /\ view' = Apply(e) /\ queue' = Tail(queue)
        /\ UNCHANGED <<kind, sub, behind, gap, page, table>>
    BY <1>1, <2>2 DEF Take, End
  <2> HIDE DEF e
  <2>4. \A r \in Rows :
          /\ view'[r] \in {view[r], e.rev} /\ view'[r] >= view[r]
          /\ r = e.row => view'[r] >= e.rev
          /\ r # e.row => view'[r] = view[r]
    BY <2>1, <2>2, <2>3, ApplyType
  <2>5. \A r \in Rows : view[r] \in Int /\ table[r] \in Int /\ view[r] <= table[r]
    BY TailTypes DEF TailInv
  <2>6. \A r \in Rows : view'[r] <= table[r] /\ view'[r] \in Int
    BY <2>2, <2>4, <2>5
  <2>7. ASSUME NEW r \in Rows, OnItsWay(r) PROVE OnItsWay(r)'
    <3>1. CASE view[r] = table[r]
      BY <2>3, <2>4, <2>5, <2>6, <3>1 DEF OnItsWay
    <3>2. CASE e.row = r /\ e.rev = table[r]
      BY <2>2, <2>3, <2>4, <2>5, <2>6, <3>2 DEF OnItsWay
    <3>3. ASSUME NEW i \in 1 .. Len(queue), i # 1, queue[i].row = r, queue[i].rev = table[r]
          PROVE  OnItsWay(r)'
      <4>1. i - 1 \in 1 .. Len(queue') /\ queue'[i - 1] = queue[i]
        BY <2>1, <2>3, <3>3
      <4> QED BY <2>3, <3>3, <4>1 DEF OnItsWay
    <3> QED BY <2>1, <2>7, <3>1, <3>2, <3>3 DEF OnItsWay
  <2>8. \A i \in 1 .. Len(queue') : queue'[i].rev <= table'[queue'[i].row]
    BY <2>1, <2>3 DEF TailInv
  <2>9. (/\ sub = "open" /\ ~gap => \A r \in Rows : OnItsWay(r)
         /\ page # NoPage /\ page.current =>
              \A r \in Rows : page.rows[r] = table[r] \/ OnItsWay(r))'
    BY <2>3, <2>7 DEF TailInv
  <2>10. (page # NoPage => \A r \in Rows : page.rows[r] <= table[r])'
    BY <2>3 DEF TailInv
  <2> QED BY <2>3, <2>6, <2>8, <2>9, <2>10 DEF TailInv
<1>2. CASE ReadPage
  <2>1. /\ page # NoPage /\ page' = NoPage /\ gap' = (gap /\ ~page.current)
        /\ view' = [r \in Rows |-> IF page.rows[r] > view[r] THEN page.rows[r] ELSE view[r]]
        /\ UNCHANGED <<kind, sub, queue, table>>
    BY <1>2 DEF ReadPage
  <2>2. \A r \in Rows :
          /\ view[r] \in Int /\ table[r] \in Int /\ page.rows[r] \in Int
          /\ view[r] <= table[r] /\ page.rows[r] <= table[r]
    BY <2>1, TailTypes DEF TailInv
  <2>3. \A r \in Rows : view'[r] <= table[r]
    BY <2>1, <2>2
  <2>4. ASSUME NEW r \in Rows, page.rows[r] = table[r] \/ OnItsWay(r)
        PROVE  OnItsWay(r)'
    <3>1. page.rows[r] = table[r] \/ view[r] = table[r] => view'[r] = table[r]
      BY <2>1, <2>2
    <3> QED BY <2>1, <2>4, <3>1 DEF OnItsWay
  <2>5. (sub = "open" /\ ~gap => \A r \in Rows : OnItsWay(r))'
    BY <2>1, <2>4, TailTypes DEF TailInv
  <2> QED BY <2>1, <2>3, <2>5 DEF TailInv
<1>3. CASE Query
  <2>1. /\ page' = [rows |-> ShownIn(table), current |-> sub = "open"]
        /\ UNCHANGED <<kind, sub, queue, gap, view, table>>
    BY <1>3 DEF Query
  <2>2. \A r \in Rows : ShownIn(table)[r] = table[r] /\ table[r] \in Int
    BY TailTypes DEF ShownIn
  <2>3. \A r \in Rows : page'.rows[r] = table'[r] /\ page'.rows[r] <= table'[r]
    BY <2>1, <2>2
  <2>4. \A r \in Rows : OnItsWay(r) => OnItsWay(r)'
    BY <2>1 DEF OnItsWay
  <2> QED BY <2>1, <2>3, <2>4 DEF TailInv
<1> QED BY <1>1, <1>2, <1>3

(* A tail that opens or breaks may have missed rows, and says so.          *)
LEMMA TailConnects ==
  ASSUME ShapeInv, TailInv, kind = "tail",
         Subscribe \/ ConnectionStep \/ KeepaliveFails
  PROVE  TailInv'
<1>1. CASE Subscribe
  <2>1. /\ sub # "open" /\ queue' = <<>> /\ gap' = TRUE
        /\ UNCHANGED <<kind, page, view, table>>
    BY <1>1 DEF Subscribe, Opening
  <2>2. page' # NoPage => ~page'.current
    BY <2>1, TailTypes
  <2>3. \A i \in 1 .. Len(queue') : FALSE
    BY <2>1
  <2> QED BY <2>1, <2>2, <2>3 DEF TailInv
<1>2. CASE ConnectionStep
  <2>1. /\ sub' # "open" /\ queue' = <<>>
        /\ page' = (IF page = NoPage THEN NoPage ELSE [page EXCEPT !.current = FALSE])
        /\ UNCHANGED <<kind, view, table>>
    BY <1>2 DEF ConnectionStep, Break, GoSilent, Lost, StalePage
  <2>2. page' # NoPage => ~page'.current /\ page # NoPage /\ page'.rows = page.rows
    <3>1. page # NoPage => page \in Pages
      BY DEF ShapeInv, QueueOK
    <3> QED BY <2>1, <3>1 DEF Pages
  <2>3. \A i \in 1 .. Len(queue') : FALSE
    BY <2>1
  <2> QED BY <2>1, <2>2, <2>3 DEF TailInv
<1>3. CASE KeepaliveFails
  <2>1. sub' # "open" /\ sub # "open" /\ UNCHANGED <<kind, queue, page, view, table>>
    BY <1>3 DEF KeepaliveFails
  <2>2. page' # NoPage => ~page'.current
    BY <2>1, TailTypes
  <2> QED BY <2>1, <2>2 DEF TailInv
<1> QED BY <1>1, <1>2, <1>3

(* Tails: what their readers come to hold.                                 *)
LEMMA TailUpToDate == StreamSpec => []TailInv
<1>1. StreamInit => TailInv
  <2> SUFFICES ASSUME StreamInit, kind = "tail" PROVE TailInv
    BY DEF TailInv
  <2>1. \A i \in 1 .. Len(queue) : FALSE
    BY DEF StreamInit
  <2>2. /\ sub = "closed" /\ page = NoPage
        /\ \A r \in Rows : view[r] = 0 /\ table[r] = 0
    BY DEF StreamInit
  <2> QED BY <2>1, <2>2 DEF TailInv
<1>2. ShapeInv /\ TailInv /\ [StreamNext]_streamVars => TailInv'
  <2> SUFFICES ASSUME ShapeInv, TailInv, [StreamNext]_streamVars PROVE TailInv'
    OBVIOUS
  <2>1. CASE UNCHANGED streamVars
    BY <2>1 DEF TailInv, OnItsWay
  <2>2. kind' = kind
    BY DEF StreamNext, FeedStep, ConnectionStep, ReaderStep, Change, Finish, RefuseLate,
         RefreshStore, CatchUp, Break, GoSilent, KeepaliveFails, Subscribe, Take, Query,
         ReadPage
  <2>3. CASE kind # "tail"
    BY <2>2, <2>3 DEF TailInv
  <2>4. CASE kind = "tail" /\ StreamNext
    <3>1. ~CatchUp /\ ~RefreshStore /\ \A r \in Rows : ~Finish(r) /\ ~RefuseLate(r)
      BY <2>4, TailTypes DEF CatchUp, RefreshStore, Finish, RefuseLate
    <3> QED BY <2>4, <3>1, TailChange, TailReads, TailConnects
         DEF StreamNext, FeedStep, ReaderStep
  <2> QED BY <2>1, <2>3, <2>4
<1> QED BY <1>1, <1>2, Shape, PTL DEF StreamSpec

(* A reader that has taken all it was sent holds what the gateway holds,   *)
(* however often it was behind, was cut off or had to subscribe again.     *)
THEOREM ViewCurrent == StreamSpec => []ViewIsFeed
<1>1. ShapeInv /\ UpToDateInv /\ TailInv => ViewIsFeed
  <2> SUFFICES ASSUME ShapeInv, UpToDateInv, TailInv,
                      sub = "open", queue = <<>>, ~behind, ~gap
               PROVE  view = ShownIn(table)
    BY DEF ViewIsFeed
  <2>1. \A i \in 1 .. Len(queue) : FALSE
    OBVIOUS
  <2>2. view \in [Rows -> 0 .. Final] /\ ShownIn(table) \in [Rows -> 0 .. Final]
    BY ShownType DEF ShapeInv, StreamTypeOK
  <2>3. ASSUME NEW r \in Rows PROVE view[r] = ShownIn(table)[r]
    <3>1. CASE kind = "tail"
      <4>1. view[r] = table[r] /\ table[r] \in 0 .. MaxRev
        BY <2>1, <3>1, TailTypes DEF TailInv, OnItsWay
      <4> QED BY <3>1, <4>1, Revisions DEF ShownIn
    <3>2. CASE kind # "tail"
      <4>1. ~Gone
        BY <2>1 DEF UpToDateInv, OneInv, HasEnd, Gone
      <4>2. ComesTo(view[r], queue, r, ShownIn(table)[r])
        BY <3>2, <4>1 DEF UpToDateInv, FeedInv
      <4> QED BY <2>1, <4>2 DEF ComesTo
    <3> QED BY <3>1, <3>2
  <2> QED BY <2>2, <2>3
<1> QED BY <1>1, UpToDate, TailUpToDate, PTL

-----------------------------------------------------------------------------
(* TradeRecall: recalls of trades by the reader of a stream.               *)

USE DEF recallVars

IsTrue(c, x) ==
  /\ Untouched(x) => NoEffect(c)
  /\ x = Returned("requested") => granted[c]

(* Only a registered recall is granted, and only the reader of a view      *)
(* calls.  What is told is true, and so is what is about to be.            *)
RecallStages ==
  /\ rcall \in [Recalls -> {"idle", "open", "done"}]
  /\ rstage \in [Recalls -> {"none", "wire", "exchange", "registered", "refused", "over"}]
  /\ awaiting \in [Rows -> Recalls \cup {NoRecall}]
  /\ granted \in [Recalls -> BOOLEAN]
  /\ moved \in [Rows -> BOOLEAN] /\ recalled \in [Rows -> BOOLEAN]
  /\ DOMAIN rreq = Recalls /\ \A c \in Recalls : TradeOf(c) \in Rows
  /\ DOMAIN rtold = Recalls /\ DOMAIN rreply = Recalls
  /\ \A c \in Recalls : rcall[c] = "done" <=> rtold[c] # NotTold
RecallWhere ==
  /\ \A c \in Recalls :
       /\ rcall[c] = "idle" => rstage[c] = "none"
       /\ rcall[c] # "idle" => kind = "view"
       /\ granted[c] => rstage[c] \in {"registered", "over"}
       /\ rstage[c] = "registered" => granted[c] /\ recalled[TradeOf(c)]
  /\ \A t \in Rows : moved[t] => recalled[t]
RecallTold ==
  \A c \in Recalls : IsTrue(c, rtold[c]) /\ IsTrue(c, ReturningResult(rreply[c]))
RecallInv == RecallStages /\ RecallWhere /\ RecallTold

(* The class of an error that leaves the outcome open.                     *)
LEMMA OpenClasses ==
  /\ Raised(Failure("DEADLINE_EXCEEDED")) = [kind |-> "raised", cls |-> "DeadlineExceeded"]
  /\ Raised(Failure("UNAVAILABLE")) = [kind |-> "raised", cls |-> "Unavailable"]
<1>1. ClassOfCode("DEADLINE_EXCEEDED") = "DeadlineExceeded"
  BY DEF ClassOfCode, CodeToClass
<1>2. ClassOfCode("UNAVAILABLE") = "Unavailable"
  BY DEF ClassOfCode, CodeToClass
<1> QED BY <1>1, <1>2 DEF Raised, ErrorOf, Translate, Failure

(* What the client makes of an answer says that the trade stands only if   *)
(* the answer was to a recall that had come to nothing.                    *)
LEMMA Readings ==
  ASSUME NEW c \in Recalls, NEW o \in Outcomes, NEW a \in AnswersWith(c, o)
  PROVE  /\ Untouched(ReturningResult(a)) => o \in {"refused", "not_recallable", "not_sent"}
         /\ ReturningResult(a) = Returned("requested") => o = "requested"
         /\ ReturningResult(a).kind \in {"returned", "raised"}
<1>1. a.ok \in BOOLEAN /\ a.status = StatusOfOutcome(o) /\ a.result \in {o, "none"}
      /\ (a.ok => a.result = o)
  <2>1. CASE rreq[c].method = "recall_order_trades" \/ o \in {"requested", "submitted"}
    <3>1. a = [ok |-> TRUE, status |-> StatusOfOutcome(o), result |-> o]
      BY <2>1 DEF AnswersWith
    <3> QED BY <3>1
  <2>2. CASE ~(rreq[c].method = "recall_order_trades" \/ o \in {"requested", "submitted"})
    <3>1. PICK x \in {o, "none"} :
            a = [ok |-> FALSE, status |-> StatusOfOutcome(o), result |-> x]
      BY <2>2 DEF AnswersWith
    <3> QED BY <3>1
  <2> QED BY <2>1, <2>2
<1>2. CASE a.ok \/ a.result # "none"
  BY <1>1, <1>2 DEF ReturningResult, Returned, Untouched
<1>3. CASE ~a.ok /\ a.result = "none"
  <2>1. ReturningResult(a) = Raised(a.status)
    BY <1>3 DEF ReturningResult
  <2>2. CASE o \in {"requested", "submitted"}
    BY <1>1, <1>3, <2>2 DEF AnswersWith
  <2>3. CASE o = "unknown"
    BY <1>1, <2>1, <2>3, OpenClasses DEF StatusOfOutcome, Untouched, Returned
  <2>4. CASE o \in {"refused", "not_recallable", "not_sent"}
    BY <2>1, <2>4 DEF Raised, Returned
  <2> QED BY <2>2, <2>3, <2>4 DEF Outcomes
<1> QED BY <1>2, <1>3

(* An answer goes to the one call it answers.                              *)
LEMMA AnswerMoves ==
  ASSUME RecallInv, NEW c \in Recalls, NEW o \in Outcomes, Answer(c, o)
  PROVE  /\ DOMAIN rreply' = Recalls
         /\ \A d \in Recalls : d # c => rreply'[d] = rreply[d]
         /\ rreply'[c] = rreply[c] \/ rreply'[c] \in AnswersWith(c, o)
<1>1. CASE Unanswered(c)
  BY <1>1 DEF Answer, RecallInv, RecallStages
<1>2. CASE ~Unanswered(c)
  BY <1>2 DEF Answer, RecallInv, RecallStages
<1> QED BY <1>1, <1>2

(* What an answer says is true if its recall has come to nothing, or was   *)
(* registered, as it says.                                                 *)
LEMMA AnswerTrue ==
  ASSUME RecallInv, NEW c \in Recalls, NEW o \in Outcomes, Answer(c, o),
         o \in {"refused", "not_recallable", "not_sent"} => NoEffect(c)',
         o = "requested" => granted'[c],
         \A d \in Recalls : NoEffect(d) => NoEffect(d)',
         \A d \in Recalls : granted[d] => granted'[d],
         UNCHANGED rtold
  PROVE  DOMAIN rreply' = Recalls /\ RecallTold'
<1>1. ASSUME NEW d \in Recalls, NEW x, IsTrue(d, x)
      PROVE  /\ Untouched(x) => NoEffect(d)'
             /\ x = Returned("requested") => granted'[d]
  BY <1>1 DEF IsTrue
<1>2. ASSUME NEW d \in Recalls
      PROVE  IsTrue(d, ReturningResult(rreply[d]))'
  <2>1. CASE rreply'[d] = rreply[d]
    BY <1>1, <2>1 DEF RecallInv, RecallTold, IsTrue
  <2>2. CASE d = c /\ rreply'[c] \in AnswersWith(c, o)
    BY <2>2, Readings DEF IsTrue
  <2> QED BY <2>1, <2>2, AnswerMoves
<1>3. ASSUME NEW d \in Recalls
      PROVE  IsTrue(d, rtold[d])'
  BY <1>1 DEF RecallInv, RecallTold, IsTrue
<1> QED BY <1>2, <1>3, AnswerMoves DEF RecallTold

(* The client's steps.                                                     *)
LEMMA ClientRecalls ==
  ASSUME RecallInv, NEW c \in Recalls,
         (\E t \in Rows : Call(c, t)) \/ Deliver(c) \/ CallFails(c)
  PROVE  RecallInv'
<1> USE DEF RecallInv, RecallStages, RecallWhere, RecallTold, IsTrue, NoEffect, TradeOf
<1>1. ASSUME NEW t \in Rows, Call(c, t) PROVE RecallInv'
  BY <1>1 DEF Call
<1>2. ASSUME NEW a, a.kind \in {"returned", "raised"}, IsTrue(c, a), rcall[c] = "open",
             Conclude(c, a)
      PROVE  RecallInv'
  <2>1. ~Untouched(ReturningResult(NoAnswer)) /\ ReturningResult(NoAnswer) # Returned("requested")
    BY DEF ReturningResult, NoAnswer, Returned, Untouched
  <2>2. a # NotTold
    BY <1>2 DEF NotTold
  <2>3. RecallStages' /\ RecallWhere'
    BY <1>2, <2>2 DEF Conclude
  <2>4. RecallTold'
    BY <1>2, <2>1 DEF Conclude
  <2> QED BY <2>3, <2>4
<1>3. CASE Deliver(c)
  <2>1. ReturningResult(rreply[c]).kind \in {"returned", "raised"}
    BY DEF ReturningResult, Returned, Raised
  <2> QED BY <1>2, <1>3, <2>1 DEF Deliver
<1>4. CASE CallFails(c)
  <2>1. PICK code \in {"DEADLINE_EXCEEDED", "UNAVAILABLE"} :
          Conclude(c, ReturningResult([ok |-> FALSE, status |-> Failure(code), result |-> "none"]))
    BY <1>4 DEF CallFails
  <2>2. ReturningResult([ok |-> FALSE, status |-> Failure(code), result |-> "none"])
          = Raised(Failure(code))
    BY DEF ReturningResult
  <2>3. /\ Raised(Failure(code)).kind = "raised"
        /\ ~Untouched(Raised(Failure(code)))
        /\ Raised(Failure(code)) # Returned("requested")
    BY OpenClasses DEF Untouched, Returned
  <2> QED BY <1>2, <1>4, <2>1, <2>2, <2>3 DEF CallFails
<1> QED BY <1>1, <1>3, <1>4

(* The steps of the gateway and the exchange.                              *)
LEMMA GatewayRecalls ==
  ASSUME RecallInv, NEW c \in Recalls,
         \/ LoseRecall(c) \/ RefuseRequest(c) \/ NotRecallable(c) \/ SendRecall(c)
         \/ GiveUp(c) \/ BrokerReturnsRecall(c) \/ HearRefusedRecall(c) \/ HearMoved(c)
         \/ RegisterRecall(c) \/ RefuseRecall(c)
  PROVE  RecallInv'
<1> USE DEF RecallInv, RecallStages, RecallWhere, NoEffect, TradeOf
<1>1. CASE LoseRecall(c)
  BY <1>1 DEF LoseRecall, Over, RecallTold, IsTrue
<1>2. CASE RefuseRequest(c)
  <2>1. RecallStages' /\ RecallWhere'
    BY <1>2 DEF RefuseRequest, Over
  <2>2. \A d \in Recalls :
          \/ rreply'[d] = rreply[d]
          \/ /\ d = c /\ NoEffect(c)'
             /\ \E code : rreply'[c] = [ok |-> FALSE, status |-> Failure(code), result |-> "none"]
    <3>1. NoEffect(c)'
      BY <1>2 DEF RefuseRequest, Over
    <3>2. CASE Unanswered(c)
      <4>1. \E code : rreply' = [rreply EXCEPT ![c] =
                         [ok |-> FALSE, status |-> Failure(code), result |-> "none"]]
        BY <1>2, <3>2 DEF RefuseRequest
      <4> QED BY <3>1, <4>1
    <3>3. CASE ~Unanswered(c)
      BY <1>2, <3>3, Zenon DEF RefuseRequest
    <3> QED BY <3>2, <3>3
  <2>3. \A code : ReturningResult([ok |-> FALSE, status |-> Failure(code), result |-> "none"])
                    # Returned("requested")
    BY DEF ReturningResult, Returned, Raised
  <2>4. RecallTold'
    BY <1>2, <2>2, <2>3 DEF RefuseRequest, Over, RecallTold, IsTrue
  <2> QED BY <2>1, <2>4
<1>3. CASE NotRecallable(c)
  <2>1. Answer(c, "not_recallable") /\ "not_recallable" \in Outcomes
    BY <1>3 DEF NotRecallable, Outcomes
  <2>2. DOMAIN rreply' = Recalls /\ RecallTold'
    BY <1>3, <2>1, AnswerTrue DEF NotRecallable, Over
  <2> QED BY <1>3, <2>2 DEF NotRecallable, Over
<1>4. CASE SendRecall(c)
  BY <1>4 DEF SendRecall, RecallTold, IsTrue
<1>5. CASE GiveUp(c)
  <2>1. PICK o \in {"unknown", "submitted"} : Answer(c, o)
    BY <1>5 DEF GiveUp
  <2>2. DOMAIN rreply' = Recalls /\ RecallTold'
    BY <1>5, <2>1, AnswerTrue DEF GiveUp, Outcomes
  <2> QED BY <1>5, <2>2 DEF GiveUp
<1>6. CASE BrokerReturnsRecall(c)
  <2>1. Answer(c, "not_sent") /\ "not_sent" \in Outcomes
    BY <1>6 DEF BrokerReturnsRecall, Outcomes
  <2>2. DOMAIN rreply' = Recalls /\ RecallTold'
    BY <1>6, <2>1, AnswerTrue DEF BrokerReturnsRecall, Over
  <2> QED BY <1>6, <2>2 DEF BrokerReturnsRecall, Over, Unblock
<1>7. CASE HearRefusedRecall(c)
  <2>1. Answer(c, "refused") /\ "refused" \in Outcomes
    BY <1>7 DEF HearRefusedRecall, Outcomes
  <2>2. DOMAIN rreply' = Recalls /\ RecallTold'
    BY <1>7, <2>1, AnswerTrue DEF HearRefusedRecall, Over
  <2> QED BY <1>7, <2>2 DEF HearRefusedRecall, Over, Unblock
<1>8. CASE HearMoved(c)
  <2>1. Answer(c, "requested") /\ "requested" \in Outcomes
    BY <1>8 DEF HearMoved, Outcomes
  <2>2. DOMAIN rreply' = Recalls /\ RecallTold'
    BY <1>8, <2>1, AnswerTrue DEF HearMoved, Over
  <2> QED BY <1>8, <2>2 DEF HearMoved, Over, Unblock
<1>9. CASE RegisterRecall(c)
  BY <1>9 DEF RegisterRecall, RecallTold, IsTrue
<1>10. CASE RefuseRecall(c)
  BY <1>10 DEF RefuseRecall, RecallTold, IsTrue
<1> QED BY <1>1, <1>2, <1>3, <1>4, <1>5, <1>6, <1>7, <1>8, <1>9, <1>10

(* A recall only ever moves a row on, as the feed does: to the reader the  *)
(* stream with recalls is the stream.                                      *)
LEMMA RecallsStream ==
  ASSUME RecallInv, [Next]_<<streamVars, recallVars>>
  PROVE  [StreamNext]_streamVars
<1>1. ASSUME NEW c \in Recalls, HearMoved(c) PROVE [StreamNext]_streamVars
  <2>1. TradeOf(c) \in Rows /\ kind = "view"
    BY <1>1 DEF HearMoved, RecallInv, RecallStages, RecallWhere
  <2>2. CASE table[TradeOf(c)] < MaxRev
    <3>1. Change(TradeOf(c))
      BY <1>1, <2>1, <2>2 DEF HearMoved, Change, Relevant
    <3> QED BY <2>1, <3>1 DEF StreamNext, FeedStep
  <2>3. CASE ~(table[TradeOf(c)] < MaxRev)
    BY <1>1, <2>3 DEF HearMoved
  <2> QED BY <2>2, <2>3
<1>2. ASSUME NEW c \in Recalls, RecallStep(c), ~HearMoved(c) PROVE UNCHANGED streamVars
  BY <1>2 DEF RecallStep, Call, Deliver, CallFails, Conclude, LoseRecall, RefuseRequest,
       NotRecallable, SendRecall, GiveUp, BrokerReturnsRecall, HearRefusedRecall,
       RegisterRecall, RefuseRecall
<1> QED BY <1>1, <1>2 DEF Next, BlockLapses

(* The invariant of the recalls.                                           *)
LEMMA RecallsKept == Spec => []RecallInv
<1>1. RecallInit => RecallInv
  <2> SUFFICES ASSUME RecallInit PROVE RecallInv
    OBVIOUS
  <2>1. ~Untouched(ReturningResult(NoAnswer)) /\ ReturningResult(NoAnswer) # Returned("requested")
    BY DEF ReturningResult, NoAnswer, Returned, Untouched
  <2>2. ~Untouched(NotTold) /\ NotTold # Returned("requested")
    BY DEF NotTold, Returned, Untouched
  <2> QED BY <2>1, <2>2, WatchedAssumption
        DEF RecallInit, RecallInv, RecallStages, RecallWhere, RecallTold, IsTrue, TradeOf
<1>2. RecallInv /\ [Next]_<<streamVars, recallVars>> => RecallInv'
  <2> SUFFICES ASSUME RecallInv, [Next]_<<streamVars, recallVars>>
               PROVE  RecallInv'
    OBVIOUS
  <2> USE DEF RecallInv, RecallStages, RecallWhere, RecallTold, IsTrue, NoEffect, TradeOf
  <2>1. ASSUME NEW c \in Recalls, RecallStep(c) PROVE RecallInv'
    BY <2>1, ClientRecalls, GatewayRecalls DEF RecallStep
  <2>2. ASSUME NEW t \in Rows, BlockLapses(t) PROVE RecallInv'
    BY <2>2 DEF BlockLapses
  <2>3. CASE UNCHANGED recallVars /\ (StreamNext \/ UNCHANGED streamVars)
    <3>1. kind' = kind
      BY <2>3 DEF StreamNext, FeedStep, ConnectionStep, ReaderStep, Change, Finish, RefuseLate,
          RefreshStore, CatchUp, Break, GoSilent, KeepaliveFails, Subscribe, Take, Query, ReadPage
    <3> QED BY <2>3, <3>1
  <2> QED BY <2>1, <2>2, <2>3 DEF Next
<1> QED BY <1>1, <1>2, PTL DEF Spec

(* recall_trade: what is proved of the streams holds with recalls too.     *)
THEOREM RecallIsStream == Spec => StreamSpec
<1>1. RecallInit => StreamInit
  BY DEF RecallInit
<1>2. RecallInv /\ [Next]_<<streamVars, recallVars>> => [StreamNext]_streamVars
  BY RecallsStream
<1> QED BY <1>1, <1>2, RecallsKept, PTL DEF Spec, StreamSpec

(* The type invariant of the streams with recalls.                         *)
THEOREM RecallTypes == Spec => []RecallTypeOK
<1>1. RecallInv /\ StreamTypeOK => RecallTypeOK
  BY DEF RecallInv, RecallStages, RecallWhere, RecallTypeOK
<1> QED BY <1>1, RecallsKept, RecallIsStream, StreamTypes, PTL

(* recall_trade and recall_order_trades: a caller told that its trade      *)
(* stands unasked is never wrong, and told that the recall was requested   *)
(* neither, with or without the trailer and whatever is still on its way.  *)
THEOREM RecallTruth == Spec => []RecallHonest
<1>1. RecallInv => RecallHonest
  BY DEF RecallInv, RecallTold, IsTrue, Untouched, RecallHonest
<1> QED BY <1>1, RecallsKept, PTL

(* The words for what a caller is told.                                    *)
LEMMA WordsAre ==
  /\ WordFor(NotTold) = "nothing"
  /\ \A o : o # NotTold => WordFor(o) \in {"unknown", "applied", "rejected"}
  /\ \A o : WordFor(o) = "applied" => o = Returned("requested")
  /\ \A o : WordFor(o) = "rejected" => Untouched(o)
<1>1. NotTold # Returned("requested") /\ ~Untouched(NotTold)
  BY DEF NotTold, Returned, Untouched
<1>2. ~Untouched(Returned("requested"))
  BY DEF Returned, Untouched
<1> HIDE DEF NotTold, Returned, Untouched
<1> QED BY <1>1, <1>2 DEF WordFor

(* recall_trade and recall_order_trades keep the promise: the exchange     *)
(* takes a recall up or never will, and the caller is told once and never  *)
(* the opposite, with or without the trailer.                              *)
THEOREM RecallPromise == Spec => RecallKeepsPromise
<1> DEFINE Fate == [c \in Recalls |-> FateOf(c)]
           Told == [c \in Recalls |-> WordFor(rtold[c])]
<1>1. RecallInit => Promise!Init
  <2> SUFFICES ASSUME RecallInit PROVE Promise!Init
    OBVIOUS
  <2>1. \A c \in Recalls : FateOf(c) = "open" /\ WordFor(rtold[c]) = "nothing"
    BY WordsAre DEF RecallInit, FateOf, NoEffect
  <2> QED BY <2>1 DEF Promise!Init
<1>2. RecallInv /\ RecallInv' /\ [Next]_<<streamVars, recallVars>> =>
        [Promise!Next]_<<Fate, Told>>
  <2> SUFFICES ASSUME RecallInv, RecallInv', [Next]_<<streamVars, recallVars>>
               PROVE  Promise!Next \/ UNCHANGED <<Fate, Told>>
    OBVIOUS
  <2> USE DEF RecallInv
  <2>1. ASSUME rtold' = rtold,
               \A d \in Recalls : FateOf(d)' = FateOf(d)
        PROVE  UNCHANGED <<Fate, Told>>
    BY <2>1
  <2>2. ASSUME UNCHANGED <<granted, rtold>>, NEW c \in Recalls,
               rstage[c] \in {"wire", "exchange"}, rstage'[c] \in {"refused", "over"},
               \A d \in Recalls : d # c => rstage'[d] = rstage[d]
        PROVE  Promise!Next
    <3>1. ~granted[c]
      BY <2>2 DEF RecallWhere
    <3>2. FateOf(c) = "open" /\ FateOf(c)' = "void"
      BY <2>2, <3>1 DEF FateOf, NoEffect
    <3>3. \A d \in Recalls : d # c => FateOf(d)' = FateOf(d)
      BY <2>2 DEF FateOf, NoEffect
    <3>4. Fate' = [d \in Recalls |-> IF d \in {c} THEN "void" ELSE Fate[d]]
      BY <3>2, <3>3
    <3>5. Told' = Told /\ Fate[c] = "open"
      BY <2>2, <3>2
    <3>6. Promise!Lapse({c})
      BY <3>4, <3>5 DEF Promise!Lapse
    <3> QED BY <3>6 DEF Promise!Next
  <2>3. ASSUME NEW c \in Recalls, NEW o, rcall[c] = "open", Conclude(c, o)
        PROVE  Promise!Next
    <3>1. UNCHANGED <<granted, rstage>> /\ rtold[c] = NotTold
      BY <2>3 DEF Conclude, RecallStages
    <3>2. Fate' = Fate
      BY <3>1 DEF FateOf, NoEffect
    <3>3. rcall'[c] = "done" /\ rtold'[c] # NotTold
      BY <2>3 DEF Conclude, RecallStages
    <3>4. \A d \in Recalls : d # c => rtold'[d] = rtold[d]
      BY <2>3 DEF Conclude, RecallStages
    <3> DEFINE word == WordFor(rtold'[c])
    <3>5. Told' = [Told EXCEPT ![c] = word]
      BY <3>4
    <3>6. Told[c] = "nothing" /\ word \in {"unknown", "applied", "rejected"}
      BY <3>1, <3>3, WordsAre
    <3>7. word = "applied" => Fate'[c] = "applied"
      <4>1. word = "applied" => granted'[c]
        BY WordsAre DEF RecallTold, IsTrue
      <4> QED BY <4>1 DEF FateOf, NoEffect
    <3>8. word = "rejected" => Fate'[c] = "void"
      <4>1. word = "rejected" => NoEffect(c)'
        BY WordsAre DEF RecallTold, IsTrue
      <4> QED BY <4>1 DEF FateOf, NoEffect
    <3> HIDE DEF word
    <3>9. Promise!Tell(c, word)
      BY <3>2, <3>5, <3>6, <3>7, <3>8 DEF Promise!Tell
    <3> QED BY <3>6, <3>9 DEF Promise!Next, Promise!Tellings
  <2>4. ASSUME NEW c \in Recalls, RecallStep(c) PROVE Promise!Next \/ UNCHANGED <<Fate, Told>>
    <3>1. ASSUME NEW t \in Rows, Call(c, t) PROVE UNCHANGED <<Fate, Told>>
      <4>1. /\ UNCHANGED <<granted, rtold>> /\ rcall[c] = "idle"
            /\ rstage' = [rstage EXCEPT ![c] = "wire"]
        BY <3>1 DEF Call
      <4>2. rstage[c] = "none"
        BY <4>1 DEF RecallWhere
      <4>3. \A d \in Recalls : FateOf(d)' = FateOf(d)
        BY <4>1, <4>2 DEF FateOf, NoEffect, RecallStages
      <4> QED BY <2>1, <4>1, <4>3
    <3>2. CASE Deliver(c) \/ CallFails(c)
      <4>1. \E o : rcall[c] = "open" /\ Conclude(c, o)
        BY <3>2 DEF Deliver, CallFails
      <4> QED BY <2>3, <4>1
    <3>3. CASE \/ LoseRecall(c) \/ RefuseRequest(c) \/ NotRecallable(c)
               \/ BrokerReturnsRecall(c) \/ RefuseRecall(c)
      <4>1. /\ UNCHANGED <<granted, rtold>> /\ rstage[c] \in {"wire", "exchange"}
            /\ \E s \in {"refused", "over"} : rstage' = [rstage EXCEPT ![c] = s]
        BY <3>3 DEF LoseRecall, RefuseRequest, NotRecallable, BrokerReturnsRecall,
                    RefuseRecall, Over
      <4>2. rstage'[c] \in {"refused", "over"} /\ \A d \in Recalls : d # c => rstage'[d] = rstage[d]
        BY <4>1 DEF RecallStages
      <4> QED BY <2>2, <4>1, <4>2
    <3>4. CASE SendRecall(c) \/ GiveUp(c) \/ HearRefusedRecall(c) \/ HearMoved(c)
      <4>1. /\ UNCHANGED <<granted, rtold>>
            /\ \/ rstage' = rstage
               \/ rstage[c] = "wire" /\ rstage' = [rstage EXCEPT ![c] = "exchange"]
               \/ /\ rstage[c] \in {"refused", "registered"}
                  /\ rstage' = [rstage EXCEPT ![c] = "over"]
        BY <3>4 DEF SendRecall, GiveUp, HearRefusedRecall, HearMoved, Over
      <4>2. rstage[c] = "registered" => granted[c]
        BY DEF RecallWhere
      <4>3. \A d \in Recalls : FateOf(d)' = FateOf(d)
        BY <4>1, <4>2 DEF FateOf, NoEffect, RecallStages
      <4> QED BY <2>1, <4>1, <4>3
    <3>5. CASE RegisterRecall(c)
      <4>1. /\ rstage[c] = "exchange" /\ rstage' = [rstage EXCEPT ![c] = "registered"]
            /\ granted' = [granted EXCEPT ![c] = TRUE] /\ rtold' = rtold
        BY <3>5 DEF RegisterRecall
      <4>2. ~granted[c]
        BY <4>1 DEF RecallWhere
      <4>3. \A d \in Recalls : FateOf(d)' = IF d = c THEN "applied" ELSE FateOf(d)
        BY <4>1 DEF FateOf, NoEffect, RecallStages
      <4>4. FateOf(c) = "open"
        BY <4>1, <4>2 DEF FateOf, NoEffect
      <4>5. Fate' = [Fate EXCEPT ![c] = "applied"] /\ Fate[c] = "open" /\ Told' = Told
        BY <4>1, <4>3, <4>4
      <4>6. Promise!Apply(c)
        BY <4>5 DEF Promise!Apply
      <4> QED BY <4>6 DEF Promise!Next
    <3> QED BY <2>4, <3>1, <3>2, <3>3, <3>4, <3>5 DEF RecallStep
  <2>5. CASE UNCHANGED recallVars \/ \E t \in Rows : BlockLapses(t)
    <3>1. UNCHANGED <<granted, rtold, rstage>>
      BY <2>5 DEF BlockLapses
    <3> QED BY <2>1, <3>1 DEF FateOf, NoEffect
  <2> QED BY <2>4, <2>5 DEF Next
<1> QED BY <1>1, <1>2, RecallsKept, PTL DEF Spec, RecallKeepsPromise, Promise!Spec
=============================================================================
