------------------------------- MODULE Streams -------------------------------
(***************************************************************************)
(* A Watch* subscription and the reader that follows it: _stream and the   *)
(* channel it runs on, the reader's loop of the README ("Own the loop"),   *)
(* and the gateway's feed as the watch_* methods describe it.              *)
(*                                                                         *)
(* A row is an order, trade, contract or log row; it goes up through its   *)
(* revisions, may be finished, and may at last be forgotten.               *)
(***************************************************************************)
EXTENDS Integers, Sequences, FiniteSets

CONSTANTS
  Rows,
  Watched,    \* the row a watch_order names
  MaxRev,     \* bound on the revisions of a row
  QueueLimit, \* events the gateway holds for a reader that is behind
  MaxUpsets,  \* bound on what goes wrong with the connection or the store
  NoPage      \* no page of a list_* or query_* read is on its way

ASSUME WatchedAssumption == Watched \in Rows
ASSUME StreamBounds == /\ MaxRev \in Nat \ {0, 1} /\ QueueLimit \in Nat \ {0, 1}
                       /\ MaxUpsets \in Nat

VARIABLES
  kind,    \* view, latest, one or tail
  options, \* options of the channel
  sub,     \* the subscription: closed, open, silent, broken, ended
  queue,   \* events on their way to the reader
  behind,  \* gateway: the reader has missed some and will be sent a snapshot
  gap,     \* history: a tail's reader may have missed a row
  page,    \* a read of the rows on its way to the reader
  view,    \* reader: the revision it holds of each row, 0 for none
  table,   \* gateway: the revision of each row, 0 for none
  upsets   \* history: upsets so far

streamVars == <<kind, options, sub, queue, behind, gap, page, view, table, upsets>>

Final == MaxRev + 1
Forgotten == MaxRev + 2

-----------------------------------------------------------------------------
(* channel.py: the options of the channel.                                 *)

DefaultOptions ==
  [keepalive_time |-> 30, max_pings_without_data |-> 0, max_receive |-> 64]

(* Mutant: a caller's options take the place of the defaults.              *)
BuildOptionsReplacing(overrides) ==
  IF overrides = <<>> THEN DefaultOptions ELSE overrides

(* The caller's options over the defaults, key by key.                     *)
BuildOptions(overrides) ==
  [k \in (DOMAIN DefaultOptions) \cup (DOMAIN overrides) |->
     IF k \in DOMAIN overrides THEN overrides[k] ELSE DefaultOptions[k]]

(* A quiet connection is pinged only with a time set and no throttle.      *)
PingsWhenQuiet ==
  /\ {"keepalive_time", "max_pings_without_data"} \subseteq DOMAIN options
  /\ options.max_pings_without_data = 0

-----------------------------------------------------------------------------
(* The feed (external): what a reader of each kind of stream is shown.     *)

(* watch_contracts, watch_orders, watch_trades, watch_hub2hub show what is *)
(* there; so do the streams that send all of it each time; watch_order its *)
(* one order to the end.                                                   *)
ShownIn(t) ==
  [r \in Rows |->
     CASE kind = "one" -> IF r = Watched /\ t[r] # Forgotten THEN t[r] ELSE 0
       [] OTHER        -> IF t[r] \in 1 .. MaxRev THEN t[r] ELSE 0]

Snapshot(t) == [type |-> "SNAPSHOT", rows |-> ShownIn(t)]
Upsert(r, n) == [type |-> "UPSERT", row |-> r, rev |-> n]
Delete(r) == [type |-> "DELETE", row |-> r]
Rejected(r, n) == [type |-> "REJECTED", row |-> r, rev |-> n]
End == [type |-> "END"]

(* What a stream opens on.                                                 *)
Opening ==
  CASE kind = "tail" -> <<>>
    [] kind = "one" /\ table[Watched] = Final -> <<Snapshot(table), End>>
    [] OTHER -> <<Snapshot(table)>>

(* Mutant: an order that finished meanwhile ends the stream, unsaid.       *)
RereadSilently ==
  IF kind = "one" /\ table[Watched] \in {Final, Forgotten}
  THEN <<End>> ELSE <<Snapshot(table)>>

(* What a reader that fell behind, or outlived a refresh of the store, is  *)
(* sent: the rows again, or the end of its order.                          *)
Reread ==
  CASE kind = "one" /\ table[Watched] = Forgotten -> <<End>>
    [] kind = "one" /\ table[Watched] = Final -> <<Upsert(Watched, Final), End>>
    [] OTHER -> <<Snapshot(table)>>

(* Events go on the queue while it has room.  After that a snapshot is due *)
(* and deltas are not kept, a tail skips, and of full sets the newest is   *)
(* the one that counts.                                                    *)
Emit(events) ==
  IF sub # "open" \/ behind \/ events = <<>>
  THEN /\ gap' = (gap \/ (kind = "tail" /\ events # <<>>))
       /\ UNCHANGED <<queue, behind, page>>
  ELSE IF Len(queue) + Len(events) <= QueueLimit
  THEN queue' = queue \o events /\ UNCHANGED <<behind, gap, page>>
  ELSE IF kind = "tail"
  THEN /\ gap' = TRUE
       /\ page' = IF page = NoPage THEN NoPage ELSE [page EXCEPT !.current = FALSE]
       /\ UNCHANGED <<queue, behind>>
  ELSE behind' = TRUE /\ UNCHANGED <<queue, gap, page>>

EmitLatest ==
  /\ queue' = IF sub = "open" THEN <<Snapshot(table')>> ELSE queue
  /\ UNCHANGED <<behind, gap, page>>

Relevant(r) == kind = "one" => r = Watched

(* A row comes, or moves on: at most one row of a frame.                   *)
Change(r) ==
  /\ Relevant(r) /\ table[r] < MaxRev
  /\ table' = [table EXCEPT ![r] = @ + 1]
  /\ IF kind = "latest" THEN EmitLatest ELSE Emit(<<Upsert(r, table[r] + 1)>>)
  /\ UNCHANGED <<kind, options, sub, view, upsets>>

(* An order is filled, cancelled or refused; a contract leaves the market. *)
Finish(r) ==
  /\ kind # "tail" /\ Relevant(r) /\ table[r] \in 1 .. MaxRev
  /\ table' = [table EXCEPT ![r] = Final]
  /\ CASE kind = "latest" -> EmitLatest
       [] kind = "one"    -> Emit(<<Upsert(r, Final), End>>)
       [] OTHER           -> Emit(<<Delete(r)>>)
  /\ UNCHANGED <<kind, options, sub, view, upsets>>

(* The exchange refuses a command it had acknowledged: the event carries   *)
(* the order as it was when the command was sent.                          *)
RefuseLate(r) ==
  /\ kind = "view" /\ upsets < MaxUpsets
  /\ table[r] \in 1 .. Final
  /\ Emit(<<Rejected(r, IF table[r] = Final THEN MaxRev ELSE table[r])>>)
  /\ upsets' = upsets + 1
  /\ UNCHANGED <<kind, options, sub, view, table>>

(* The gateway refreshes its store: every watch_order reads its order      *)
(* again.  The store may have let go of the order.                         *)
RefreshStore ==
  /\ kind = "one" /\ upsets < MaxUpsets
  /\ upsets' = upsets + 1
  /\ \/ UNCHANGED table
     \/ table[Watched] \in 1 .. Final
        /\ table' = [table EXCEPT ![Watched] = Forgotten]
  /\ behind' = (sub = "open")
  /\ UNCHANGED <<kind, options, sub, queue, gap, page, view>>

CatchUp ==
  /\ sub = "open" /\ behind /\ queue = <<>>
  /\ queue' = Reread /\ behind' = FALSE
  /\ UNCHANGED <<kind, options, sub, gap, page, view, table, upsets>>

-----------------------------------------------------------------------------
(* The connection (external).                                              *)

Lost == queue' = <<>> /\ behind' = FALSE
StalePage ==
  page' = IF page = NoPage THEN NoPage ELSE [page EXCEPT !.current = FALSE]

(* The stream fails: _stream raises the typed error to its reader.         *)
Break ==
  /\ sub = "open" /\ upsets < MaxUpsets
  /\ sub' = "broken" /\ Lost /\ StalePage
  /\ upsets' = upsets + 1
  /\ UNCHANGED <<kind, options, gap, view, table>>

(* A NAT entry is evicted: nothing arrives, and nothing says so.           *)
GoSilent ==
  /\ sub = "open" /\ upsets < MaxUpsets
  /\ sub' = "silent" /\ Lost /\ StalePage
  /\ upsets' = upsets + 1
  /\ UNCHANGED <<kind, options, gap, view, table>>

(* A ping goes unanswered, and the silence becomes an error.               *)
KeepaliveFails ==
  /\ sub = "silent" /\ PingsWhenQuiet
  /\ sub' = "broken"
  /\ UNCHANGED <<kind, options, queue, behind, gap, page, view, table, upsets>>

-----------------------------------------------------------------------------
(* The reader.                                                             *)

(* The first iteration opens the RPC: the reader's loop comes round, after *)
(* an error a second later.  A watch_order is opened once its order was    *)
(* submitted, and raises NotFound once the gateway has let go of it.       *)
Subscribe ==
  /\ sub \in {"closed", "broken"}
  /\ kind = "one" => table[Watched] # 0
  /\ IF kind = "one" /\ table[Watched] = Forgotten
     THEN sub' = "ended" /\ UNCHANGED <<queue, gap>>
     ELSE sub' = "open" /\ queue' = Opening /\ gap' = (kind = "tail")
  /\ UNCHANGED <<kind, options, behind, page, view, table, upsets>>

(* Mutant: a second snapshot is merged into the first.                     *)
ApplyMerging(e) ==
  CASE e.type = "SNAPSHOT" ->
         [r \in Rows |-> IF e.rows[r] # 0 THEN e.rows[r] ELSE view[r]]
    [] e.type = "UPSERT" -> [view EXCEPT ![e.row] = e.rev]
    [] e.type = "DELETE" -> [view EXCEPT ![e.row] = 0]
    [] OTHER -> view

(* A snapshot replaces, an upsert puts, a delete removes, and an event     *)
(* REJECTED moves nothing.  A tail's rows count by their higher revision.  *)
Apply(e) ==
  CASE e.type = "SNAPSHOT" -> e.rows
    [] e.type = "UPSERT" ->
         [view EXCEPT ![e.row] = IF kind = "tail" /\ @ > e.rev THEN @ ELSE e.rev]
    [] e.type = "DELETE" -> [view EXCEPT ![e.row] = 0]
    [] OTHER -> view

Take ==
  /\ sub = "open" /\ queue # <<>>
  /\ view' = Apply(Head(queue))
  /\ IF Head(queue) = End
     THEN sub' = "ended" /\ queue' = <<>> /\ behind' = FALSE
     ELSE queue' = Tail(queue) /\ UNCHANGED <<sub, behind>>
  /\ UNCHANGED <<kind, options, gap, page, table, upsets>>

(* A tail has no snapshot: its reader asks for the rows, now and then.     *)
Query ==
  /\ kind = "tail" /\ page = NoPage
  /\ page' = [rows |-> ShownIn(table), current |-> sub = "open"]
  /\ UNCHANGED <<kind, options, sub, queue, behind, gap, view, table, upsets>>

(* Mutant: what the read brings replaces what is held.                     *)
ReadPageReplacing ==
  /\ page # NoPage
  /\ view' = page.rows
  /\ gap' = (gap /\ ~page.current)
  /\ page' = NoPage
  /\ UNCHANGED <<kind, options, sub, queue, behind, table, upsets>>

(* De-duplicated by id, the higher revision kept.                          *)
ReadPage ==
  /\ page # NoPage
  /\ view' = [r \in Rows |-> IF page.rows[r] > view[r] THEN page.rows[r] ELSE view[r]]
  /\ gap' = (gap /\ ~page.current)
  /\ page' = NoPage
  /\ UNCHANGED <<kind, options, sub, queue, behind, table, upsets>>

-----------------------------------------------------------------------------
Overrides == {<<>>, [max_receive |-> 128]}

StreamInit ==
  /\ kind \in {"view", "latest", "one", "tail"}
  /\ \E o \in Overrides : options = BuildOptions(o)
  /\ sub = "closed" /\ queue = <<>> /\ behind = FALSE
  /\ gap = FALSE /\ page = NoPage
  /\ view = [r \in Rows |-> 0] /\ table = [r \in Rows |-> 0]
  /\ upsets = 0

FeedStep == (\E r \in Rows : Change(r) \/ Finish(r) \/ RefuseLate(r)) \/ RefreshStore
ConnectionStep == Break \/ GoSilent
ReaderStep == Subscribe \/ Take \/ Query \/ ReadPage

StreamNext ==
  FeedStep \/ CatchUp \/ ConnectionStep \/ KeepaliveFails \/ ReaderStep
StreamSpec == StreamInit /\ [][StreamNext]_streamVars

(* The reader keeps reading and, on a tail, asking; the gateway serves it; *)
(* pings are sent.  The feed and the network owe nothing.                  *)
StreamFairness ==
  /\ WF_streamVars(Subscribe) /\ WF_streamVars(Take)
  /\ WF_streamVars(Query) /\ WF_streamVars(ReadPage)
  /\ WF_streamVars(CatchUp) /\ WF_streamVars(KeepaliveFails)
FairStreamSpec == StreamSpec /\ StreamFairness

-----------------------------------------------------------------------------
(* Properties.                                                             *)

StreamTypeOK ==
  /\ kind \in {"view", "latest", "one", "tail"}
  /\ sub \in {"closed", "open", "silent", "broken", "ended"}
  /\ Len(queue) <= QueueLimit
  /\ view \in [Rows -> 0 .. Final] /\ table \in [Rows -> 0 .. Forgotten]
  /\ behind => sub = "open"
  /\ upsets \in 0 .. MaxUpsets

(* A reader that has taken all it was sent holds what the gateway holds:   *)
(* no phantom, no row missing, none out of date, however often it was      *)
(* behind or had to subscribe again.  (A tail's reader skips silently: it  *)
(* knows only once a read made since has come back.)                       *)
ViewIsFeed ==
  sub = "open" /\ queue = <<>> /\ ~behind /\ ~gap => view = ShownIn(table)

(* watch_order: a clean end means done.  The reader was shown the terminal *)
(* state, or the gateway holds the order no more.                          *)
CleanEndIsDone ==
  sub = "ended" => view[Watched] = Final \/ table[Watched] = Forgotten

(* A row of a tail is never replaced by an older revision of itself,       *)
(* though pages and events overtake each other.                            *)
TailNeverOlder ==
  [][kind = "tail" => \A r \in Rows : view'[r] >= view[r]]_streamVars

(* Once the rows and the network are quiet the reader ends up with what is *)
(* there, whatever happened before: no subscription stays silent for ever. *)
Settled ==
  IF kind = "one" THEN table[Watched] = 0 \/ sub = "ended" \/ view[Watched] = table[Watched]
  ELSE view = ShownIn(table)
Converges == <>[]Settled
=============================================================================
