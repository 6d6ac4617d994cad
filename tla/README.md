# TLA+ models of the Voltnir Python SDK

The repository holds the Python SDK of the Voltnir gateway
(`src/clients/python/src/voltnir_sdk`) and its live-verification runner
(`src/clients/python/verify.py`). The gateway itself, and the exchange (M7)
behind it, are not in the repository: they appear here as the environment, as
far as the SDK relies on them. `PROJECT.json` maps every definition to the lines
it stands for, marks the external ones, and lists the hazards, runs, mutants,
findings and theorems.

What makes this code worth modelling is not its size. A trader's program calls
`submit_order`, the network fails, and the SDK must say whether the order may be
resting on the market. A program follows its orders on a stream that breaks, and
must not trade on rows that are no longer there. Everything else follows from
getting those right.

## The system

Paths below are relative to `src/clients/python/`; `sdk/` is
`src/voltnir_sdk/`.

| Component | State it keeps | Operations | Interacts with |
|---|---|---|---|
| Error typing, `sdk/errors.py` | none | `translate`, `request_definitely_rejected` | called by every failed RPC; reads the gateway's code and message prefix |
| Order calls, `sdk/client.py`, `sdk/async_client.py` | one call each; the gateway's records and the exchange's book behind it | `submit_order`, `modify_order`, `cancel_order` | gRPC, gateway, message broker, exchange |
| Cancel-all | the gateway's sweep | `cancel_all_orders` | as above, one cancel per order |
| Baskets | the gateway's entry of a `basket_ref` | `submit_basket`, `cancel_basket` | as above, several orders per call |
| Trade recall, `sdk/_recall.py` | none | `recall_trade`, `recall_order_trades` | `_unary`; the trade stream shows the result |
| Streams | the reader's view of the rows | the `watch_*` methods, and the `list_*` and `query_*` reads beside them | `_stream`, the gateway's feed |
| Channel, `sdk/channel.py` | the channel's options | `_build_options` | keepalive, hence every stream |
| Client lifecycle | `_closed`, the channel, calls and streams under way | `_unary`, `_stream`, `close` | threads or tasks of the caller; the server's handler pool |
| Request builders, `sdk/_orders.py` | none | submit, basket, modify, patch, mode and cash-cap requests | refuse locally what the gateway would refuse |
| Units, `sdk/units.py` | none | amounts to wire integers and back | callers of the builders |
| Report export, `sdk/_rest_export.py` | deadline, socket, poll delay, bytes received; async: work item, task, response | `start`, `poll`, `pause`, `Download`, `export`, `aexport` | REST endpoint, report builder, event loop and its executor |
| `verify.py`, run and harness | counters of each pass, exit code | `main`, `step`, `gated`, `subscribe_smoke`, restart | all passes |
| `verify.py`, reconciliation pass | probe key, polls seen, verdict | probe, reconcile, reuse, clean up | order calls, `get_order` |
| `verify.py`, mutate pass | prior limit and cap, order, basket | lift, order life, basket life, sweep, restore | order calls, operator setters |
| `verify.py`, operator pass and lifecycles | the value last read | read and write back, sentinel holiday, throwaway user and member | operator RPCs, other operators |
| other RPC wrappers, auth, enums, generated stubs | none | one call each | |

What is hard, and which properties make each part correct:

* **Order calls.** Deadline, answer, broken channel, broker return, gateway
  timeout, receipt, exchange report, fill and restart interleave freely, and the
  caller is told once. It must never be told the opposite of what then happens
  (`HonestRejection`, `KeepsPromise`); the key must keep a retry from doubling
  (`KeyProtection`) and be free again exactly when nothing was sent
  (`NotProcessedFreesKey`).
* **Cancel-all and baskets.** They may stop half-way and be called again while
  the exchange still works on the first. A failure must not claim that nothing
  happened (`SweepHonest`, `BasketHonest`), a success not overlook an order, one
  the exchange has yet to acknowledge included (`NoneOverlooked`,
  `NoneForgotten`), and a `basket_ref` not enter its basket
  twice (`OneBasketPerRef`); through all of it the caller sees one basket that is
  decided once (`KeepsBasketPromise`). No success proves that a book is clear: the
  exchange may refuse a cancel it has acknowledged.
* **Recall.** One call answers as a failure with the result in its trailer, and
  its deadline says nothing of the effect (`RecallKeepsPromise`).
* **Streams.** Breaks, silence, a reader that is behind, repeated snapshots,
  pages that overtake events: the reader must hold what the gateway holds
  (`ViewIsFeed`), never go back (`TailNeverOlder`), take an end for done only when
  it is (`CleanEndIsDone`), and in the end be up to date (`Converges`).
* **Lifecycle.** `close()` against calls that begin (`LateCallsRefused`,
  `NeverOnClosedChannel`) and with calls under way (`AsyncEscapesOnlyCut`), and
  consumers that walk away from a stream (`SubscriberServed`).
* **Builders and units.** Neither stricter nor laxer than the gateway at zero,
  absent and out of range (`NeverStricter`, `CheckedIsTaken`, `NamesOffender`,
  `WireMeansCall`); a conversion is exact or refused (`ConvertedExactly`).
* **Export.** One timeout over many waits (`TimeoutKept`), no short file
  (`WholeFileOnly`), an end (`ExportEnds`); a cancelled task lets go
  (`CancelReleases`) and sends next to nothing afterwards (`OneLateRequest`).
* **verify.py.** Verdicts that stay true (`AbsentIsFinal`,
  `ReuseNeverAccepted`), nothing left behind in silence (`ProbeAccounted`,
  `ProbeAlwaysAccounted`, `ResidueReported`, `LeftoverReported`), no change that
  stays (`ChangedOnlyInRace`, `PutBack`), an end (`PassEnds`), and an exit code
  that is true of all of it (`ExitIsTrue`).

## Modules

```
OrderErrors <- OrderCalls <- VerifyReconcile <- OrderCalls_proofs
     ^           ^    ^
     |           |    '--- MCOrderCalls
     |           '--- Promise == INSTANCE OutcomePromise (abstract)
     |--- CancelAll <- CancelAll_proofs
     |--- Baskets <- Baskets_proofs
     |       '--- Promise == INSTANCE BasketPromise (abstract)
     |--- ClientLifecycle <- ClientSide_proofs -> OrderBuilders -> Units
     '--- TradeRecall <- MCStreams
            | |  ^
Streams <---' |  '--- Streams_proofs
              '--- Promise == INSTANCE OutcomePromise (abstract)

ReportExport <- AsyncExport <- AsyncExport_proofs
VerifyMutate <- VerifyRun <- MCVerifyRun
                    ^--- VerifyRun_proofs
VerifyOperator <- VerifyOperator_proofs
```

**OrderErrors** is `errors.py` as operators: a status is a code, the prefix
that opens its message and whether the cancel-all clause closes it; `Translate`
gives the class in the order of the code's tests, `ErrorOf` adds the flag.

**OrderCalls** is the order path. A call has a client side (`call`, `req`,
`outcome`: `_unary` between its invocation and its return or raise) and a
request that lives on when the call is over (`stage`, `base`, `reply`). The
gateway keeps `record`, `holder`, `known`, `lock` per key, the exchange `book`
and `rev`. `applied` is a history variable. `Conclude` is the one way a call
ends, `RaisedFor` the one way an error is made; deadline, transport failure and
answer are three actions that compete for it. Gateway and exchange actions are
external.

**OutcomePromise** is what an order call promises: each request meets one
fate, its caller is told once, "applied" and "rejected" only when true.
`OrderCalls!KeepsPromise` is the refinement, with `Fate` and `Told` as the
mapping. TradeRecall implements it too.

**BasketPromise** is what `submit_basket` and `cancel_basket` promise: a
submission is decided as one or lapses, what became of an order then stands, a
cancel takes hold of an order or never will, and each call is told once, when
it ends, and never the opposite of what is so. It knows no timeout, no record, no
restart and no retry. `Baskets!KeepsBasketPromise` is the refinement: `FateOf`
reads an order's fate off the exchange and off where its request is, `GripOf` that
of a cancel.

**CancelAll** models `cancel_all_orders`, a member's sweep of single cancels
(stopping, skipping and failing as documented) and an account-wide command,
called up to `MaxCalls` times while earlier commands are still travelling. A
member's sweep leaves out the orders in delivery areas the member may not trade
(`barred`), and the exchange may refuse a command it has received (`Decline`).

**Baskets** models `submit_basket` and `cancel_basket` under one `basket_ref`.
`entry` is where each submission's request is, `seen` what the gateway holds of
each order, `lot` what the exchange does; `sweep` is the cancel at work,
`command` its cancels. The list instructions `none`, `valid` and `linked` differ
in what one rejected order means for the rest. The caller submits or cancels
again after an error, at any time while earlier requests still travel.
`DeclineCancel` is a cancel refused after its receipt.

**Streams** is a subscription and its reader: `table` is the gateway's rows,
`queue` what is on its way, `view` what the reader holds. Four kinds stand for
the `watch_*` methods: a `view` opens on a snapshot and sends deltas, `latest`
sends all of it each time, `one` is `watch_order`, a `tail` sends what is new and
never a snapshot, so that its reader must also ask (`Query`, `ReadPage`). The
reader is the loop the SDK's README prescribes: it applies what it gets and
subscribes again after an error. `BuildOptions` is `channel.py`: whether a
silent connection ever becomes an error depends on it.

**TradeRecall** extends Streams: the reader of a trade stream recalls a trade it
was shown. `_recall.py` finds the result of a single recall in the trailer of a
failure; with the trailer lost, only the error is there. What the recall does
shows on the stream. `RecallKeepsPromise` says that recalls keep the promise
order calls keep, with the exchange's taking up of the recall for the order's
execution.

**ClientLifecycle** models one client object. `isAsync`, chosen at the
start, is the one difference
between the clients that matters: a thread may be switched between the test of
`_closed` and the stub's call, and between the two lines of `close()`; a task
may not, since there is no `await` between them. `close()` cuts calls off
(`cutOff`): a thread's call ends with the channel's CANCELLED, which `translate`
types; a coroutine's is cancelled by its own channel, and `asyncio.CancelledError`
is no `grpc.RpcError`, so that it passes by the SDK's only `except` (`CutError`,
`Escapes`).

**ReportExport** models `export` from `start` to the end of the file. Time is
in ticks and passes only while the code waits. A request waits several times on
its socket (`waits`), because the socket timeout `urllib` is given applies to
each wait.

**AsyncExport** extends it to both clients. For `aexport` the steps of
ReportExport become those of a worker thread (`thread`), one work item per
`asyncio.to_thread`; the task (`task`) can be cancelled at each `await`, and what
the `finally` clause owns (`owned`, `resp`) is then aborted and closed while the
worker may still be reading.

**Units** gives a decimal as coefficient and exponent and rounds products to the
digits of the decimal context, as Python does. **OrderBuilders** models the
local checks of `_orders.py` against the gateway's field rules (external), and
what the wire then says; it also checks Units against its definition. Strings
are present or not; integers are small, and those beyond `MaxWire` stand for
what a protobuf field refuses.

**VerifyReconcile** extends `OrderCalls`: the pass is the client process, its
calls are calls of `OrderCalls`, and gateway and exchange keep their actions.
`Troubles` says what may go wrong around the pass, and `met` what has: a
property that holds only without a trouble names it.

**VerifyMutate** and **VerifyOperator** model the other write passes of
`verify.py`. A call of theirs is one step with four ends: answered, raised
without effect, raised with its effect, raised with a request that arrives
later. VerifyMutate has the pass from its three probes and its search for a
contract on, an answer to SubmitOrder that names no `client_order_id`, and cancels
refused after their receipt (`CancelDeclined`); `unseen` notes the orders that one
of the last two left open behind the pass's back. VerifyOperator adds another
operator who changes any setting meanwhile, permissions withdrawn between two
steps, a created member whose answer has no id, the answers the pass judges
(`Judged`) and the exception its own `try` does not name (`Uncaught`); `forgone`
notes what the pass made and then reported the clean-up of as a [SKIP].

**VerifyRun** is `main`: the passes in order, what each kind of step counts an
outcome as, the Results that are held until all write passes are over, the
restart and the exit code. It extends VerifyMutate, whose steps it runs. Two
exceptions escape the harness here: one out of the search for a contract, which is
no step (`MutateEscapes`), and one out of the restart that is no `VoltnirError`
(`RestartCrashes`).

**MCOrderCalls** adds the symmetry set of the call identifiers. The symmetry is
over calls, and the one temporal property of its run, the refinement, is a safety
property whose mapping permutes with them. **MCStreams** and **MCVerifyRun** bound
the composition (below).

## Runs

| Run | Module | Shows |
|---|---|---|
| `OrderCalls` | MCOrderCalls | order calls under one key, a gateway restart anywhere: the inductive invariant, honest rejections, key protection, the key handed back, and the refinement of `OutcomePromise` |
| `CancelAll` | CancelAll | both scopes, called again after an error, with barred orders and late refusals: honest about an incomplete sweep, and a success overlooks no order it may cancel (1.73 million states) |
| `Baskets` | Baskets | entered and cancelled under one `basket_ref`, again after errors and across a restart: honest, one basket at a time, no order forgotten, and the refinement of `BasketPromise` (593 000 states) |
| `Streams` | MCStreams | every kind of stream on a connection that breaks or goes silent; two recalls by the reader of a trade stream, which keep `OutcomePromise` |
| `ClientLifecycle` | ClientLifecycle | both clients, three calls, one handler: late calls refused, no escape of a coroutine but by being cut off, and `SubscriberServed` (102 000 states) |
| `ReportExport` | AsyncExport | an export of either client: no short file, its timeout kept, an end, and a cancelled task that lets go |
| `OrderBuilders` | OrderBuilders | every submit, basket, modify, patch, mode, cash cap and amount over the bounded arguments |
| `VerifyReconcile` | VerifyReconcile | the pass with failing reads, a late gateway, answers on receipt, forgotten keys and a restart: what its verdicts are worth, and its termination |
| `VerifyOperator` | VerifyOperator | one late request and one change by another operator anywhere, any step denied, refused or unheard: what changed and what was left, and whether it shows (2.84 million states) |
| `VerifyRun` | MCVerifyRun | the whole run with the mutate pass in it: every setup and restore failure, orders left open, and an exit code that is true (2.09 million states) |

Runs that must fail, each on one statement of a comment or document:

| Run | Statement | What the code does |
|---|---|---|
| `ClientSyncRace` | any call on a closed client raises `ClientClosed` | test and use of the channel are two steps: gRPC's `ValueError` |
| `VerifyReconcileRead` | probe orders are cancelled on every exit path | one failed read, then one early NotFound: the order appears afterwards |

Other disagreements met while modelling. No run is spent on them; the models
have the behaviour, and the properties exempt it by name or by bound:

* an export can outlast its timeout, which `python_sdk_v1.md` says "bounds the
  whole export": a request's socket waits each get all that is left
  (`TimeoutKept` says by how much);
* an amount that does not fit the tick is to be "rejected, not rounded", but a
  product of more digits than the decimal context holds (28 by default) is
  rounded by the multiplication before it is tested (`ConvertedExactly` is
  stated for amounts within the context);
* a modify whose action is unset is read as MODIFY by the server and escapes the
  SDK's restatement checks (`CheckedIsTaken` exempts it);
* `_reconcile` calls an order live that the gateway holds as rejected,
  `_reuse_key` calls any error a correct refusal, and `_reconcile_cleanup` calls
  an order cancelled whose cancel was only received;
* the operator pass, "without net state change", sends the account-wide cancel
  again when trading was disallowed, releases a kill switch engaged between its
  reading and its writing, and leaves the test member when the unguarded
  `get_cash_limit` raises, or the allocation's call with no `VoltnirError`
  (`ResidueReported`: the run is fatal then);
* a permission withdrawn between `AddHoliday` and `RemoveHoliday` leaves the
  sentinel with a [SKIP], and a created member without an id stays active with one:
  the run is green over both (`forgone` in `ResidueReported`);
* a SubmitOrder answered without a `client_order_id` ends the mutate pass without a
  cancel and without a failure (`unseen` in `LeftoverReported`);
* an order call of the async client that `close()` cuts off ends in
  `asyncio.CancelledError`, neither a `VoltnirError` nor the `OrderOutcomeUnknown`
  that a thread gets, though the order may be on its way (`AsyncEscapesOnlyCut`
  names it);
* the sentinel's clean-up is skipped with the note that it "was never written",
  though an `AddHoliday` that raised may have been applied;
* the restart step takes every `VoltnirError` for the connection the restart
  drops, and passes; any other exception ends the process before its report;
* with an account-wide key the mutate pass can be green over the basket's order,
  if that is still pending when the sweep comes (`LeftoverReported` holds for a
  member-scoped key, `Scoped = TRUE`).

### Bounds, and why they are enough

* **OrderCalls.** Calls and keys are independent in the code except through the
  gateway's record of one key, so one key with three calls (submit, resubmit,
  command) meets every conflict; a behaviour with a restart in it has two calls
  (`Bounded` in MCOrderCalls). One revision is enough for a command to be stale,
  and a second restart finds the state the first may leave. `RefusalCodes` holds
  one code with a class of its own and an uncertain one. The theorems
  cover every number.
* **CancelAll, Baskets.** Two orders are the least for a partial sweep or a
  mixed list, two calls the least for an overlap, a retry, or a cancel of a basket
  still being entered. The theorems take any orders and any number of calls.
* **Streams.** Two rows, so that one can be missed while the other is seen; a
  queue of two, so that it overflows; `MaxRev` 2, so that a row can go back.
  Losses and silences of the connection and calls of recall are two together;
  recalls are tried on the default options, with the other row absent. The
  theorems bound none of these.
* **ClientLifecycle.** Three calls on one handler: one served, one abandoned, one
  waiting. The theorems take any number of calls and any pool.
* **ReportExport.** `HeadWaits` is the longest run of waits in one request,
  `MaxPause` lets a consumer hold a chunk beyond the timeout; timeouts of zero,
  of three ticks and none; files of no chunk and of two. The theorems take
  every timeout, interval and size.
* **OrderBuilders.** `MaxWire` is 3 and baskets hold up to `MaxBasket` + 1
  orders; a decimal context of four digits stands for 28, so that products fall on
  both sides of it. Arguments are varied in groups (identity, delivery, amounts),
  the rules of a group not depending on another's. The theorems about a request
  take every argument, any `MaxWire` from 2 and baskets of any length; the ones
  about an amount take any context, and amounts of five digits and six places.
* **VerifyReconcile.** One probe, its resubmission and one cancel are the calls
  the code makes for a key. The theorems let any number of calls and keys stand
  beside them.
* **VerifyOperator.** `MaxLate` and `MaxOther` are 1; two policies, one of which
  the setter does not know; a cap of zero and none. The theorems bound none of
  these.
* **VerifyRun.** `MaxSteps` is 1 per pass: the counters are kept as what has
  been counted at all, so a second step of a pass adds nothing that another pass
  does not. What the mutate pass left on its way moves on once the run is over
  (`Bounded` in MCVerifyRun): no other pass reads it. The theorems take passes of
  any length.

`CHECK_DEADLOCK FALSE` stands in every configuration: calls end, a client is
closed, a pass is over, and nothing more happens.

### Fairness

* **ClientLifecycle** (`FairSpec`): threads and tasks run; unary calls have a
  deadline (the client's default is 10 s); consumers leave their streams; the
  server notices a cancelled call and starts queued calls in an order that passes
  nobody over. Nothing is assumed of `Check`, of `Close` or of the server ending
  a call.
* **Streams** (`StreamFairness`): the reader subscribes again, takes what it was
  sent and, on a tail, asks and reads its pages; a gateway that noticed a reader
  behind serves it; pings are sent if the channel's options ask for them. The feed
  and the network owe nothing: `Converges` is about what follows once they are
  quiet, and fails if a caller's option replaces the keepalive defaults.
* **ReportExport** (`FairAsyncSpec`): the iterating thread or the loop runs, the
  executor has a worker to spare, the worker runs and a socket that was shut
  wakes its reader. Neither network nor clock is assumed: the clock is the
  premise inside `ExportEnds`, and `CancelReleases` needs none.
* **VerifyReconcile** (`FairPassSpec`): the pass is a running process; its calls
  have deadlines; the clock of its window runs (strong fairness, since each poll
  disables the window's end while it is under way).

## Proofs

Everything below holds for any sets and any values of the constants that the
named assumptions allow. TLC evaluates the assumptions in the runs. Each
component has an inductive invariant, proved action by action, with lemmas for
what one action does to one call, order or setting; the properties follow from it.

**OrderCalls_proofs**, the calls: `TypeCorrect`, `CallInvariant`,
`HonestRejectionHolds` and `PromiseKept`, the refinement `Spec => KeepsPromise`.

*Why an invariant had to be found.* `HonestRejection` is not inductive: an
answer that will reject is built before the caller hears it, and in between the
request must already be beyond the exchange's reach. `CallInv` is the type
invariant and three parts. `StageInv` ties a call to its request (an idle call
has none; only an executed request was applied). `ReplyInv` says of the answer
under way what `OutcomeInv` says of the caller's outcome: if it rejects, the
request is `Void`, if it confirms, the request was applied. `Void` is stable
(`Settled`): no action brings back a request that has left the wire and the
exchange. The heart is `UncertainReply` with `UncertainIsUnknown`: every status
the gateway or the transport gives without knowing the fate has a code of
`UNCERTAIN_CODES` and no marker, so `translate` makes it `OrderOutcomeUnknown`;
every other status is given only when the request is already `Void`. The
refinement maps a step to `Apply` (the exchange executes), `Lapse` (a request
becomes void; in a restart several at once), `Tell` (a call concludes) or a
stutter; `StepKinds` classifies the steps, `StepPromise` assembles them.

*The key*: `KeyProtects` and `NotProcessedFrees`. One order per key is not
inductive either: a second could come from a submission still on its way.
`KeyInv` adds that every submission that is out is the `holder` of its key's
pending record, so there is one, and that an order rests only under a live
record or under the pending one of its own executed submission. For the key
handed back, `FreedInv` follows the answer from the broker's return: a request
whose answer says `NOT_PROCESSED` is over and blocks nothing, no other status
reads so (`OnlyMarked`, `PlainStatus`), and a record is settled by its own
submission only once that has left the exchange.

*The reconciliation pass*: `PassIsCalls`, `PassInvariant`, `AbsentFinal`,
`KeyStaysUsed`, `ProbeIsAccounted`. `PassIsCalls` is `PassSpec => Spec`, so that
`CallInv` and `KeyInv` are there to build on. What the pass concludes rests on
state it cannot see, and `PassInv` says which: the pass makes each call once and
at its place (`MadeInv`), what it read and what it made of it agree (`ReadInv`),
and then, per verdict, that an order not cancelled is on the book and on record
(`RestingInv`), that a record once found stays, so its key takes no other order
(`FoundInv`), and that a probe absent at the clean-up is `Void` and on no book
(`CleanInv`). Each names the troubles without which it holds. `MetInv` is
needed because without a bare receipt an answer is the outcome itself:
otherwise a cancel could be answered while its order rests. This part alone
uses the assumptions of VerifyReconcile.

**CancelAll_proofs**: `SweepTypes`, `SweepTellsTruth`, `SuccessOverlooksNone`.
`ShapeInv` gives the sweep its shape (a command goes out once). `HonestInv`
says of the answer under way what `SweepHonest` says of the outcome, and of an
account-wide call what its one command came to. `ClearInv` follows each order
that was on the market when the call was made and is not barred: off, or a
target, and a target counted as acknowledged has a command that was received,
executed or declined. An executed one has taken its order off.

**Baskets_proofs**: `BasketInvariant`, `BasketsHonest`, `OneBasketAlive`,
`NoneIsForgotten` and `BasketsKeepPromise`, the refinement `Spec =>
KeepsBasketPromise`. `Promised` says what an answer stands for; `PromiseInv` has
it of every answer given and of the one on its way. It needs the truth of the
gateway's records (`RecordInv`: what is held, the exchange has reported), of a
list refused whole while its caller waits (`WholeInv`), and of the cancel at
work (`SweepInv`: each of its orders is to do, in hand, or has a result that its
command bears out). `HeldInv` is what a restart destroys: all records are of one
submission, and an order at the exchange has one. The assumption `BasketCarries`
is `_orders.py:307-308`, which refuses a basket of no orders; without it
`OneBasketPerRef` could not be proved, because a basket of nothing leaves no
record behind that refuses the next.

*The refinement.* `FateStands` and `GripStands` say how far a step of the model
may move what an observer sees: to nothing, or from open to one end. `Lapsing`,
`Deciding`, `Grasping` and `Telling` map the steps that show to `Lapse`, `Meet`,
`Grasp` and `Tell`; `NothingShows` is the stutter, `StepPromised` assembles the
cases. `BasketInv` does not suffice. Of a cancel's results it speaks only of the
orders that were there when the call was made, which is all that honesty needs;
a `Grasp` must also know that each order a command is out for was placed, and a
`Tell` that "cancelled" and "none" are true of every order the gateway named.
`GraspInv` adds that, and that calls are made in turn, so that a `Tell` is of a
call that was asked.

**Streams_proofs**: `StreamTypes`, `TailOnlyAdvances`, `CleanEnd`,
`ViewCurrent`. What a reader holds is made right by what is still on its way, so
the invariant is about the queue: `ComesTo(v, q, r, w)` says that a reader that
holds `v` of row `r` will hold `w` once it has taken `q`. `FeedInv` says so for
every row unless the gateway has noticed the reader behind; `OneInv` and
`EndedInv` add that the end of a `watch_order` comes last and behind the terminal
state. A tail has no such guarantee: `TailInv` says that nothing held, queued or
on a page is ahead of the gateway, and that each row is on its way (`OnItsWay`)
unless one was skipped since the reader last asked.

*Recalls*: `RecallIsStream`, that TradeRecall only adds to a stream, carries the
four theorems over; `RecallTypes`, `RecallTruth` and `RecallPromise` follow, the
last `Spec => RecallKeepsPromise`. `RecallTold` says of the answer under way,
read as `_recall.py` would read it, what `RecallHonest` says of what was told:
an answer by which the trade stands unasked is built only once the recall is
beyond the exchange's reach, and the loss of a trailer turns no other answer
into such a one (`OpenClasses`).

**VerifyRun_proofs**, the mutate pass: `MutateTypes`, `LimitsPutBack`,
`LeftoverSeen`. `PriorsInv` says what the pass knows: a prior value it noted is
the right one, and a setting it noted none of it has not touched. `RestoredInv`
then says that past its restore a setting is the prior one, but for a restore
that was warned about and a lift that overtook it. `NotLeft` says of a pass without
a failure that it has no request on its way, no order before its submit, and past
its sweep none open but an `unseen` one; a cancel refused before the sweep is
cancelled again by it. `EarlyApart` sets the steps before the setup aside.
`LeftoverSeen` assumes `Scoped`.

*The run*: `RunHasMutate`, `RunInvariant`, `ExitTrue`. `RunHasMutate` is
`RunSpec => Spec`: the pass inside the run is the pass by itself, and what was
proved of it holds. `ExitIsTrue` speaks of the end, `CountInv` of the way
there: a failure is in a Result (`result`, `held` or `aggregate`) that a pass
still to come will add up, and none is made up. For the mutate pass, whose
`failed` is counted when it ends, that pass must still be ahead; for the held
Results the members pass, which is the last of the write passes (`PassesInv`).
`ExitTrue` assumes `Scoped`, as `LeftoverSeen` does, since a leftover is a part of
it.

**VerifyOperator_proofs**: `OperatorInvariant`, `OperatorTypes`, `NoNetChange`,
`ResidueShows`. The pass reads a value in one step and writes it in another, and
a request may arrive after both. `RaceInv` says that of a setting nobody raced
for, the gateway, the value the pass holds and every request still on its way
agree with what people last made it, the sentinel apart; `ReadInv` that the value
held is the one of the setting about to be written. `CleanInv` says that as long
as nothing was reported no request is late, so that the step the pass is at tells
what of its own is left at the gateway, but for what it has forgone.

**AsyncExport_proofs**: `ExportInvariant` of the blocking export (`Spec` of
ReportExport), `AsyncInvariant`, `AsyncTypes`, `WholeFile`, `TimeoutHolds` and
`LateRequestIsOne` of both clients (`AsyncSpec`). `TimeoutKept` is about the
moment a wait is over; `OnTime` is about the wait itself: what is left of the
timeout covers the pause under way or what the socket may still take, and in the
head of an answer all but the socket waits before this one, at most `HeadWaits`
of them of `RequestTimeout` each. For the task, `ItemsInv` says that a worker
that does not run leaves the export between two work items, where it waits for
nothing; `LateInv` that a request sent after the task's end is the last, since
its worker is past the points a request is sent from and is given no other item.

**ClientSide_proofs**, the lifecycle: `LifecycleInvariant`, `LifecycleTypes`,
`LateRefused`, `AsyncEscapes`. `LateInv` says that a call begun after
`close()` ends where it began. `AsyncInv` is the absence of an `await` between
test and use, and between the two lines of `close()`: no coroutine is between
them, the flag and the channel agree, and one that was cancelled is among those
`close()` cut off. For threads neither holds, and
`ClientSyncRace` is the counterexample. `ServerInv` counts the busy handlers with
the cardinality theorems.

*The builders*: `SubmitChecks`, `BasketChecks` and `ModifyChecks` are about every
argument of the three calls, with any integer or none where the code takes an
integer and any number of orders in a basket: a local refusal for a rule of the
gateway's is one the gateway makes, what passes is taken, and the order a basket's
refusal names is one to blame. Two lemmas split an order as the code does, by the
first group of its checks and the second. A basket's refusal names the first
offender; that there is a first one is `Least`, by the well-foundedness of the
subsets of a finite set. `NothingStricter`, `CheckedTaken`, `OffenderNamed` and
`WireSaysCall` carry this over to the invariants of the run.

*The conversions*: `ConversionExact`, for every decimal context. It rests on
`ScaleExact`, which takes every amount of up to five digits and six places,
those of the run and the ones between them, scaled by at most 10^5.
`NothingRounded` is the crux: of a product `Scaled` drops no more digits than the
scale added, so that within the context only zeros go. It needs what `DigitCount`
says of a product by a power of ten (`ScaleDigits`) and, since these are not
linear, lemmas for each use of multiplication (`Multiple`, `ModScale`,
`PowersAdd`); the powers are those up to the tenth, one by one.

*What failed first.* An attempt to prove `RunInvariant` exposed a fault of the
model: `CountedAs` of VerifyRun was a CASE whose guards overlap, which TLC reads
from the top and the logic does not. It is now the IF / ELSE IF the code is, and
so are the like definitions of Units and OrderBuilders. `OneBasketPerRef`
brought out `BasketCarries`. `FateOf` of Baskets, first written with a guard
that covered another, left the refinement unproved for the same reason as
`CountedAs`, and `GraspInv` was found where `Grasping` failed under `BasketInv`
alone. The first offender of a basket was a search through the sequence; it is
now the least element of the set of offenders, which TLC finds as well and a
proof can speak of.

*Model-checked only*, and why:

* every liveness property (`Converges`, `SubscriberServed`, `ExportEnds`,
  `CancelReleases`, `PassEnds`): liveness under fairness, and ENABLED, are beyond
  the prover. Every other property of the passing runs is a theorem;
* amounts of more digits than `ConversionExact` takes: the powers of ten are a
  recursive function, and what holds of all of them needs an induction that this
  prover cannot use; amounts beyond those of the run are in neither;
* `MCSpec` in three runs, which only bounds a specification that the theorems
  take without its bound.

## Hazards without a property

Five of the hazards in `PROJECT.json` have none, for the reason their note
gives: a modify with an unset action (the code is known to send it), an
interrupt of the mutate pass between lift and restore (nothing claims to
survive it), the basket's pending order under an account-wide key (shown by
`Scoped = FALSE`, claimed nowhere), a lift that overtakes its restore (the code
cannot see it; `PutBack` exempts it), a cancel of the reconciliation pass refused
after its receipt (the pass sees nothing after the receipt).

## Not modelled, and why

* The gateway and the exchange in themselves: only as the environment.
* Trades recalled together with their parent, the size limit of a message,
  rows of a tail that are never stored, the end of `watch_hub2hub` on a gateway
  without it: rules of the gateway that the SDK only documents.
* A client closed while an export's iterator is used: the export holds no
  channel.
* Some fifty single-call wrappers, authentication, enums, generated code, the
  reading of certificates and environment: no state, no branch, or pure I/O.
* The call recorder of `verify.py`: no exit code depends on it.
* Wording of messages, apart from the prefixes and the clause `translate` reads.
* A process that is killed in the middle of a pass.

## Plan

Written, the most consequential first: OrderErrors, OrderCalls, OutcomePromise,
OrderCalls_proofs, VerifyReconcile, CancelAll, ClientLifecycle, ReportExport,
VerifyOperator, VerifyMutate, OrderBuilders; then Baskets, Streams, TradeRecall,
AsyncExport, Units, VerifyRun; then the proofs of CancelAll, Streams and the
mutate pass, and those of the reconciliation pass, Baskets, TradeRecall,
VerifyRun, VerifyOperator, the exports and the lifecycle; then the proofs of the
builders and the conversions, BasketPromise, and the two refinements by Baskets
and TradeRecall. What is left:

1. **Composition.** VerifyOperator and VerifyReconcile as passes of VerifyRun,
   as VerifyMutate is.
2. **The limits of the mutate pass** under an interrupt, should the code come to
   guard them with a `finally`.
