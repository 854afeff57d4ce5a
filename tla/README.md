# A TLA+ verification of the order matching system

The repository is a trading venue: per symbol one order book, owned by one
goroutine (the sequencer) that logs every mutation before it applies it; one
account store that all symbols reserve against; a gRPC API; a PostgreSQL
journal; and asynchronous replication by shipping the log. This directory holds
its TLA+ models, the TLC runs that check them on small instances, and proofs
that TLAPS checks for every instance. `PROJECT.json` is the index: which
definition models which lines, what each run checks, what each theorem states.

## 1. The system

| Part | State | Operations | Talks to |
|---|---|---|---|
| Order book (`oms/book.go`) | price ladders, a FIFO level per price, index by order, trade counter, highest order id | `SubmitOrder`, `CancelOwned`, `Snapshot`, `RestingOrders` | called by one sequencer only |
| Sequencer (`oms/sequencer.go`) | request channel, pooled reply channels, position, order-id counter, sticky log error | `Submit`, `CancelFor`, `Snapshot`, `Close`; goroutine `run`/`drain`/`commit` | book, log, account store |
| Write-ahead log (`oms/wal.go`) | segments, buffered writer, last position | `Append`, `Sync`, `Close`, `OpenWriter`, `Recover` | sequencer, tailer, replica |
| Account store (`oms/accounts.go`) | cash, positions, reservations, a hold per live order | `Reserve`, `RestoreHold`, `Release`, `Complete`, `LoadBalances` | every sequencer, under one lock |
| Registry (`oms/registry.go`) | symbol to sequencer | `Get` (creates and recovers lazily), `Close` | API |
| API (`api/server.go`, `api/feed.go`) | trade feeds: a bounded channel per subscriber | `PlaceOrder` (submit, then settle), `CancelOrder`, `GetBookSnapshot`, `StreamTrades` | registry, ledger |
| Ledger (`ledger/ledger.go`) | journal entries, unique per leg | `Settle`, `Balances` | API, start-up |
| Tailer, replication service, replica (`oms/tail.go`, `api/replication.go`, `replica/`) | read offset; a log and a book of its own | follow the primary's log, apply, reconnect | log files, gRPC |
| Server process (`cmd/server`) | | start-up from the journal, graceful shutdown | all of the above |

What is hard here, and what each part has to get right:

* **Book.** Several structures describe the same orders and are changed in the
  middle of a loop that pops, trades, skips the taker's own orders and puts
  partly filled makers back. It must stay uncrossed, in price-time priority,
  with an exact index, and the loop must end.
* **Sequencer and log.** Group commit with failures and crashes between any two
  steps; positions rolled back and resumed; callers that leave while the
  request is in flight, with reply channels that are reused; Close against a
  stream of requests. Nothing acknowledged may be lost, nothing numbered twice,
  no caller may get another's answer, every call must come back.
* **Accounts and venue.** Symbols interleave on one store; a hold must be given
  back on every way out; balances are rebuilt from a journal that some trades
  have not reached, holds from logs, symbol by symbol.
* **Log files.** A rotation is a sequence of system calls, and a crash between
  any two must lose nothing that was synced, reissue no position, and leave a
  directory that opens again.
* **Replication.** Reading files that are being written, rotated and truncated;
  resuming after failures on either side without duplicates or holes; reporting
  a lag that an operator may trust.
* **Server.** Callers race to create symbols; the matching goroutine publishes
  to subscribers that may not read; a shutdown meets open streams, orders in
  flight and sequencers that stop by themselves.

`PROJECT.json` lists these as `hazards`, each at its line.

## 2. The modules

| Module | What it is |
|---|---|
| `Orders` | orders, trades and the tests on a pair of orders (`types.go`) |
| `BookFn` | matching as a function: the outcome of a whole submission |
| `BookSpec` | what a book promises: a set of orders, price-time priority |
| `Book` | the book of `book.go`: ladders, levels, index, one step per loop iteration |
| `BookSpecProofs` | theorems about `BookSpec` |
| `BookProofs` | theorems about `Book`, and its refinement of `BookSpec` |
| `SequencerSpec` | what the sequencer promises: a history that only grows |
| `Sequencer` | callers, reply pool, goroutine, log, crash, recovery |
| `SequencerProofs` | theorems about `Sequencer`: the disk, numbering, reply channels, where a call is, refinement of `SequencerSpec` |
| `Accounts` | the account store: each method as a function on a store |
| `Venue` | several sequencers' commits over one store, settlement, restart |
| `LogSpec` | what a write-ahead log promises: a sequence and two watermarks |
| `Wal` | a log directory and its Writer: segments, rotation, crash images, recovery |
| `Log` | a sequencer's use of `Wal`: group commits, failures, restarts |
| `LogProofs` | lemmas about `Wal`'s operators, theorems about `Log`, and its refinement of `LogSpec` |
| `Replication` | `Log` as the primary, a tailer, a connection, a follower with a `Wal` of its own |
| `ReplicationProofs` | lemmas: what each step of `Replication` does to types and to the order of what is under way |
| `ReplicationFlowProofs` | theorems about `Replication`: types, and the order in which the follower stores and applies |
| `ReplicationStoreProofs` | theorems about `Replication`: the follower's records against the primary's, its reports, its disk |
| `Server` | registry, trade feed, `PlaceOrder` and `StreamTrades`, shutdown |
| `ServerProofs` | theorems about `Server` |
| `MC...` | instances for TLC |

### Book

`bids` and `asks` are the ladders (sequences of prices, best first), `levels`
maps a price to its side and queue, `index` maps an order to its level's price
(the code's list element is `Element`, the order of that identifier in the queue:
that an entry points at an element which has left its list cannot be said here).
`Assign` is an assignment to a map's key.
`SubmitOrder` starts a submission, each iteration of `matchAgainstAsks` or
`matchAgainstBids` is a `MatchSelf` or `MatchTrade` step, `Rest` ends it;
`CancelOwned` is one step. A level is found by price alone, as in
`getOrCreateLevel`. `before` is a history variable for
`SubmitMatchesReference`. `RefuseUnknown` is the early return on an unknown
side or type. `Snapshot` is an operator: it is a read. That ladders, levels and
index hold the same orders is `StructuresAgree`; that a snapshot's totals are the
sums over the queues is `SnapshotIsExact`.

### Sequencer

A caller is in `do`: `Call` takes a reply channel from the pool or makes one;
the first `select` ends by `Receive`/`Drain` (the goroutine took the request),
`RefusedClosed` or `CancelSending`; the second by `GetReply` or
`CancelWaiting`, which drops the channel. The goroutine is `pc`: `select`,
`drain`, `log`, `apply`. `Prepare` is the head of `commit`: it numbers the
submits and lets the pre-trade check refuse any of them (module `Venue` has the
check itself). `SkipRecord`, `AppendRecord`, `AppendFails`, `Sync`, `SyncFails`
are `logBatch`; the replies are `ServeSnapshot`, `RejectPreTrade`, `RejectWAL`
and `Apply`, one per branch of the `switch`.

The book is the sequence `applied` of the records it was given. That is exact:
the book is deterministic, so two equal sequences give two equal books, and the
properties here are about which records it gets and when. The log is a sequence
with two watermarks, `flushed` (in the file) and `synced` (on the disk). An
append may spill the buffer into the file or rotate, which syncs what came
before; a failed flush leaves any part of the buffer in the file and latches
the writer; a failed fsync leaves everything in the file. A crash keeps at
least the synced and at most the flushed records. `Restart` is
`Registry.newSequencer`: replay, open the writer (which syncs), resume.

### Accounts and Venue

Every method of the store takes its one lock, so `Accounts` has functions from
stores to stores. `Venue` interleaves symbols between any two of them: a commit
is `CollectSubmit`/`CollectCancel`, `ReserveNext` per request, `LogBatch` (which
may fail with any part on disk), then per request `AnswerRefused`,
`AnswerUnlogged`, `ApplyCancel` or `ApplySubmit`. Here a submission is one step,
by `BookFn!SubmitAll`; the run `book` checks that `Book` computes exactly that. A trade
goes to the `PlaceOrder` handler, unless its client has hung up, which settles
it or fails to. `Restart` ends the process anywhere and rebuilds the store from
the journal; `Load` is the lazy creation of a symbol with recovery of its book
and its holds. Accounts are funded in the journal, outside this program, as the
comment on `seedAccounts` says real accounts are.

### Wal, Log and LogSpec

`segs` maps a name (the first position) to a file: whether its header is there
and its records verify (`ok`), its complete records, whether a part of one
follows (`torn`), how much is durable and whether its directory entry is.
`InOrder` puts the segments' records together in the order of their names, for
`Recover` and `Durable` alike. `w` is
the Writer, with the buffered records, the size that decides on a rotation and
the point `openSegment` has reached: `CreateFile` (`O_CREATE|O_TRUNC`),
`WriteHeader`, and then the two fsyncs, whose effect is `Named`. A record is its
position and an identity; all records have one size. `Put` may spill the buffer,
with the file then ending in a part of the record being written. Each call of
the Writer has a successful and a failing form, the failing one with whatever it
leaves behind. `Crash` chooses for each file what is left: at least its durable
part, perhaps more, perhaps a torn record, perhaps no header, and of a file
whose name is not durable perhaps nothing. `FsyncNames` is the file system's
habit of making a new file's name durable with its data, which ext4 and xfs
have: `OpenWriter` on an existing segment syncs the file but not the directory,
and with `FsyncNames = FALSE`, `BookSurvives` does fail for a segment whose
creation was interrupted between the two fsyncs.

`Log` is the sequencer as the owner of a Writer, with `newSequencer`'s recovery.
`LogSpec` is the same log without files, with the watermarks that `Sequencer`
uses: `ImplementsLogSpec` is what justifies them.

### Replication

The primary is an instance of `Log`, the follower's log one of `Wal`. `tail` is
the StreamWAL handler: `LocateSegment`, `ReadSegment`, `SegmentExhausted`,
`Advance` and `Send` are the looks at a file and at the directory that `poll`
takes, each a step of its own between those of the writer, with a step for each
record that `readSegment` reads. `DamagedSegment` is a
segment whose header is not there (yet). `net` is the stream, which delivers in
order and can be cut; `ending` is how it ended. `rep` is the follower's
`followSymbol`: `OpenSymbol`, `Connect`, `Receive`, `AppendRecord`,
`SyncAndApply`, and `ApplyFails`, after which it reconnects with the batch half
stored. Three history variables name what the properties except: `raced` (the
tailer has left records behind), `rewound` (the primary came back without
records it had shipped), `retried` (a batch was stored in part and given up).
Symbols share nothing here, so there is one.

### Server

An RPC's place in its handler is `rpc`. `Lookup` and `Create` are `Registry.Get`
under the read and under the write lock. `Take`, `Commit` and `GiveUp` are
`Sequencer.do` against a goroutine that has one request at a time, `Publish` the
feed, called by `Commit` before the reply. `feeds` is the map of feeds, to which
`StreamTrades` and the first trade of a symbol add (`Feed`) and from which nothing
is removed. `Signal`, `Drained`, `Timeout`,
`CloseRegistry` and `RegistryClosed` are `main`. A sequencer may stop as soon as
the signal has come, since it has the same context.

## 3. The runs

States are distinct states found by TLC.

| Run | Instance | Checks | States |
|---|---|---|---|
| `book` | 4 orders of one account or none, prices 1..2, quantities 1..2 | structure at every iteration, result against `BookFn`, refinement of `BookSpec`, sorted exact ladders and snapshots, termination of the loop | 170 006 |
| `sequencer` | 2 callers, 3 calls, batches of 2, 1 crash | durability, numbering, reply channels, refinement of `SequencerSpec` | 2 370 000 |
| `sequencer_live` | 2 callers, 2 calls, 1 crash | every call comes back, Close ends | 84 996 |
| `venue` | 2 symbols, 3 requests, batches of 2 | reservations under interleaving | 980 086 |
| `venue_restart` | 1 symbol, 3 requests, quantities 1..2, 1 restart | holds, conservation, trade numbers, journal | 1 538 607 |
| `log` | 6 records, segments of 2, 2 failing calls, 2 crashes | nothing lost or reordered, dense positions, exact names, refinement of `LogSpec` | 13 039 |
| `replication` | 2 records, segments of 1, batches of 2, 1 in flight; one crash of the primary, one fault and one crash of the follower | the follower's log and book against the primary's, lag, catching up | 184 024 |
| `server` | 2 orders, 2 subscribers, 2 symbols, limit 1, buffer 1 | one writer, limit, exact feeds, no stall, shutdown | 626 792 |

**Why the bounds are enough to be interesting.** With four orders a book has a
level with two makers, a taker that sweeps two levels, a partial fill with an
order behind it, and a self match between two trades. With three calls and two
callers a channel goes through the pool and is reused while an abandoned
request is answered, a batch has a record before and after the one that fails,
and there is a batch after a failed one and one after a restart. With two
symbols and two cash units each account can be brought to its limit by either
symbol. Three requests make a resting order, a partial fill and a third order
or a cancel on either side of a restart. Six records in segments of two make
two rotations with a crash in each and records behind both. In `replication`
every record begins a segment, so two records are enough for a rotation under
the tailer and under the follower; three records with the same faults were
explored without liveness. `CatchesUp` was also explored with failing calls of the
primary, which its last exception is about. In `server` both orders may be for one new symbol or
for two with room for one, and one unread batch fills a buffer.

**Symmetry** of callers, accounts and symbols is used where only safety is
checked; `sequencer_live` has none.

**Fairness.** In `Book`, the goroutine inside `SubmitOrder` runs on. In
`Sequencer`: weak fairness for the steps of `commit`, for a caller whose reply
is there and for a caller at a closed sequencer; strong fairness for `Stop`
and for receiving from a given blocked sender, since Go's `select` picks among
ready cases at random and blocked senders on an unbuffered channel queue up.
Calls, cancellations, Close, crashes and restarts need not happen. `CallsEnd`
includes the crash that ends the calls of the process. In `Replication`: weak
fairness for the handler, which polls on a timer, for the follower's loop, for a
rotation under way, for the commit that ends every batch, and for opening the
primary's log, which the follower's own requests do (`reg.Get`); no order need
ever be placed. In `Server`: weak fairness for handlers, sequencers and `main`,
its timer included; no client need read, leave or call, and no signal need come.

**Deadlock** is checked in the `Sequencer`, `Venue`, `Log` and `Replication`
runs, with an explicit `Finished` step for a system (in `Replication`, the
primary) that has stopped in order or used up its bounds; so a state in which
callers wait on a stuck goroutine would be reported. It is not checked in
`server`, where the process exits; `NeverStalled` and `ShutdownEnds` say there
that nobody is stuck.

Some properties are conjunctions of named parts about one thing:
`StructuresAgree` (the book's structures at every iteration), `RepliesApart` (the
reply channels), `StoreExact` (the account store), `StoreMatchesJournal`,
`PositionsExact` (positions and segment names), `Bounded` (types, symbols and
buffers in `Server`). `AppliedIsDurable`, `LabelCovers` and the invariants of
`BookSpec` (`Uncrossed`, `UniqueOrders`, `RestingIsLive`, types) have no run of their
own: they are proved, and those of `BookSpec` carry over to `Book` by the refinement,
which the run `book` checks, with `StructuresAgree`. The types of `Log` are proved,
and checked in `replication`.

Each property has a mutant: an operator beside the original, marked
`Mutant:` in its comment, that changes it as a plausible mistake would and makes
TLC report the property.

### What does not hold

Four runs are expected to end in a violation: the code does something other
than the repository says.

| Run | The statement | What happens |
|---|---|---|
| `hang_up` | "a client that hangs up must not be able to abandon its settlement" (`server.go:253`) | it can, by hanging up before the reply |
| `snapshot_label` | a snapshot "reports the log position the snapshot was taken at, which is what makes two nodes' snapshots comparable after a failover" (`sequencer.go:467`; `server.go:290` and `docs/technical.md:297` say the same) | it gets the position of its batch's end, and does not show the mutations behind it in the batch |
| `tail_hole` | "a follower must stop rather than replicate past a hole" (`tail.go:61`) | records flushed to a segment between the tailer's last read of it and the rotation are skipped |
| `torn_rotation` | "bytes that never made it to disk are an expected crash outcome and stop a scan silently" (`wal.go:23`) | a segment without a header, left by a crash in `openSegment`, makes the log refuse to open |

More is visible in the models without a run of its own.

*Sequencer.* What is true of a snapshot's label is `LabelCovers`: it is at or
beyond what the snapshot shows, and on the disk. `Sync`: "nothing
is durable if it returns an error" (`wal.go:259`), but flushed or rotated
records of a refused batch are in the file, Close or the next start makes them
durable, and recovery applies them; `LoggedOnce` says what remains
true: it is not applied before the next start.
`LastPosition` "reports the highest log position assigned" (`sequencer.go:502`),
but `Restart` leaves `lastPos` at 0 until the first batch.

*Venue.* Available is "never negative at accept time"
(`docs/technical.md:129`), but after a restart the holds of a symbol nobody has
asked for are missing (`Covered` fails with `MaxCrashes = 1` and two symbols). A
venue with no resting orders has no holds (`accounts.go:441`), but a trade whose
value overflows is skipped by `Complete` and its maker's hold stays (set
`MaxValue = 1`). A comment in `PlaceOrder` says of an unsettled trade that
"replay will re-present it" (`server.go:248`), while replay settles nothing, as
`docs/gaps.md` section 1 says. A MARKET buy may overdraw its account; the
documentation says so, and `Covered` excepts accounts that have sent one.

*Replication.* Each exception in the properties of `Replication` is a behaviour
the run reaches:

* The tailer reads the file, not what was synced, so the follower can have
  records that the primary loses in a crash and whose positions it then issues
  again for others (`rewound`). `docs/adr/0006-wal-shipping-replication.md:42-45`
  says the opposite: "A record a follower can see is a record that survived an
  fsync, so the follower can never be ahead of the primary's own recovery point —
  which would otherwise be possible and deeply confusing after a crash". A flush
  comes before its fsync, a full buffer is flushed by `Append`, and the tailer may
  read in between: on the instance of `tail_hole`, with no failure and no crash, TLC
  refutes `Len(rep.book) <= Len(P!Durable(segs))`, the follower having stored and
  applied a record before the primary's fsync. After a crash of the primary at that
  point the follower keeps the lost record and skips the new one of that position
  for good.
* A follower that fails to sync a batch gets it again and appends it again.
  While it runs it applies each record once; after a restart it applies what the
  log has, twice for some records, or, when a segment is emptied by `O_TRUNC`
  because the record it is named for comes again, loses some (`retried`). A hole
  has the same effect on segment names (`raced`). As long as it does not restart,
  `O_TRUNC` loses nothing that was applied: what the segment held, being older than
  its name, is also in an older segment, from the first attempt. That is so only if
  the primary sends the same records again, not if it has lost them meanwhile
  (`rewound`): the second part of `AppliedIsStored` excepts this.
* A follower's writer that has failed to flush stays failed until a restart, and
  its symbol makes no progress; a stream that met a segment between creation and
  header stops the symbol for good, although a retry would help
  (`replica.go:297` says "Retrying cannot help").

In the cases of `raced`, `rewound` and `retried` `docs/failover.md:37`
("`recordsBehind: 0` — a promotion loses nothing that was acknowledged") is wrong:
the lag compares positions, and in the first two the follower lacks a record below
its position for ever. `CatchesUp` is about the records, and names these cases.

*Server.* `MaxSymbols` is a "resource bound at a trust boundary"
(`docs/technical.md:386`), and the registry keeps it (`Bounded`); but `StreamTrades`
makes the feed of its symbol before it asks the registry (`server.go:347`) and
feeds are never removed, so subscriptions that are refused still make `feeds` grow.
"Order matters. Drain in-flight RPCs first ... only then close the
logs" (`main.go:202`): the sequencers have the context that the signal
cancels, so they may close their logs first, and orders in flight may be refused.
What has been taken is still answered (`ExecutedIsAnswered`). `GracefulStop`
waits for every open `StreamTrades` and `StreamWAL`, so a shutdown with a
subscriber is always a forced one, after a time shorter than that of a
settlement.

## 4. The proofs

`BookSpecProofs` proves `TypeCorrect`, `NeverCrossed` and `OrdersApart` of
`BookSpec`, for all accounts, prices and quantities, from the named assumptions
of `Orders`: prices and quantities are positive, the empty account is no
account. `Uncrossed` is not inductive alone: an order comes to rest only when
nothing matchable is left, and that makes the book uncrossed only because what
rests are limit orders with a price. The invariant `Inv` adds `TakerIsPriced`
(a limit taker has one of the limit prices), the type, and
the two parts of `OrdersApart`.

`BookProofs` proves of `Book` `StructuresTogether` (ladders, levels and index
agree at every iteration of the matching loop) and `KeepsPriority` (`Book`
implements `BookSpec`: whatever the loop does to its structures is a match of
the best order in price and time, a cancellation or a rest). The invariant `BInv`
has three parts:

* `StructOK`: a level's queue is not empty and holds orders of its price and side,
  oldest first (`LevelsOK`); the index leads exactly to the queued orders
  (`IndexOf`); each ladder is sorted, best price first, and has the prices of its
  side's levels (`LadderOf`).
* `AB!Inv`, the invariant of `BookSpecProofs` read through the refinement mapping
  (`resting <- RestingOrders`). It is inherited, not proved again: each step of
  `Book` is a step of `BookSpec` or a stutter, and `AB!NextInv` gives the rest.
* `Latest`: the taker has the highest identifier, so that one which comes to rest
  goes to the end of its queue.

A step is reduced to what it does to one queue, one ladder and the index; the
lemmas about removing and inserting in a sequence, a sorted ladder and a queue
are stated for any of them. `HeadIsBest` says that the first order of the first
level is one that `BookSpec` may match, and `NothingMatches` that when the first
level does not match nothing else does.

`SequencerProofs` proves of `Sequencer`, for any number of callers, calls,
crashes and any batch size: `TypeCorrect`; `NothingLost` (what was acknowledged
is on the disk, the book is never ahead of the disk); `DensePositions`;
`NeverRewound`. The inductive invariant is `IInv == TypeOK /\ ChannelsCounted
/\ Safe`:

* `Watermarks`: what is on the disk is in the file, what is in the file was
  appended.
* `Idle`, `Logging`, `Replying`: how `seq`, the log, the book and the batch
  relate in each phase of the goroutine. While a batch is being logged, the
  records after the book are those of the batch, in order; while it is being
  answered, the book plus the records still to be applied is the log.
* `Numbered` and `NoneBetween` say "the next loggable request of the batch is
  the next record" as a statement about pairs of indices; counting the
  loggable requests would need an induction that the provers cannot do.
* `IDsBounded`: the order identifiers in the log have an upper bound; it is what
  makes `MaxID`, a `CHOOSE`, well defined at a restart.

`AnswersApart` and `LabelsCover` follow from `IInv` and `RInv`:

* `Owned` says who has each reply channel: one in the pool is empty and nobody
  else's; two callers have two; two requests that wait for an answer have two,
  both empty, and a caller that still holds one of them waits for that answer.
  `RepliesMatch`, `PooledIsEmpty` and `ReplyNeverBlocks` each need the others,
  and all need this.
* `RolledBack`: a log that failed leaves the position at the book's last record,
  so that a snapshot in a refused batch has a position that is on the disk.

`CallsLoggedOnce`, `IDsAscending` and `KeepsPromise`, the refinement of
`SequencerSpec`, follow with `CInv`, which says where a call can be: one that was not made is nowhere (`MadeCalls`), two requests are of two
calls (`RequestsApart`), a call is in the log once and not before `logBatch` has
come to it (`LogApart`), one that waits for its answer has not reached the book
(`BookApart`), and until a restart a refusal means that the log has failed and
the book stands still (`RefusedApart`). `IDsAscend` orders the identifiers of
the log, and those of the batch behind it.

`ServerProofs` proves `SingleWriter`, `LimitsHold`, `FeedIsFaithful` and
`NoAnswerMissing`, for all symbols, limits and buffers and any finite set of
callers. The invariant ties the registry to the goroutines: a log is open
exactly while its sequencer's goroutine runs, and a symbol is registered exactly
when its sequencer was ever started (`Registry`), so `Create`, under the write
lock, never meets a running one. `Served` and `Counted` count the published
batches by the orders that traded and are no longer in commit, which
`FeedFaithful` needs to know that a batch's number is new. `NoneLeft` carries
the emptiness of the server from the drained phase to the exit.

`LogProofs` proves of `Log`, for any segment size and any number of records,
failing calls and crashes, `TypeCorrect`, `RefusedLosesNothing`,
`AcknowledgedSurvives`, `NumbersExact` and `KeepsLogPromise`. Its first part has
the lemmas about `Wal`, whoever owns the log: segments read in order, and, for
records of any kind in any order (`WalOK`), what each call of the Writer does
(`Extended`: a file only grows, in records, durability and name). There are two
invariants:

* `GInv` holds on any file system: a segment's records are numbered from its
  name, and one that cannot be read is the newest and empty (`SegsOK`); an open
  Writer appends to the newest segment, in a file without a torn end, and what
  it holds comes next (`Held`, `Placed`); `openSegment` makes a segment newer
  than all others, and empty (`Opening`). `TypeCorrect` and `RefusedLosesNothing`
  follow from it.
* `SInv` needs `FsyncNames`: each segment is named for the position after all
  that the older ones hold, and the records are numbered without a gap
  (`Exact`, `Dense`); all segments but the newest are wholly on the disk
  (`Settled`), which is what a rotation syncs for; a new segment is begun when
  all others are on the disk, and continues them (`Begun`); and `BookSurvives`
  itself. The hypothesis is not a
  convenience: without it the theorem is false, see `Wal` in section 2. Where it
  is needed is one step, `OpenWriterOnNewest`, which syncs the file and not the
  directory.

The refinement of `LogSpec` takes the recovered records and the buffer for the
log, the length of the first for `flushed` and of what is durable for `synced`.
An append maps to `Append1`, a rotation and a commit to `Sync`, a failing call
and a shutdown to `Fail`, a restart to `Open`, the end of the process or the
machine to `Crash`; the steps inside `openSegment` and a restart that fails are
stutters.

The three modules on `Replication` prove, for any segment, batch and network size
and any number of records, faults and crashes of either side, `TypeCorrect`,
`AppliedInOrder`, `FollowsPrimary`, `LagHonest` and `AppliedStored`; all but the
first with `FsyncNames`, as for `Log`. `LogProofs` is instantiated twice: `PL` is
the primary, and `FL` the follower, read as the owner of a log that applies a
batch where a sequencer would commit one (`FNode`, `FPos`). So the follower's log
keeps what `LogProofs` says of a log, by the same lemmas, while its records come in
order.

* `TInv`: the types, on any file system, whatever the order of the follower's
  records (`FL!WalOK`).
* `Flow`: the batch being applied, the batches in flight and the one being
  collected follow one another from the follower's position to the Tailer's
  (`Chunk`); without a gap if the Tailer was never overtaken (`Complete`), which
  needs that it is not beyond the record it wants next (`Reach`). `Ascends` says
  the same of the book before the follower's first restart. `Base` is these and the
  primary's `SInv`; `TInv` needs `Flow`, to know that no record of a batch is
  skipped by `apply`.
* `StoreOK`, while no batch was given up: the follower's log has `GInv` and `SInv`,
  and the log, its buffer and what is left to append are together the book and the
  batch. `AppliedInOrder` follows.
* `Same`: every record in the follower's book, its log, in flight or collected is
  the primary's of that position (`Known`), as long as the primary only grows,
  which is what `rewound` excepts. `Reported`: a report is at most what is on the
  follower's disk. `FollowsPrimary` and `LagHonest` follow.
* `Hold`, for a follower that has given up batches halfway and has not restarted:
  each record applied has a `Home`, a segment on the disk that is named for it or
  for an earlier record. A later rotation truncates only a segment named for a
  later record, so a home is never lost; what was appended and is not at home is in
  the segment being written (`Pending`). The order of the log, which `StoreOK`
  speaks of, is lost by then, and `Hold` does not need it. The second part of
  `AppliedStored` follows.

`AppliedIsStored` was stated without `~rewound` in its second part until the proof
of `Hold` was tried: a home holds the record that was sent first, and the follower
may have applied another one with that position. The
instance of the run is too small to show it: TLC passed the stronger form.

The assumptions are those named in the modules: positive prices and quantities,
a batch size, a feed buffer, a segment size and a bound of records that are not
zero, markers (no account, an idle goroutine) that are told apart from accounts
and callers, and, in `Server`, finitely many callers. Each invariant was
checked with TLC on the instance of its component's run before it was proved.

Model-checked only: liveness, which is out of TLAPS's reach; what the folds of
`BookFn` (`SubmitMatchesReference`), of a snapshot (`SnapshotIsExact`) and of
`Venue` compute, since that is an induction over data; with it everything about
`Venue`, whose invariants are sums.

## 5. What is not modelled

* Encodings: check sums, JSON payloads and the conversion of records, orders and
  trades to and from protocol buffers. A record is complete or torn; the disk
  does not change what it has stored. Records have one size; with several, a
  failed rotation followed by a smaller record meets a nil `bufio.Writer`, a
  panic, which is a `Crash` of the model.
* What a crash leaves of the part of a file that was not synced is a beginning of
  it, perhaps with a torn record. A file system may also leave zeros or old blocks
  there, which `Reader.next` would report as `ErrCorruptWAL`, and the log would
  refuse to open, with records in the segment: `UnreadableIsEmpty` supposes that
  this does not happen.
* The file system is taken to keep a page dirty when its fsync fails, and to make
  the truncation by `O_TRUNC` durable at once.
* A follower that gives up a stream does not end it on the primary, which goes on
  reading for nobody until the connection closes; in the model it ends. A report
  of progress is one step: a late one cannot overtake a newer one.
* A sequencer without a log: a configuration for tests and benchmarks.
* `GetBookSnapshot`'s conversion, error codes, the request's numeric limits, the
  validity of symbol and account names; the time behind in `ReplicationStatus`.
* Seeding accounts by flag, `Deposit` and `SetPosition` (development only).
* `MutexBook`, benchmark and load generator, metrics, tracing, generated
  protocol code, the migration runner.

## 6. The plan

1. *Done:* book, sequencer with its log's watermarks, accounts, venue; proofs
   of the abstract book and of the sequencer's durability.
2. *Done:* the segmented log and its refinement, the tailer and the follower, the
   registry, the feed and the shutdown.
3. *Done:* proofs of the reply channels, of where a call is and of the
   refinement of `SequencerSpec`; of the registry, the feed and the shutdown; of
   the segmented log and its refinement of `LogSpec`.
4. *Done:* `Book` implements `BookSpec`, and its structures agree.
5. *Done:* proofs of the follower's book, log and reports in `Replication`.
6. Left: the store's invariants in `Venue`, which need sums over the orders.
