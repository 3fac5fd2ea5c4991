# Livermore: TLA+ models, TLC runs and TLAPS proofs

Livermore is an arbitrage bot for one exchange.  `main.py` keeps the order
books and the rates of a few markets, looks for cycles of currencies whose
rates multiply to more than one, and hands a profitable path to an executor
process over a `multiprocessing.Queue`; a reporter process logs to a database
what happens, and a listener process feeds main with market data over ZMQ.

This directory models the code as it is, line by line where it keeps state,
checks it with TLC on small instances, and proves the main results with TLAPS
for every value of the constants.  Line numbers refer to `src/`.

## 1. Inventory

| component | state | operations | modules |
|---|---|---|---|
| main: dispatch of jobs (`main.py:122-141`, `280-368`) | `execute_lock`, `current_bal`, the report queue | look for a result, report, take the lock and put a job, report that | `Dispatch`, `Opportunities`, `JobSlot`, `Bot`, `DispatchProofs` |
| main: selection (`main.py:203-278`) | `executed_trades` and the loop variables | a pass over the cycles of a search | `Selection`, `SearchProofs` |
| main: market updates (`main.py:151-201`, `302-317`) | `orderbook_dicts`, `last_update`, `graph`, `rates` | apply a message, check that all books are populated, look at their age | `MarketData`, `Ticker`, `MarketDataProofs`; the price in `Pricing` and `Paths` |
| executor (`app/execute.py`) | the message in hand, the order counts, the account | poll, decode, ignore, quit, make an order | `Executor`, `DispatchProofs` |
| job queue (external) | the producer's buffer, the pipe, the readers' lock | `put`, feeder thread, `get`, `empty` | `MpQueue` |
| order limits (`app/utils.py:16-46`) | `orders_ps`, `orders_pd` | `can_complete_path`, `iterate_order` | `OrderLimits`, `Nwmon`, `NwmonProofs` |
| order book (`app/orderbook.py`) | `_ask`, `last_update` | `update_level`, `update_levels_from_partial`, `best_price` | `OrderBook`, `MarketProofs`; `last_update` in `MarketData` |
| path search (`app/paths.py`, `add_to_graph`) | `graph`, `rates`, `dist`, `pred` | add a market, find cycles | `Paths`, `SearchProofs` |
| market information (`app/utils.py:195-246`) | `market_info.json` | read, fetch, write | `MarketInfo`, `MarketProofs` |
| reporter (`app/reporting.py`) | two queues, ten threads, the database | forward, write, commit | `Reporter`, `Opportunities`, `Bot`, `ReporterProofs` |
| quantities (`app/utils.py:110-192`) | `rates` | enter a rate, the quantity a path can carry, rounding to the step | `Pricing`, `PricingProofs` |
| market names (`app/utils.py:49-107`) | none | base and quote, market and direction of a pair | `MarketNames`, `PricingProofs` |
| listener and feed (`app/listen.py`, `app/cfxws`) | the connection, ZMQ's queue | publish, drop, receive one per turn | `MarketData`, `Ticker`, `MarketDataProofs` |

Interactions.  The listener publishes each websocket message; main takes at
most one per turn of its loop, updates one book and, with its best price, two
edges of the graph, and runs the search.  A path that is worth it is reported
and, in production mode, put on the job queue if `execute_lock` is free, which
is reported in its turn.  The executor polls that queue; main polls the same
queue for results.  Both report to the reporter's queue, though only main gets
as far.  Main starts the listener only in dry mode (`main.py:90`); in production
the market data comes from a program that is not in the repository.

What is hard in it:

* *Two readers of one queue.*  `main.py:127` gets from the queue it puts to.
  Main may take its own job back; `empty()` may be stale by the time of
  `get()`; the message is pickled by a third party, the feeder thread, from
  live data.  The executor may have the job before main has reported it.
* *Failure between two steps.*  A `finally` block that raises, a commit that
  fails after the message left its queue, or raises after it was applied, a
  crash between emptying a file and filling it, an exception after the lock was
  taken, an order the exchange has and nobody counts.
* *State left over.*  Loop variables that outlive their loop, counts that
  outlive their month, a cache that outlives its configuration.
* *Distance.*  Between the exchange and a decision of main lie a websocket, a
  publisher that drops, a queue and one message per turn: what main calls fresh
  is what it received lately.
* *Order.*  The result of the search depends on the order of the first
  updates, through the order of Python's dicts; reports written by ten threads.

What makes each component correct:

* *dispatch*: no job lost, duplicated or sent beside another, a job's rates at
  least as new as the search that found it, and no report of a job that is none;
* *executor*: it goes on receiving, attempts what it receives, and what it
  bought is not forgotten;
* *limits*: the exchange's limits hold whatever the clock does between the
  answer, an order and its count, and nothing that fits is refused;
* *market data*: a book only moves on, to what the exchange really quoted; what
  is missing is under way or dropped; a search sees the books as they are;
* *book*: it is what the exchange last said, and gives the lowest offer;
* *search*: it finds something exactly when there is a profit; what it returns
  are cycles of the source currency that make one;
* *names and quantities*: splitting a name, entering a rate and choosing a
  market for a leg agree with each other; a leg asks for more than its book
  offers only by what is gained on the way to it, and rounding twice costs no
  more than it must;
* *selection*: the figures that are sent belong together and to this pass, and
  a path is left alone for three seconds (`main.py:230`);
* *reporter*: every report is written, or what became of it explained;
* *market information*: what a running bot uses is complete and fresh.

`PROJECT.json` lists the hazards of the code at their lines with the properties
that cover them, and the lines each definition models.

## 2. The modules

### The core: MpQueue, Executor, Dispatch, JobSlot, Bot

`MpQueue` is what the bot can observe of `multiprocessing.Queue`: a buffer, a
feeder that pickles later, a pipe, and the readers' lock that `get(block=False)`
tries once.  `Executor` is `execute_loop` on that queue with an open client.
Its first leg is one action that always ends the process: the `finally` block
of line 162 reads `exec_prices`, which no first leg assigns.  All the code that
could only run later is therefore not in the model, as the module's header says.

`Dispatch` extends `Executor` with the real client, main.  Main's places are
`check`, `get`, `inGet`, `receive`, `search`, `reported` and `sending`;
everything between two accesses to shared state is one step.  So an opportunity
takes three: its report (`main.py:291`), the put of the job (`330`) and the
report that it was sent (`343`), with the feeder, the executor and the reporter
free to run between them.  In dry mode the first is all there is.  Prices are a
version number, the updates applied so far.  The job holds a *reference* to the
rates, so `FeedJob` stamps the version of the moment of pickling, not of `put`.
Every way main dies is an action:
`GetRefused`, `GetFindsEmpty`, `UpdateWithoutAsk`, `SearchRaises`, `JobRefused`.
The feeder still flushes after that, as a process does before it ends.

`JobSlot` is the abstract specification: a slot for one job, which comes back
free or is lost.  `SlotSpec` says that queue and lock implement it under the
mapping `MappedSlot`, with a job under way leaving the queue in the end.

`Bot` puts `Dispatch` and `Reporter` together: a report main makes is the same
step as a put of the reporter's client, and everything else is a step of one
side.  The opportunities and their tags are the two sides' common ground
(`Opportunities`).  The processes are no daemons, so the executor and the
reporter go on when main has died.  The feeder of the report queue is not
modelled: what it holds reaches the reporter in order, as the queue does.

### OrderLimits, Nwmon

`can_complete_path` is `OrderLimits`, shared by the executor and by `Nwmon`,
which adds the clock, the calendar and the caller.  Counts of a day are kept
under the number of the day in the month and never removed (`clean()` only
raises).

The caller is the walk along a path as `execute_loop` has it written: one
question, then the orders.  An order is made when the exchange has it
(`MakeOrder`), and counted by `iterate_order` when its call has returned
(`Done`, `TooSlow`), in whatever second and day that is.  A call that raises
after the exchange took the order leaves it uncounted (`AnswerLost`).  When a
leg fails after others were filled, one or two orders sell back
(`execute.py:126-155`), which nobody asks the monitor about.  As it is, the loop
does not get so far (see `Executor`), and the code that sells back uses names it
does not define; `Nwmon` takes them for what they stand for, and says what the
monitor is worth to the caller it was written for.

### OrderBook

Both updates.  `update_levels_from_partial`, the only one main makes
(`main.py:185`), converts an entry before it looks at it.  `update_level`, which
only the unit tests call, compares the quantity and pops the price as they are
given, so each argument has its form: a zero in text is stored as an empty
level, and a price in text is popped in vain.  The prices of such updates are
`misread`, a history the theorems speak of.

### Paths

`add_to_graph` and `find_cycles` with the insertion order of the dicts, which
decides the order of relaxation.  Rates are integer logarithms.  The folds
compute what the loops compute: the passes, the last pass that lowers distances
but no predecessors, the chains, the closing of a chain, the sort and the
deletion from the list under iteration.  The bodies of the loops are operators
of their own (`AddMarket`, `AddEdge`, `Relax`, `RelaxFrom`, `RelaxAll`,
`FindCyclic`, `Follow`, `AddPath`, `Insert`), one for each fold, which is what
the proofs go by.

### MarketData, Ticker

`MarketData` follows a quote from the exchange to a path that is sent: the
websocket, `push_update` with the queue of the publisher, `recv_multipart`, the
update of one book and its edge, the populated check and the stale check.  A
message is told apart by its market and the time it was made.  The websocket
and ZMQ are external, and modelled by what the bot relies on: order is kept;
the publisher drops what comes before main has subscribed, or while the queue
is at its high water mark; the exchange ends a connection some day
(`Disconnect`), with which any last part of what is on the wire may be lost, and
no code opens another.  `mode` is dry or production: the listener of the
repository publishes in dry mode only, and only production looks at the age of
the books and sends a path.  What publishes in production is external; the
repository has its socket and the form of its messages, and it is taken to be
like the listener.  Main's clock is the exchange's: a
difference of the two would only add to the age.  A message for a market that
is not configured (the cache may list more, and its key `TIMESTAMP` is listened
to as well) is skipped; a snapshot without asks ends main (`UpdateWithoutAsk`).

What `MarketData` remembers beside the code's state (`made`, `lost`, `edge`,
`maxDelay`, `accepted`) is history that its properties speak of.

`Ticker` is the abstract specification: quotes are made, and main moves on to
a later one.  `BooksFollowTicker` says that `MarketData` implements it, with
the quotes of the books for `seen`.

### MarketNames, Pricing

`MarketNames` has `give_base_quote` and `give_pair_market_direction` on names
that are sequences of letters, so that one currency's name can end with
another's.  `NamesAreRegular` says what the code needs of the configured
markets: it is weaker than listing them, and TLC checks it on names chosen to
be awkward.

`Pricing` puts them to use, in the order main does: `add_to_graph` under the
two halves of the name, the legs of a path, `give_source_value`,
`give_max_quantity_through_path` (an amount is valued along `WayHome`), and
`closest_tradeable_quantity`, which is
called twice (`main.py:261` and `335`).  Prices, quantities and the fee are
logarithms, so that products are sums; for the rounding a quantity is a number
of steps and whether it is exactly that.  A quotient of floats that should be a
whole number may come out just below it (`Floor`).  How the first becomes the
second (`main.py:258`) is left open: every number of steps may be asked for.

### Selection

One step per cycle of the loop at `main.py:212`, with the clock free to move
between any two.  A cycle carries the quantity and profit that main computes
for it; whether the first market's minimum is met (line 262) is left open.
What is sent is the loop's variable (lines 291 and 330), which may be another
cycle than the priced one: the histories `lastRun` and `onOwn` are kept under
the markets of the path that is sent.
The branch of line 267 only logs and has no part in the model.

### Reporter

`reporting_loop` and its threads.  A commit that fails ends in
`pdb.set_trace()` with no terminal: that thread is in `stuck` for good, and its
report in doubt, since the database may have committed the row before `commit()`
raised.  Two reports are made: the opportunity and the event that it was sent.

### MarketInfo

`initialise_markets_info` with a file that is absent, torn or whole, crashes
at any point, and a configuration that may change between two runs.

Operators whose comment starts with "Slip" or "Slips" are plausible mistakes in the
definition that follows them.  They are not used by any specification; each
property is broken by one of them, which shows that it says something of the
code.  `MC*.tla` only give values to constants.

## 3. The runs

| run | states | question |
|---|---|---|
| `bot` | 131 925 | main, feeder, executor and reporter together: are jobs accounted for, one at a time, with rates not older than their report, do queue and lock implement the slot, is every report in one place and written while one thread lives, and does an event in the database tell of a job? |
| `executor` | 15 822 | whatever is put and dropped, does it go on receiving? |
| `nwmon` | 2 395 688 | how far can the limits be passed across seconds, midnights and months, and is nothing refused wrongly in the first month? |
| `paths` | 69 856 | does the search detect every profit, and return only profitable cycles of the source? |
| `selection` | 572 251 | do the figures sent belong together, and are opportunities paced? |
| `market_data` | 68 561 | does a book only move on, is main behind only by what is under way or lost, and how old is what it acts on? |
| `pricing` | 80 827 | do names, rates and legs agree, and what does rounding twice cost? |
| `market_info` | 9 966 | does a running bot have fresh information on all its markets? |
| `paths_attempted`, `paths_raised`, `pricing_fee`, `order_book` | - | disagreements of code and documentation, section 4 |

Bounds, and why they are enough:

* `bot`: 3 updates, 2 opportunities, 2 threads.  A job can be sent, taken back
  and followed by another, with updates between `put` and pickling; a second
  opportunity may meet a lock that is taken; one thread may stop while the other
  overtakes or goes on.  The limits are wide, since a job never gets as far as
  them; `MaxQueued` belongs to the open client, which `Dispatch` does not use.
* `executor`: up to 3 messages of five sorts under way, so that a `SHUTDOWN` or
  a job may be preceded by what is ignored, and main may get any of them.
* `nwmon`: limits of 3 and 5, two days in a month, four clock steps, each of
  which may be a midnight, and two lost answers in a day: two whole months pass,
  paths are cut by seconds and days, counted late, lost and sold back, and the
  day's limit is met before the second's and after it.
* `paths`: four currencies and five markets, every order of first updates,
  rates -1, 0, 2: three overlapping cycles, ties, and profits from nothing.  A
  rate may be updated again after each search, so all 243 combinations meet all
  orders.  One market is missing, so that chains close over a leg without rates.
* `selection`: a cycle and its reverse on one key and two more, one on each
  side of each threshold, passes of up to two cycles, a throttle of three
  seconds and a clock of four steps: passes within and beyond the throttle.
* `market_data`: two markets and one that is not configured, a clock of two
  ticks, two messages in the queue and two on the wire.  The timeout is 0
  ticks: a tick is longer than the 0.2 s of `config.py`, and a book is stale
  when the clock has moved since it was received.  A market can be quoted again
  while its first quote waits; the queue fills with messages main skips, and
  drops; the connection ends with none, one or two messages on the wire; a path
  of two books can be sent with one a tick behind the other.  The proofs need no
  bound.
* `pricing`: the source, bitcoin, ether and coins with and without a market of
  their own against the source, one with a name that ends like bitcoin's, which
  is the case `give_base_quote` could get wrong; seven markets, triangles and
  four-legged cycles in both directions,
  offers below and above the balance; up to four steps, with a least quantity
  of one step and of three.
* `market_info`: three markets, an hour of two ticks, five ticks: a cache goes
  stale, and is reused at its last moment.
* `order_book`: three prices, three quantities with 0, both forms of each
  argument, partial updates of up to two entries, which may repeat a price with
  and without 0.

`CHECK_DEADLOCK FALSE` is said where the system really may stop: `paths` and
`paths_raised` (the search raises), `nwmon` (the clock at its bound and the
caller ended by an exception, or waiting for an answer that can only be lost),
`market_data` (the clock at its bound, the connection ended, main dead or
without a message) and `pricing`, `pricing_fee` (the second rounding raises).
In the others some step is always possible, also with every counter at its
bound: the executor goes on polling; a book can be updated; a pass or a bot can
be started.

Fairness.  `bot`, `paths_attempted`: main, the feeder and the executor each run
a loop that never sleeps or waits for another: weak fairness of each process'
steps.  The reporter's forwarding loop and each thread not in pdb keep running.
`executor`: the loop and the feeder run; the client owes nothing but to leave
`get()` once inside, which is straight-line code under `finally`.
`market_data`: the reactor takes what has arrived and main's loop runs, neither
of which ever sleeps; nothing is assumed of the exchange, the connection or the
subscription.  The other modules state no liveness and no fairness.

## 4. Where code and documentation disagree

Four disagreements are runs with a counterexample:

* `paths_attempted`, `app/execute.py:33`: `json.loads` gets the dict main put,
  raises TypeError, and line 34 swallows it.  No path is ever attempted, although
  `README.md:22` says that the executor "attempts to execute the path and report
  back", that it "is functional", and line 63 that executing live was tested.
* `paths_raised`, `app/paths.py:65`: on some profitable triangles the chain of
  predecessors leads to Root, and main dies of KeyError.
* `pricing_fee`, `app/utils.py:120`: `add_to_graph` takes the fee off the price
  and inverts the result for the way back, so that a purchase is credited with
  the fee, although the fee is said to be taken into account (`README.md:15`).
  On a path with as many purchases as sales nothing is paid at all, and the bot
  takes paths for profitable that are not.
* `order_book`, `app/orderbook.py:28`: "If quantity is 0.0 delete the key"
  (`README.md:61`, and `test_orderbook.py:43`).  A zero in text is stored, and
  with a number zero and a price in text the level stays.  Main does not call
  `update_level`, so that `BestPriceIsLowest` holds of its books.

Two are theorems that contradict the documentation:

* "will sell back to USDT if a path is not profitable" (`README.md:22`, and the
  Sellback of 54-56): what an executor buys is held by a process that has ended
  with its first order, and is never sold back (`HeldByTheDead`).
* "the lowest unit of the initial currency which can be put through the book"
  (`utils.py:139`): `give_max_quantity_through_path` takes no gain of the path
  into account, so a late leg may ask for more than is offered.  The excess is
  not bounded by what the path gains: where a currency in its middle has a
  market against the source, as EOS does in `config.py`, the book is valued by
  that market, and the bound is the gain of going to that currency and straight
  home (`OffersNearlySuffice`).

Others are in the models as the code has them, and the properties are
stated around them:

* A path that was skipped as too recent is sent with the figures of the cycle
  before it (`main.py:254`); when, `MismatchIsThrottled` says.  `executed_trades`
  stamps the cycle that was priced, so that such a path may be sent again within
  the three seconds (`OpportunitiesArePaced`).
* A limit of the exchange may be passed by the orders whose call raised after
  the exchange had taken them, which `iterate_order` never counts, and by the
  two that sell back, which nobody asks about (`SecondLimitKept`, `DayLimitKept`).
* An order is counted when its answer comes, maybe in a later second or day,
  which may refuse a path for the sake of one order too many; and counts under
  the day of the month refuse paths a month later, never before
  (`WrongRefusalIsMonthOld`).
* STALE_TIMEOUT bounds the time since main *received* a quote.  How much older
  the quote itself may be, `QuoteAgeBounded` says.
* `app/paths.py:88` deletes from the list it iterates over, and would leave
  every second path of no profit.  There never is one (`FoundMakeProfit`).
* A book keeps only asks, so that sales are priced at them too.
* After a day the exchange ends the connection and main goes on without quotes;
  the listener, executor and reporter live on when main dies.
* With recorded input (`--input`) `get_nowait` is called with `zmq.NOBLOCK`, an
  argument it does not take, and main dies of TypeError.
* Main takes its own job for an execution result (`main.py:127`) and frees the
  lock with it.  `OneJobAtATime` and `EveryJobAccounted` hold all the same.
* A job is reported as sent after it was put, and the executor may have it
  first (`EveryJobAccounted`); the other way round an event never tells of a job
  that was not put (`EventsTellOfJobs`).
* The balance is reduced before the lock is looked at (`main.py:322`) and stays
  so when the opportunity is let go.  Nothing reads it.
* A path of an unrealistic value is logged as skipped, and sent (`main.py:267`).
* When every thread has had a failed commit nothing is logged any more; until
  then everything is, or is in doubt with a stopped thread
  (`WrittenWhileOneLives`).
* An event may be in the database when its opportunity is not, or never will
  be (`OvertakesOnlyInHand`).

## 5. The proofs

All proofs are checked by TLAPS to the last leaf.  They assume the named
ASSUMEs of the modules: that bounds and limits are naturals, a month has a day
and the throttle a second (`CalendarIsNat`, `CycleInputs`), the processes are
different, the client of the executor puts messages, names are regular
(`NamesAreRegular`), cycles run from the source back to it, the base of each
market has a market against the source or against bitcoin, and bitcoin one
against the source (`PricingInputs`), no market is listed both ways, one of them
has the source, Root is no currency, and rates are integers (`GraphInputs`), and
the "nothing" values are no messages, cycles or infos.

Every invariant the passing runs check is also proved, and the safety part of
both refinements; what is left to TLC is liveness.

* `DispatchProofs`.  `TypeCorrect` needs no strengthening.  The rest stands on
  three invariants.  `ExecutorIdle` says that every message is a dict and the
  executor never leaves its polling places, whence `NeverTrades`: no order is
  made.  `QueueShape` says that the queue is empty or has one message, in the
  buffer or in the pipe, and only with the lock taken and nothing yet with the
  executor: it is needed because main frees the lock with *any* message, which
  is right only because that message was the last.  Whence `OneJob`.
  `ReportsInv` bounds tags by `nextTag`, and `TagFresh` says that the tag main
  has reported last was not sent, so that a new job is none of the old ones,
  whence `JobsAccounted`.  `RatesFresh` needs that main applies no update
  between the put of a job and its report (`SendingFresh`).  `SlotImplemented`
  shows the safety part of the refinement, step by step, under the same
  invariants.
* `DispatchProofs`, the bot.  Each step of `Bot` is one of main and executor and
  one of the reporter, or leaves either alone (`PartsOfTheBot`), so that all the
  theorems about the two hold of the bot.  What the reporter was told is what
  main reported (`Linked`); with `JobsAccounted` and the invariant of
  `ReporterProofs` this gives `EventsAreTrue`.  The reporter's own theorems
  carry over (`BotReportTypes`, `BotReportsAccounted`, `BotEventsOvertake`).
* `NwmonProofs`.  `LimitInv` relates the counts to the orders made.  None is
  missed but the pending one and those whose answer was lost (`NoneMissed`);
  what is left of an allowed path fits in any second and any day, or is one of
  the two that sell back (`OrdersFit`), which lets the clock move between the
  answer and any order (`SecondsKept`, `DaysKept`).  No more than one order is
  counted in a second in which it was not made (`NoneAhead`), and in the first
  month in a day (`FirstMonthExact`), whence the one order in `FirstMonthFair`.
* `SearchProofs`, selection.  `SelectionInv` relates the loop variables to what was
  priced in this pass, at every place of the loop: figures are 0 if nothing was
  priced; in the loop the profit is at most five cents, since more would have
  left it; a path that is not the priced one was throttled.  Whence
  `FiguresOfOneCycle` and `MismatchExplained`.  For `Paced` a second invariant
  (`PaceInv`) says that the figures a path was last sent with, if they were its
  own, are no younger than the stamp of its key, and that a cycle in hand was
  priced a throttle after them.
* `MarketProofs`, cache.  `InfoInv` says that a bot that writes or runs has in
  memory what it accepted; `TornForever` needs that nobody but its writer is
  ever past the reading of a torn file (`TornStopsReader`).
* `DispatchProofs`, executor.  With a client that puts and gets what it likes, an
  order is placed in the last step of the process (`OneOrderEach`), whence
  `HeldByTheDead`.
* `MarketDataProofs`.  `OrderInv` is what everything rests on: of each market,
  what is published is in order, older than what is on the wire and newer than
  main's book, also when the end of the connection takes the last of it.
  Without it neither `LagExplained` (what main takes explains itself by being
  the oldest under way) nor `ImplementsTicker` (each message main takes moves
  its book on) is inductive.  `GraphInv` says that an edge is
  its book's until main is dead, whence `SearchedGraph`; `AgeInv` that no book
  was received later than quoted by more than the longest delay so far, whence
  `AgeOfQuotes`.
* `PricingProofs`.  For regular names, `SplitIsRight` and `DirectionIsRight` are
  facts about the operators.  `RatesInv` says that each market has both its
  edges from its present book, and that every edge is some market's; with
  `PathInv` (main takes no update while it has a path) this gives `LegsRight`.
  `RoundingInv` is what the first rounding leaves for the second.
  `OffersNearlySuffice` rests on `PricedInv`: all the rates are set and the
  quantity is the least of what the books offer, valued along `WayHome`.  Both
  sides of the comparison with the trip are sums over its legs (`GainSteps`), so
  what is put through is what the trip's end is worth, less its gain.
* `ReporterProofs`.  `LineInv` orders all reports that are waiting or taken: none
  stands behind itself, and no event before its opportunity, with a report in
  doubt taken whether it is a row or not.  This gives at once that each report
  is in one place, and so the count of `EveryReportAccounted`, which takes a row
  in doubt for the stopped thread's, and `EventsOvertakeInHand`.

* `FoldLemmas`.  The loops of `OrderBook` and `Paths` are folds, which the
  community modules define by a CHOOSE of a recursive function over subsets.
  The induction theorems of the library take an operator as a parameter and
  cannot be used, but the well-foundedness of the naturals and its least
  element need none: `UpTo` is induction for a *set* of numbers that contains 0
  and with i - 1 also i.  From it: the recursive function exists, a fold goes
  through its sequence step by step (`FoldSteps`), a sum may be taken in order
  (`SumSteps`).  The module has the folded operator as its constant and is
  instantiated once for each.
* `MarketProofs`, book, under `BookInputs`.  The invariant of the levels is kept
  by each entry of an update, and so by the fold over them
  (`OffersAreInTheBook`, of every price that is not misread); the least of
  finitely many prices exists and is what `Lowest` picks (`BestPriceIsLowest`,
  when none is misread, as after each update main makes).
* `SearchProofs`, search.  `PathsInv` says that a search starts with all rates
  and that what was found is good; it is inductive because of three facts about
  what a search computes, for any rates and order.
  - `PathsAreCycles`: the chain of predecessors from any currency visits nothing
    twice and has a market for each step (`ChainFollows`).  What the search adds
    to the chain is one leg, from its end to its start, and `FromSource` asks for
    the rate of that.
  - `PathsMakeProfit`: that leg is none of the predecessors, so the value of
    the closed chain is not the usual argument about negative cycles.
    `Explained` supplies another.  For each currency it knows the distance from
    which its edges were last relaxed and when, and for each predecessor when it
    was set: an edge leaves nothing to improve on the distance it was relaxed
    from, and a tie went to the earlier of two.  Around the closed chain the
    times cannot all agree, so one inequality is strict (`ClosedChainGains`).
    Hence there are no paths of no profit to delete.
  - `ProfitDetected`: the last pass notes something exactly when some edge still
    improves its end (`CyclicUnlessQuiet`).  If none does, distances around any
    cycle telescope to a value of at most 0 (`QuietMeansNoProfit`).  If no cycle
    makes a profit, each distance is the weight of a walk that visits nothing
    twice, and what is left to improve after k passes is at the end of a walk of
    more than k currencies (`StepKeepsWalks`); after one pass less than there
    are currencies that would be all of them, and the improved currency would
    close a cycle with a profit (`NoProfitMeansQuiet`).  This is also what shows
    that the number of passes, taken from a dict to which Root was added, is
    right.

Only model-checked: liveness (`KeepsReceiving`, `WrittenWhileOneLives`,
`QuotesArrive`, the fairness of `SlotSpec`), which TLAPS does not reach.  The four
runs of section 4 are counterexamples and have no proof, but for what
`NeverTrades` says of the first.

## 6. What is not modelled, and why

* Floating point: `Paths` takes logarithms as integers, so
  rounding errors that look like gains of 1e-16 are not seen.
* Rounding to cents (`main.py:235`, `244`), and the difference of the clocks of
  exchange and bot.
* The balance (`main.py:322`): it is written and never read, so that no property
  can be about it.
* Recorded input (`main.py:94-108`), which ends main at once.
* KeyError in `give_source_value`: `PricingInputs` demands what the configured
  markets have, a way to the source directly or over bitcoin.
* The executor after a first leg, but for the orders it would make (`Nwmon`), and
  the reporter's branches for trades and results: no execution reaches them.
* `app/models.py` but for the uniqueness of tags, `app/cfxws` beyond the call of
  a callback (its REST half is not used), configuration literals, tests,
  benchmarks and scripts.

## 7. Plan

Done, in this order: `MpQueue`, `Executor`, `Dispatch` with `JobSlot`, then the
other stateful components; `MarketData` with `Ticker`; `MarketNames` and
`Pricing`; `Bot`; the proofs of section 5, those about folds last but one, those
about the bot last.

What could come next, most important first:

1. `Selection` with `MarketData`: a pass whose figures come from the books, so
   that a quote's age and a throttled path meet in one opportunity.
2. A bound on the error of the floats in `Paths`: which gains are real.
3. On which graphs and orders the search raises: `Explained` says when a
   predecessor was set, and so which currencies may still have Root for theirs.
