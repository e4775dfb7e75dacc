# papryka in TLA+

papryka is a header-only C++ library for back-testing trading strategies: a feed delivers bars
of prices, a simulated exchange executes orders against them, and a strategy, told of every bar
and of every change of an order, places the next orders. This directory holds TLA+ modules that
model its core, the TLC configurations that check them on small instances, and proofs that TLAPS
checks for every value of the constants. Paths below are relative to `src/include/papryka/`.

## The system

Everything but the constructor calls runs on one thread, the worker of a `Dispatcher`. It asks
its subjects, which are feeds, for their next date and dispatches those that are due. A feed then
emits `new_values_event`; its subscribers are first the exchange, then the strategy. The exchange
walks over its open orders and for every order that changes emits `order_event`, inside which the
strategy, its positions and the user's callbacks run and may call the exchange again. The hard
part of the program is in this nesting: the walk is suspended in an announcement while its own
data is being changed.

| component | state | operations | what makes it correct | here |
|---|---|---|---|---|
| Exchange and order book (`exchange/`) | `orders_`, cash, shares, `allow_negative_cash` | `create_order`, `submit_order`, `cancel_order`, `on_bars` | the book holds the live orders, cash and shares follow the executions, every end is announced once, no order executes on a bar its client had seen | `Exchange`, `ExchangeProperties`, `Brokerage`, `ExchangeAccount`, `ExchangeProofs`, `ExchangeStepProofs`; over a feed in `Backtest`, `BacktestProofs` |
| Order (`exchange/detail/order.h`) | state, filled, average price, stop hit, accepted date | `switch_state`, `add_info`, `process` | the state tells what was filled; its life is one-way | `Exchange` |
| Fill rules (`exchange/detail/filltype.h`) | volume left per symbol | triggers, `fill`, `calculate_fill_size_`, `on_order_filled` | a price the bar traded at, within limit and stop; the volume of a bar is not sold twice | `FillType` |
| Dispatcher (`detail/dispatcher.h`) | `is_run_`, subjects, thread, mutex and condition variable | `add_subject`, `start`, `run`, `wait`, `stop`, destructor, `do_work` | delivery by date, everything delivered, subjects stopped, thread joined, `run` returns | `Dispatcher`, `DispatcherProofs` |
| Strategy, position, state machine (`strategy/`) | active positions, order-to-position map, shares, Idle/Open/Close | `enter_*`, `exit_*`, `cancel_*`, `on_order_event` | a position's shares are its orders' fills, its state follows its entry order, every active order has a registered position, a position is entered once and then only shrinks | `Strategy`, `StrategyProperties`, `Holding`, `StrategyProofs` |
| Event (`detail/event.h`) | subscribers, pending changes | `subscribe`, `unsubscribe`, `emit` | every emit calls whom it owes, in the order they came, once, and no iterator outlives a change | `Event`, `EventProofs`; `emit` is a frame of `Exchange`'s stack |
| Feed, memory feed, series (`feed/`) | rows per symbol, next index, series | `add_values`, `get_next`, `peek_date`, `dispatch`, `reset` | values in date order, none lost or repeated, bounded series, and to the dispatcher a subject with ascending dates | `Feed`, `FeedProperties`, `DatedSource`, `FeedProofs`; with the exchange in `Backtest`, `BacktestProofs`; a dispatch is one action of `Exchange` and of `Dispatcher` |
| Dates (`detail/date.h`) | none, but they read the zone and the wall clock | `days_from_civil`, `civil_from_days`, `utc_tm`, `to_datetime`, `to_date`, `to_str`, `to_qdate` | the conversions agree with the calendar and are each other's inverse, in every zone and season | `Civil`, `Dates`, `DatedRows`, `DatedRowsProofs` |
| Precision (`detail/precision.h`) | none | rounding | no wrap where none is meant, nothing lost that a double holds | `Precision`, for `size_t`; reals are not modelled |
| CSV and synthetic feeds, date filter (`feed/`) | the filter | `add_values_from_csv`, `add_values_from_generator`, `set_date_range` | rows reach the memory feed in order, of the dates that the texts and the calendar give | the rows they add in `Feed`, their dates in `DatedRows`; columns and random reals are not modelled |
| Indicators, commissions, logging, plots | | | | not modelled: reals, constants, formatting |

`PROJECT.json` lists every component with its files, and under `hazards` what is hard to test in
this code, line by line, with the properties that are about it.

## The modules

`FillType` holds the fill rules as pure operators: the price triggers (`RiseTo`, `FallTo`), the
size of a fill, and one operator per order type. `FillInfo` is the fill they agree on, with the two
assertions of `process_order` about it. `Exchange` extends it with the state.

`Precision` is `precision_.round` for `size_t`: the product with 10^6 wraps in `size_t`, goes through
the `double` that `std::floor` takes and answers, and is divided again. `Double` rounds to the nearest
double, which is exact up to `Exact` only, and `ToSize` is the conversion back. What C++ leaves open
there, a negative double or one too large, `Casts` decides: code that gcc generates for x86-64 wraps
a negative one, the constants that it folds become 0.

`Exchange` models the exchange with its orders. `orders` is the sequence of all orders submitted,
`book` the ids in `orders_`, `cursor` the position of the iterator of `on_bars`, and `stack` the
announcements in progress: a frame for the walk's announcement at the bottom, and one for each
call of the client's, `submit_order` or `cancel_order`, nested in it. A handler of the code is cut
into actions exactly where the code runs subscribers: `VisitOrder` is the loop body up to its first
announcement, and `ReturnAccepted`, `ReturnPartiallyFilled`, `ReturnFilled` and `ReturnCanceled`
are what the body does when the announcement returns. `Client` may act in between, as often as the
bounds permit. What else matters:

- Erasing from a `std::map` invalidates iterators to the erased entry only. When the order under
  the cursor is erased, `++iter` is undefined behaviour; `Advance` lets it arrive at any entry, at
  the end, or nowhere (`wild_iterator`). A test program built as the Makefile does showed each:
  entries visited again, entries skipped, a crash.
- `allow_negative_cash` is never initialised: `Init` chooses it.
- A failed `assert` aborts, since the Makefile builds with assertions. These ends, and use of a
  freed order, are values of `fault`; nothing happens after one.
- `kept` says whether the client kept the `order_ptr_t` that `create_order` returned. If not, the
  book holds the last one, and after it is erased the order is gone: the freed memory still reads
  as it was, or the program dies (`freed`).
- Volumes are counted in quarter shares, because the volume limit is 0.25, and prices are natural
  numbers. `avg_fill_price * filled` is kept as the sum `paid`. `NoSlippage` and `NoCommission`
  change neither.
- Shares are added up in `size_t`, and a sale is added as the conversion of a negative double
  (`SharesAfter`): where that does not wrap, a sale of shares leaves as many as before.

`Brokerage` is the abstract specification: an account and a list of trades that go through their
states one at a time, with no bars, walk or call stack. `ExchangeAccount` gives the refinement
mapping. `ExchangeProperties` states the properties, `MCExchange` the instances.

`Backtest` puts `Feed` and `Exchange` together: an instance `F` of the feed whose values are bars,
and beside it the exchange's own variables. `DispatchSet` is `Feed::dispatch` up to the loop of
`on_bars`: the feed's `Dispatch` and the exchange's `OnBars` in one step, with the set the merge has
made and the day its date falls on. The worker dispatches again, or stops the feed, only when walk
and stack are done. So the bar sets that `Exchange` chooses freely come from the merge here: a symbol
is missing from a set when its dates differ, and what `get_equity` reads are the feed's
`current_values`. The client may add rows at any moment, also inside an announcement.

`Strategy` composes positions with the exchange: the strategy is the subscriber that `Exchange`
leaves open. Every frame of `stack` has a handler in `handlers`, a call of `on_order_event_` in
progress, cut where it runs the user's code: `on_order_updated` first, then what the state machine
calls, `on_enter`, `on_enter_canceled`, `on_exit` or `on_exit_canceled`. `Deliver` is what happens
between the two: the map lookup, `Position::on_order_event` and the state machine.
`CallbackReturns` and `ClosingReturns` are what follows, `ReturnToEnter`, `ReturnToExit` and
`ReturnToCancel` the rest of the call that made the announcement, and `WalkOn` the exchange's own
actions, unchanged, once a handler is done. The user enters, exits and cancels positions in the
callbacks that `Calls` allows, and only through positions. What else matters:

- An order is kept by the positions that point to it. A position lives while it is registered or
  while the user holds the `position_ptr_t`; what it takes along when it goes, `Unregister` says.
- `create_order` announces the order before it returns it, so a position learns of its own order
  after the announcement: `entry`, `exit`, the map and the registration are set on return.
- The constructors and `build_exit_order` pass the stop price where the limit price belongs and the
  other way round, and a short exit's first price as `isFillOnClose`. `EntrySpec` and `ExitSpec` do
  the same, so a long limit entry never executes, and a short one executes at any price.
- `StateMachine::exit` throws when the exit order is active; the user is taken to catch it.

`Holding` is the abstract specification of a position: it is ordered, acquires shares once or not at
all, is held, is for sale and only shrinks, is closed and leaves. There are no orders, announcements
or maps in it, and long and short are the same. `StrategyProperties` maps a position to a holding by
its orders and its shares, and `ImplementsHolding` says that every step of a strategy is one of a
holding or none: a second entry, a change of sides, a sale of more than is held and a return to an
earlier phase are all excluded by it.

`Dispatcher` models the client's thread and the worker. The client's calls are cut where the code
touches shared state: `start` up to its last test of `is_run_`, the lock that `wait` takes, the
wakeup, the relock, the join. The worker's steps are the start, dispatch and stop of one subject,
the choice of the smallest date, and the lock, notify and unlock at its end. Callbacks may throw or
call `stop`, condition variables may wake for no reason. A second `start` destroys a joinable
`std::thread` (`terminate`), and `add_subject` while the worker walks over the vector is a data
race (`race`): both are faults that end the behaviour. Feeds answer every dispatch with true.

`Feed` models the memory feed with the files and generators that fill it: rows and cursor of each
symbol, the series, and what a dispatch announces. A dispatch is one action, as nothing in the library
subscribes to a series, but it may end in the middle: a full series throws after the cursors and
`current_values` have moved, and the history `lost` remembers that. `sets` and `since` are histories,
too. `FeedProperties` states the properties; `DatedSource` is what `Dispatcher` expects of a subject,
the same sequence of dates that a member of `Feeds` is there, and `ImplementsSource` says that the feed
is one. The mapping counts the rows from the cursors on: a date comes as often as in the symbol that
has most rows of it. The deliveries that are left are numbered (`Due`), and the i-th date of the
schedule is the first up to which there are i of them. It needs the rows of each symbol in order and
without a null date; of other rows only the remaining properties speak.

`Event` models the list of subscribers. An iterator is a place and the buffer it points into, which
the capacity identifies, so that the model knows when it dangles. `fault` is where the code runs
into undefined behaviour, and nothing follows it. `used` remembers what callbacks have done, because
what an emit promises depends on it: an unsubscription from within an emit is repeated by all later
ones, and a subscriber that came during an emit is added again by all later ones. The library itself
subscribes in constructors only and never unsubscribes, and its emits nest, which `NestingIsSafe`
is about: the stack of `Exchange` relies on it.

`Civil` holds the calendar algorithms of `date.ipp` as arithmetic, with the truncating division of C++
written out. Points of time are minutes, for seconds go through every conversion unchanged. `Dates`
adds the conversions between texts, points of time, dates and QuantLib's dates. A text is the record of
the fields it shows. A zone is an offset to UTC and the months in which clocks are set forward.
`to_time_t` sets `tm_isdst` to 1, which makes `mktime` read every text as one of a clock set forward,
and then corrects the answer by the offset of the moment it runs at: outside of summer, an hour is
lost. In a zone whose clocks are never set forward the C library decides what `tm_isdst` means: `minds`
tells whether it takes the text for an hour later all the same. The C library's functions are as
`date.ipp` uses them.

`DatedRows` models the two loops that date the rows of a feed, `generate()` with the calendar that it
asks and the loop over the lines of a file, while the wall clock runs on beside them (`Tick`). The lines
of a file show any times, in any order, minutes apart or equal; `lines` has a row for each, and with it
what the line showed and when it was read, which are history. Of the generated rows only the last is
kept. `calendar` is a history, the calendar that people use, turned over
day by day next to the loop's date. A loop ends normally (`done`), in the assertion that a date is not
null (`null_date`), or in QuantLib's exception for years it has no dates of (`no_qdate`).

Operators whose comment begins with "Slip" are plausible mistakes; nothing uses them. For each
property `PROJECT.json` names one, which, put in the place of the definition that follows it, must
make TLC find the property violated.

## The runs

| run | question | instance |
|---|---|---|
| `walk` | Do book, states and announcements stay consistent whatever clients do inside the walk? | 3 orders (a purchase that the volume does not fill, a day sale whose limit only one of the bars reaches), 3 bars, each of the same day as the last or the next, two nested announcements |
| `backtest` | Do equity, cash, shares and volume agree with the executions when the bars are those a feed merges, is the exchange a brokerage, does the back-test end, and what does the program die of? | 2 symbols with the same two days or others, 2 loads, one bar that opens at 0, 2 orders out of an all-or-none purchase on a stop, a short sale and a limit order for a day, clients that keep the pointers to their orders or do not, cash 5 |
| `prices` | Are executions at prices the bar traded at, within limit and stop? | every type, side, stop and limit over prices 1..3 against every sequence of two well-formed bars and of a bar set without the symbol, clients that keep no pointer, a tick feed, cash 2 |
| `merge` | Does the dispatcher deliver by date, everything, and end? | up to 4 subjects added in any order, equal dates within and between them, one without values |
| `feed` | Does the merge lose or repeat nothing and come by date, and is the feed the subject that the dispatcher expects? | 2 symbols, 2 loads of files (in order, out of order, with null dates) or of generated days, resets, a date range, series of 4 rows |
| `event` | Whom does an emit call, in which order and how often, when callbacks subscribe, unsubscribe, emit and throw? | 3 subscriptions, 4 emits, nested up to 3 deep |
| `stale_volume` | Is the volume that of the bar, as `test/exchange/order.cpp` expects? | violated |
| `run_returns` | Does `run()` return, as every test expects? | violated |
| `positions` | Do positions, their states, the order map and the book agree, whatever users do in callbacks, is every position a holding, and does every announcement return? | 3 orders of long and short positions, executed, never executed, cancelled and expired, market and stop exits, 2 bars, a user that keeps no pointer and may exit again in `on_exit` |
| `null_exit` | Does an open position bear an event of its entry order, as a log message provides for? | violated |
| `dates` | Do the calendar algorithms agree with the calendar, are a file's rows dated in the order of its texts, and does a generator have rows on business days? | first dates around 1900, 1970, the leap day of 2000 and the year 2100 without one, two lines out of six texts, 0 to 91 minutes apart or years, six zones, two of them without summer time, a clock that goes from winter to summer to winter |
| `date_string` | Does a day's text survive the way to a date and back, as `test/detail/date.cpp` expects? | London; violated |

Why the bounds are enough. An order interacts with another one only through the book, the cash and a
volume, so the walk needs two others around the one under the cursor: three orders give every relative
place of an erased entry. Three bars cover acceptance, a retry on the same day or the next, and expiry,
in every order. Two nested announcements give a call of the client inside the walk's and one inside
that; a third only repeats the second. Three prices put a level below, at and above each price of a
bar. `Word` is 128 or 64 instead of 2^64, `Scale` 7 instead of 10^6 and `Exact` a quarter of `Word`
instead of 2^53: the orders' quantities are exact, as `RoundsAssumption` demands of each alone, and
what they add up to is so in part, is rounded in part, and wraps where a short sale goes below 0. (In
the code an order for up to 9 * 10^9 shares is exact. As 10^6 is a multiple of 64, products stay exact
up to 2^59; 576460752305 shares are the first that `round_` makes one less of.) `Casts` has both kinds
of target in `walk`, and elsewhere that of the Makefile's platform. `MaxOrders`, `MaxBars` and
`MaxDepth` are the only bounds, in the guards of `SubmitOrder`, `CancelOrder` and `OnBars`. In
`backtest` two loads of two rows give two symbols that agree on their days, two that interleave, one
alone, and a symbol that is loaded again, beside a series (`Maxlen` 2) that it fills; `MaxBars` 8 is
more than the sets that two loads can give. Two orders compete for cash and volume, and the first
volume of one symbol is not a whole number of shares. `PerDay` 2 makes two of the feed's dates one day.
Every death that `KnownDeaths` speaks of is reached there: the stop order meets the bar that opens at 0
after it was hit and not executed. In `positions` three orders give a position its entry, an exit and a
second exit, or a second position beside it; two bars are enough, because an exit submitted inside the
walk is accepted on the same bar and can expire on the next. Its users call nothing inside an
announcement that is already nested, as `MaxDepth` is 2. They do not exit, nor cancel an exit, in
`on_order_updated`: see the findings. `Dispatcher` needs no bound: each subject is added once and its
values run out. In `feed` two symbols give the merge every relation of two cursors, and two loads a
second file of one symbol, the same file again, or a feed that is filled further between two runs;
series of four rows are filled by some pairs of files and not by others. In `event` three subscriptions
are one more than the vector's second capacity holds, so that it moves under an emit and also grows
without moving; four emits give a pending change two repetitions, and a frame at each depth of three.
In `dates` `Maxlen` is the code's own constant: a generator of one row a day runs almost three years,
over the end of the century and its leap day or over the turn of a year before the epoch, and the zones
lie on both sides of Greenwich and have summers on both halves of the earth, or none. Two lines are
what `LinesKeepOrder` compares, and the texts are less than an hour, an hour and more apart, on a day
on which the clock that reads them may be set back. What the loops do between these dates, and with
other texts, the proofs cover.

Deadlock is checked in every run but `dates` and `date_string`, whose loops come to an end.
`Terminated` lets the system stop where it really does: after a fault, at the end of the feed, and
with the client asleep for good; `Dead` does in `Backtest`, after a fault.

Fairness. The walk, and in `Strategy` the walk and the handlers together, have weak fairness because
they are straight-line code of one thread and announcements return; the client's calls and the user's
have none. `AllReturns` and `BacktestEnds` hold although a user may call on, but only as long as
`MaxOrders` allows: one who submits a new order whenever one is announced in the walk, to the end of
the book that the walk goes to, would keep the code in one walk for ever. In `Backtest` dispatches and
walks have it, as one worker thread does both; `BacktestEnds` allows that it is stopped, meets a full
series or dies. In `Dispatcher` the worker and the client inside a call have weak fairness (the worker
of `Feed` likewise, as long as it is not asked to stop), which is what a scheduler gives threads and a
mutex that nobody holds for longer than a step; the client's calls, exceptions and spurious wakeups
have none.

## The proofs

`ExchangeProofs` proves, for all orders, bars, bounds, word sizes and initial cash that satisfy the
four named assumptions of `Exchange` and that of `Precision`, that `TypeOK`, `BookHoldsLiveOrders` and
`StateMatchesFill` are invariants (`TypeCorrect`, `BookCorrect`, `FillCorrect`). None is inductive
alone. That the book holds the live orders depends on where the walk stands: an ended order stays
registered exactly while the walk's own frame announces it, so the invariant must know that this frame
is at the bottom of the stack, that it is about the order under the cursor, and that a client can only
have cancelled that order meanwhile. `WalkStands` says so, and needs the states' meaning
(`StateMatchesFill`) in turn: an execution of an order with something remaining leads to a state whose
announcement is in order. `Inv` is the four together. The proof has a lemma for what each operator
returns (`FillBounds`, `AddInfoEffect`, `AdvanceEffect`, ...), one for the frame of all actions that
touch one order (`OneFrame`), and one per action.

`NeverOverdrawn` says that an exchange which does not allow negative cash never has any, whatever
orders compete for it within a bar. It is inductive by itself and not worth a run; the lemmas follow
it through the one operation that pays, `commit_order_execution`.

`ExchangeStepProofs` proves what a step of the exchange may do to an order. `StepKinds` says, from `Inv`
and from the clauses of each action, that a step of the exchange is one of few kinds for its orders: it
places one, switches one, fills one, marks a stop as hit, or changes none. From that, from `Inv` and from
a second invariant on the history of orders (`History`: when they were placed and accepted, as seen
from the walk) follow the one-way life of an order (`OrdersLiveOneWay`), that every end is announced in
its step and only there (`EndsAreAnnounced`), that day orders keep their day (`DayOrdersKeepTheirDay`)
and that nothing looks ahead (`NothingLooksAhead`). Prices need the fill rules: `FillPrice` goes through
the order types and shows that each returns a price of the bar, within limit and behind the stop
(`ExecutionsTradeWithinBar`, `StopsWait`), for bars that are well formed, which is a condition of these
two properties. `ExchangeIsABrokerage` is the refinement: the initial state maps to one of `Brokerage`,
and every step maps to placing, moving or executing a trade, or to a stutter, where a death of the
program is a step in which the account does not change.

`LongSharesStay` says that the shares of a symbol held long are what its orders executed, while that
number is one that doubles hold exactly, before and after the execution (`IsExact`), and for sales on a
target that wraps negative doubles. No more can be said: beyond, `round_` loses shares that `size_t`
has room for. `RoundWordKeeps` is what it needs of the way through `Double`, with `LeastOfSet` for the
spacing of doubles, and `SaleWraps` what it needs of a sale. The rest is a sum over orders. Sums here
are folds over sets, which take the elements in an order of their own (`CHOOSE`), and the induction
theorems of the library cannot be used, as they take an operator for a parameter. So a function that
sums up over the subsets of `S` is shown to exist (`SumExists`), to be the only one (`SumSame`), and to
take any element for the first (`SumSteps`), by induction over numbers and over subsets that is told of
a set of them instead of an operator (`AllNaturals`, `AllSubsets`); `Total` is this sum, and
`FilledOfTotal` finds it in the fold. A step that changes one order changes the sum by what it changes
of this order (`TotalChange`). All later sums use these lemmas.

`DatedRowsProofs` is about the calendar and the loops of `DatedRows`, for all zones, clocks, texts,
first dates and holidays that satisfy `DatedRowsAssumption`. The conversions of the code go through eras,
years and days of a year, by divisions that no prover takes in one step. The argument has four parts.

1. `YearStart` is the day on which a year that begins in March begins. Both `days_from_civil` and
   `civil_from_days` are shown to go through it: the first adds the day of the year to it
   (`DaysFromCivilIs`), the second finds the year whose start is not after the day and whose next start
   is (`YearIs`), and there is only one (`YearIsUnique`). So every day has a date that leads back to it
   (`DaysSurvive`).
2. The day after a day is in the same year or is the first of the next; within a year the months are a
   finite table (`NextDayOfYear`). So `civil_from_days` of the next day is what a person writes under
   the next day (`NextCivil`, `NextDay`), and an era on, everything repeats (`EraShift`).
3. The loops keep the invariant that `calendar` is `utc_tm` of the loop's date, from which
   `CalendarAgrees` follows (`CalendarCorrect`).
4. A line is dated at the time it shows, moved by what the zone and the moment of reading add, the same
   for any text (`Shift`). That is at most an hour less for a line read later than for another
   (`ShiftGrows`), and the invariant says of every row of the file that it is dated so (`ReadAs`). So
   of two lines the one that shows the earlier time is dated earlier, unless they are within an hour
   and the clock was set back between them (`LinesStayInOrder`). Nothing is assumed about the lines'
   order. `BusinessDaysCorrect` follows from the invariant and from where the lost hour and the zone
   can lead to (`HourLost`).

The leaves with large numbers name SMT, because Zenon writes numerals out.

`DispatcherProofs` proves, for any subjects and any dates in ascending order, all five safety
properties of `Dispatcher`. Its invariant relates the worker's place in the vector to what was started,
dispatched and stopped so far, and says that within a pass the chosen date is the smallest that any
subject had at its beginning and that no subject has an earlier one now. So a pass leaves every subject
at a later date (`TailAscends`), which gives `MergesByDate`; and a worker that ends has found every
subject at its end, or was told to stop (`EndMeansNothingLeft`).

`FeedProofs` proves, for all files, symbols, ranges and series lengths, that the feed loses and repeats
no row (`RowsComeOnce`) and that its sets come by date (`SetsComeInOrder`). The first counts the sets
that have a value of each symbol: a row's index is how many of them came since the symbol's cursor was
last at the start (`AnnouncedOnceMeans`, and `AnnouncedMore` for one set more). The second needs
`NothingEarlierLeft`: what rests of each symbol in order is later than the last set, unless rows were
added since. `RestIsLater` shows that the merge, which takes the smallest of the dates under the cursors
and moves exactly these cursors, keeps it.

`FeedIsASource` is the refinement of `DatedSource`. Whatever the files are, the schedule that is read
off the rows is one the dispatcher expects (`KeepsSchedule`), so that every step without a worker is a
`Fill` or nothing. With a worker, `Manned` says that the feed is started, and so refuses rows. A
dispatch moves the cursor of exactly the symbols that have a row of the earliest date
(`EarliestIsPeeked`), so this date comes once less and no other changes (`TimesAfterDispatch`): one
delivery of the earliest date is gone from `Due`, and by counting, what remains is the tail of the
schedule (`OrderedTail`).

`EventProofs` proves that emits call whom they owe, in order and once, and that no iterator outlives a
change, each under the conditions that the property itself names (what callbacks have done so far is in
`used`). A step is a subscription, an unsubscription, an exception, a turn of an emit or nothing
(`StepKinds`). The invariant has three parts beside types. `Owing`: the part of the list that a walk
has passed is fixed, the list followed by what waits to be added is in the order in which subscribers
came, and without an emit in progress what waits is in the list already. `Once`: nobody is on the list
twice, no walk has yet called whom it has ahead, and erasures only thin the list out. `Nesting`: where
emits only nest, nothing waits, and every walk ends where the list ends, in the buffer it began in.
Two functions of the model are recursive (what a list of erasures leaves, the room a vector grows to).
What is needed of them is proved by a least counterexample, as an induction rule with an operator as
parameter cannot be used; only facts for which an argument of that form exists are proved this way.

`StrategyProofs` proves, for all entries, exits, orders, bars and bounds, that the exchange keeps its
invariants when a strategy calls it from inside its announcements (`ExchangeUnderStrategy`), that
positions, map and handlers keep their types (`PositionsTyped`), that between announcements a
position's state tells what became of its entry (`StatesFollowEntries`) and the map has exactly the
orders that can trade, each under a registered position that made it (`EveryOrderHasAnOwner`), and that
the strategy refines `Holding`, step by step (`PositionsAreHoldings`), and that a position's shares are
its orders' executions (`SharesAreFills`). Three assumptions are used beside those of `Exchange`:
`EntriesAssumption`, `UserAssumption`, and `RequestsAssumption`, by which the orders that positions
make are among those the exchange is modelled with. All six theorems have the hypothesis `Orderly`: the
user neither exits nor cancels an exit in `on_order_updated`, nor in the `on_enter_canceled` that a
cancellation made there leads to. It is not for the proof's sake: the findings show what the code does
to a user who is not.

None of the properties is inductive, and most hold only while no announcement is in progress. Between
an order and its position stands the stack: an order may have ended, or have been executed in part,
without its position having been told. The invariant `Running` therefore speaks of what positions know:
`Known` is what the position was told of the order's executions, and `Lives` says that it still takes
the order for one that can trade. Executing, cancelling and expiring an order leave both as they were,
for what they change is in the new frame, `Untold`; only `Deliver`, which tells the position, changes
them. In these terms a position can be described at every moment: `OrdersFit` says that of all orders
it ever made only its entry and its last exit live, and never both, and `StateFits` that it is Idle
with a live entry of which it knows no execution, Open with at least one share and no more than its
entry's size, with a live exit for just the shares that it still has, or Close without shares or live
orders. That an exit never sells more than is held and that a position is closed by the execution that
leaves it nothing follow from this. The rest of the invariant is about the stack: no two announcements
in progress end the same order, executions are announced at the bottom only, an order that is being
submitted has no position yet, and what waits to be told to a position is still in the map
(`FrameFits`, `FramesFit`, `MakingFits`, `OwnersFit`). There is a lemma for each action and one for
each kind of step that several actions share (a frame pushed, popped, or walked on), about `Known` and
`Lives` in particular (`PushUnseen`, `PopUnseen`, `GotoUnseen`, `WalkUnseen`, `ToldViews`). TLC has
checked the invariant on the instance of `positions`.

`SharesAreFills` adds to it, for the same reason, a sum of what is known instead of what was executed:
`SharesInv` says at every moment that a position's shares are what it knows its buying orders to have
executed, less what it knows of its selling ones, over all orders it ever made, canceled and replaced
exits included. Only `Deliver` changes what is known, and the shares with it, of one order. Between
announcements all is known, and `SharesFollowFills` follows.

`BacktestProofs` is about the exchange and the feed together. The lemmas about the exchange's steps
allow for bars of any day, and `FeedProofs` is instantiated (`P`), so that both invariants hold of the
composition (`Base`). A step of it announces a set, loses one to a full series, adds rows, starts or
stops the feed, or is the exchange's own (`Brings`, `Loses`, `Adds`, `Turns`, `GoesOn`). That the
exchange keeps its invariants, refines `Brokerage` and keeps long shares (`ExchangeStands`,
`BacktestIsABrokerage`, `BacktestKeepsLongShares`) carries over. The rest relates the two.

- `Synced`: the exchange's bars and its day are those of the last set. So a set that the merge makes is
  one of those that `Exchange` chooses from, and as the date that is due is not before the last
  (`DueIsLater`), every step is a step of `Exchange` (`BacktestIsAnExchange`). Its hypothesis
  `Gaps = Nat` says that any number of days may pass between two bars; the run has as many as its files need.
- `VolumeIsOfFirstBar` by `Volumes`, the same property with the room that is left of a volume: each
  execution takes as much of it as it adds to the sum over the orders.
- `NoMoneyAppears` by `CashIsPaid`: cash is the initial cash and what the orders brought in. What is
  held is summed over symbols and what was gained over orders; `WorthBothWays` says that both give the
  same, at any prices.
- `DiesOfWhatItWasGiven` by `Fatal` and `Together`. `Fatal` keeps of every death how things stood then:
  the order under the cursor and what its last attempt ran into. For a fill at price 0 that goes
  through the order types (`FailedFills`): all but that of a stop order hit earlier test their price.
  `Together` says that symbols with the same dates are dispatched together, as long as no set is lost,
  so a bar set without an order's symbol means other dates or a lost set. For an all-or-none order that
  asks for too much, the volume it found is by `Volumes` that of the first bar less what the other
  orders got, and they got no more than they asked for (`DemandAbove`).

`BacktestAssumption` has what they use beside the assumptions of `Exchange`: finitely many symbols,
files with rows of bars, and a `ValueMaps` that leaves out no bars that a file may hold.

What the properties leave open. `walk` and `positions` have clients that keep the pointers to their
orders, so that what a freed order leads to is seen in `backtest` and `prices`. `StopsWhatItStarted` is
about normal ends, not about exceptions and races, and `WorkerEnds` admits that the process was
terminated. `SharesFollowFills` and `ImplementsHolding` are about users that are orderly in
`on_order_updated`, and the second about the steps before a position is unregistered twice.
`RowsOnBusinessDays` is about midnights east of Greenwich and admits that the loop dies. For what lies
beyond, see the findings.

Every safety property and every refinement that a run checks and finds to hold is proved. Only
model-checked is liveness (`WorkerEnds`, `AllReturns`, `Drains`, `BacktestEnds`), for fairness is out of
the prover's reach; and the runs that find violations, whose counterexamples need no proof. What is
proved is the model: that it agrees with the code is for the reader to judge, by the lines that
`PROJECT.json` gives for every definition.

## Findings

The volume that is never renewed (`stale_volume`) has a consequence that the model makes plain: a
PartiallyFilled order has used its symbol up, so it is never Filled, although `Order::state_table`
provides for it. The next attempt finds no volume or runs into the next assertion.

Four assertions of the exchange can fail in ordinary use, and are values of `fault` in the runs
that pass: a stop order that was hit on an earlier bar, and not executed, is filled at the open of the
next, without the test for 0 that all other prices get (`zero_price`, `exchange.ipp:96`); a fill of
less than a share, which a volume that is no multiple of four leaves, is
truncated to none (`zero_quantity`, `exchange.ipp:97`); an all-or-none order for more than the volume
left aborts instead of waiting (`all_or_none`, `filltype.ipp:340`); and so does a bar set without the
symbol of an order (`no_symbol`, `exchange.ipp:55`), which the memory feed delivers when the dates of
two symbols differ. Whatever a client does, `cancel_order` and the path of a Filled order use an
order after the book has dropped it (`freed`).

Four more comments and assertions of the strategy do not hold, without a run of their own.
`exchange/impl/exchange.ipp:32` wants no event for an order that "is not yet mapped to the position",
but `submit_order` emits one four lines below, and returns only then to the position that the order
is for. `strategy.ipp:79` cancels what `statemachine.ipp:128`
asserts to be unexecuted while the position is Idle: a user who cancels an entry in `on_order_updated`
does so before the position hears of its execution. `statemachine.ipp:157`
says that exit "can be called on exit", but a user who does so ends in the assertion that the
position is still registered (`unregistered_twice`). `strategy.ipp:93` says "emit event first, before
possibly getting destroyed", but the handler reads the order after the position, and the order
with it, may be gone (`freed`).

The series never refuse a row for its date: `timeseries.ipp:41` compares the last row with itself. So
two files of one symbol that are added in the wrong order are delivered as they stand, and a symbol that
gets rows between two runs starts from its first row again: the exchange is then told of days of the
past, which is why `StepsOfTheExchange` excludes it. A row with a null date, that of
1970-01-01, which `FeedCsv<Bar>` asserts against and `FeedCsv<real_t>` does not, lets the feed
neither deliver nor end (`DispatchNothing`).

`on_order_updated` is called before the position is told of the same event. A user who cancels the exit
order there, while a part of it is announced as executed, makes the position lose those shares: the
nested announcement unlinks the order, and the outer one finds no position any more. TLC finds it as a
violation of `SharesFollowFills` as soon as `Calls` has `<< "on_order_updated", "cancel_exit" >>`; a
user who exits there submits an exit for shares that have just been sold.

A number of shares is exact only as long as its millionfold fits a `double` (`precision.h:30`): from
576460752305 shares on `round_` loses some, although `size_t` has room for thirty times as many. Every
sale rests on the conversion of a negative `double`, which C++ does not define (`exchange.ipp:183`),
and what a short position wraps to is scaled and divided into yet another number.

Dates. The hour that `to_time_t` loses makes a day's text that of the day before, unless it is summer
when the program runs (`date_string`). `to_qdate` goes the same way, so a generator west of Greenwich,
or at Greenwich in winter, judges the day before: it takes Saturdays in and leaves Mondays out
(`RowsOnBusinessDays` speaks of the zones east of it). The offset is asked for with every line. So when
the clock is set back while a file is read, a line that shows a time less than an hour after that of a
line read before is dated earlier, lines an hour apart get equal dates, and lines with equal texts
dates an hour apart; the sort that follows makes that the order of the rows. A generator that comes
upon the first midnight of 1970 dies in the assertion on null dates (`frequency.h:30`), and so does a
file of bars with a line that is read as that; days before 1901 throw.

`position.ipp` has two more: stop and limit prices change places (line 413), as said
above, and the tracker of profit and loss is never told of an execution, because the call is commented
out, so it stays at zero.

Each run that is expected to be violated shows one disagreement of the code with what the
repository says about it; `PROJECT.json` quotes both sides under `findings`.

## Plan

Done: `FillType`, `Exchange` and its proofs; `Dispatcher`; `Strategy` with its abstract specification
`Holding`; `Event`; `Feed` with `DatedSource`; `Backtest`, the exchange over the feed; the dates; and
proofs for each of them.

What is left: the strategy over the feed, that is `Strategy` with the bar sets of `Backtest`, and the
theorems of `StrategyProofs` for it.

Not modelled, and why:

- Commissions other than none are a constant or a product, without state. Slippage is none.
- Rounding of reals, the Brownian motion of the generator and its matrix: arithmetic of reals and
  random numbers.
- Indicators: a moving average that no component uses, and that does not compile.
- The tracker of a position, which nothing updates.
- `to_tz` and `to_tm` with another zone, which set the process's `TZ` and put it back; milliseconds;
  the `get_` functions for single fields of a date.
- Reading the bytes of a file and the columns of a bar. The market's enumeration, logging, strings,
  type traits and plots: wording and layout.
