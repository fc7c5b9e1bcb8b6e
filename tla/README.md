# A TLA+ model of the ad server module

The repository is nginx with an ad-serving module under
`src/src/adservice/adservice` (all paths below are relative to it). This
directory holds TLA+ modules that model the parts of the module where order,
failure and reuse of state matter, TLC configurations that check them on small
instances, and TLAPS proofs of the most important properties for instances of
any size. `PROJECT.json` lists components, runs, theorems, hazards and, for
every definition, the source lines it stands for.

## The system

| Part | State | Operations | Talks to |
| --- | --- | --- | --- |
| nginx glue, `main.cpp` | configuration, global clients | start-up, read the body, dispatch by path, write the response | every query task |
| Query tasks, `service/core/logic` | one log item per request | `operator()`: parse, cookie, common logic, `customLogic`, log | everything below |
| Bid requests, `bid_query_task`, `protocol/*` | one handler object per exchange and worker: response, `adInfo`, `cmInfo`, `isDeal` | `filter`, search, `buildBidResult`, `match`, `reject` | ad selection, cookie mapping, logs |
| Show, click and trace requests | order, frequency and source records in Aerospike | count a show, record a source, read it back | Aerospike, logs |
| Ad-selection client, `core/adselectv2` | one ZeroMQ REQ socket per worker | `search`, `getBannerById`, push of request counters | the ad-selection service |
| Cookie mapping, `core_cm_manager`, `model/user`, `mapping_query_task` | Aerospike records device or cookie -> user, browser cookies | look up, put, touch, map | Aerospike |
| Log pusher, `core/logpusher` | mode flag per logger, Kafka producers, one monitor thread | `push`, delivery reports, monitor, local files | librdkafka, executor |
| Executor, `core_executor` | task queue, mutex, two condition variables | `start`, `run`, `take`, `stop` | worker threads |
| Reference tables | ip, area, content type, size, scenario | load once, look up | files, database |
| Collector and other tools, `tool/` | progress and counter files | upload local logs, inspect records | log pusher, Kafka |

What is hard in it:

* the executor, the log pusher and librdkafka run threads that share flags, some
  without a lock;
* the log pusher changes between Kafka and local files while brokers come and
  go, and three threads decide about it;
* the ad-selection socket must alternate send and receive although a search may
  be given up and messages get lost;
* user records are written asynchronously by several workers and expire;
* a worker keeps one handler per exchange and reuses its members for every
  request, so each of the 14 handlers must overwrite what an earlier request,
  perhaps a failed one, left behind;
* local log files are rotated with the wall clock, read at several moments;
* shows, clicks and traces each make several Aerospike calls that fail one by
  one, and what they cost is decided in several places and carried between them
  in url parameters;
* the collector and the scenario cache keep state in files that several processes
  read and write, and that a kill can leave torn.

## Modules

`ThreadPool` - `ThreadPool` and `Executor`. One step per
statement that another thread can observe: `running` is `running_`, `queue` is
`queue_`, `mutex` the holder of `mutex_`, `noempty` and `nofull` the threads
blocked in the two condition variables, `pc` and `task` the threads' positions
and locals, `ctl` the owner in `start()` and `stop()`. Spurious wakeups,
throwing tasks and failing `pthread_create` are included. Each task is submitted
once. Thread affinity (`RunInCore`) and `getThreadSeqId()`, which nobody calls,
are left out.

`TaskQueue` - what the executor promises: a bounded FIFO queue whose tasks are
executed once. `ThreadPool` implements it (`ImplementsTaskQueue`).

`LogPusher` - `push()`, the delivery callback and the remote monitor. Every read
or write of the unlocked flags is a step. `outq` is librdkafka's queue of each
producer; the history variables say what became of each log. librdkafka and the
brokers are external: a message is accepted while the queue has room, and later
reported as delivered, or, when delivery may fail, with an error. A local push
ends where the executor takes over.

`LocalLogFile` (with `MCLocalLogFile`) - `LogPushLocalTask::operator()`:
rotation, `mkdir`, `fopen`, the count of logs and the static buffer of
`localtime()` that all threads share. A task reads the clock three times
(`getCurrentTimeStamp()`, `time()`, `getTodayStartTime()`), and it may advance in
between; a tick is a fraction of an hour. Reading the buffer while another thread
writes it is a data race: the day and the hour of the directory's name are each
the reader's own or those written since. The history variable `raced` marks the
threads this happened to. A rotation that returns early (line 128 or 148) has
closed the file but cleared only its local copy of the pointer, so `fp` of the
thread data stays `"closed"` and the next task closes it again (`CloseAgain`).
That is undefined; the outcomes of the model are that nothing happens, that the C
library ends the process (`Abort`), or that the memory has become another
thread's `FILE`, which is closed under it. That thread's next `fwrite()` is
undefined in turn (`WriteClosed`). `failed` remembers that a rotation gave up
after closing its file, and `harmed` marks the threads whose `FILE` was hit.

`AdSelectClient` - the REQ socket. A `session` is the life of one socket; a
message carries its session, because ZeroMQ drops replies to a closed socket.
Messages are lost and delayed, `recv` and `send` throw. The service is external.

`CookieMapping` (with `MCCookieMapping`) - device and cookie records, the lookup
and update that the bid handler makes (`queryCookieMapping`,
`redoCookieMapping`), and the browser's cookie, show and mapping requests.
Lookups are synchronous and may time out; puts and touches are on Aerospike's
event loop (`inflight`), take effect in any order and may be lost; records
expire at any time. A user id is the pair of a process number and a time in
milliseconds, as in the code, so ids may collide.

`BidExchanges` - one pair of operators per exchange: which impressions `filter()`
makes conditions of and with which lookups, and in which order
`buildBidResult()` fills in `adInfo`, makes the urls, sets the deal id and
updates the user. `Bidding` (with `MCBidding`) - one handler serving request
after request: the loop over conditions, failing searches, a build as one step
per call (`calls` are those still to come), exceptions in `filter()` and between
any two calls of a build, the logs and the answer. A request is
its test flag, its device section, its impressions (does it offer a deal, can
it be used) and whether it tells a content type and keywords. An unparseable body is an empty request. A user is named by the
request that found or made it, so that a user left over from an earlier request
can be told apart.

`Charging` - what a show and a click are booked at: `getShowPara()` and
`getClickPara()` make the urls, `buildResponseForSsp()` and
`buildResponseForDsp()` the click url of the page, `calcPrice()` and
`parseObjectToLogItem()` the fields of the log. The two encodings of a url are
modelled by what they do to a parameter: numbers go through `numberEncode()`, and
the cyphered form keeps the parameters of `paramBindingTable`, those it declares
as integers by their value.

`Delivery` (with `MCDelivery`) - show, click and trace requests of several
workers. `shows` and `clicks` are the order counters in Aerospike, `freq` the
frequency records, `sources` and `index` the records of clicks and the way to
them; calls under way are in `counting`, `putting`, `adding` and `late`. Every
call is a step, and histories say what was logged and what is due. A call may be
lost, a write reported as failed may take effect later, records expire, a worker
dies at any step and is replaced. The Aerospike server is external.

`LogCollector` (with `MCLogCollector`) - `tool/locallog_collector.cpp`. A file is
a sequence of cells (a head, a piece that looks like one, a piece of payload);
`Window` cells are in the buffer at a time. The progress and counter files are
opened, truncated and flushed in the order of `finalize()`. Executions overlap
and are killed, somebody removes the state files, and the server goes on writing.

`ReferenceTables` - loading and lookup of scenarios, areas and ad sizes, as
operators. `Startup` (with `MCStartup`) - a worker's first request: the scenario
cache that is created in place and read back, a database that fails, an exception
that ends the worker, and the master that starts another.

`ThreadPoolProofs`, `LogPusherProofs`, `WorkerProofs`, `CookieMappingProofs`,
`BiddingProofs`, `ChargingProofs`, `DeliveryProofs`, `LogCollectorProofs` - the
proofs, each about the module it is named after. `LogPusherProofs` is also about
`LocalLogFile`, where the logs of local mode end up; `WorkerProofs` is about
`Startup`, with the operators of `ReferenceTables`, and about `AdSelectClient`,
the two things a worker answers a bid with. So that two specifications can be
reasoned about in one module, `LocalLogFile` and `Startup` have `FileSpec` and
`StartupSpec` (and so on) for `Spec`, and a worker's position in `Startup` is
`phase`.

The modules are checked one by one. They meet at narrow interfaces: a local
`push()` of `LogPusher` is a `run()` of `ThreadPool`, whose tasks are the
`operator()` of `LocalLogFile`; `Bidding` takes a lookup to answer "found" or
"none", and `CookieMapping` says what that answer means; a search in `Bidding`
succeeds or fails, and `AdSelectClient` says that an answer is the call's own. The
urls of a bid are where `Delivery` starts, and the files `LocalLogFile` writes are
what `LogCollector` reads.

## Runs

| Run | Checks | Shows |
| --- | --- | --- |
| `pool` | `TasksConserved`, `WakeupsCoverQueue`, `WakeupsCoverRoom`, `ImplementsTaskQueue`, `QueuedIsExecuted`, `RunReturns` | no task lost or run twice, no wakeup missing, refinement of the queue; queued tasks are executed and callers return, also beside a throwing task, while a worker lives |
| `pool_stop` | `StopTerminates` - violated | `stop()` can hang |
| `log` | `LogInOnePlace`, `MonitorOwnsParam`, `MonitorEnds` | a log is never duplicated and the monitor is never disturbed |
| `log_report` | `RemoteResumes` - violated | a failed delivery report can leave a logger in local mode for good |
| `file` | `CountIsExact`, `OneFilePerHour`, `WritesOpenFile`, `LogsKept` | unless another thread overwrote the hour, rotation truncates nothing and opens one file per hour; while no rotation has failed, counts are exact and all writes go to open files, and afterwards this holds of the threads that no repeated `fclose()` hit |
| `select` | `ReadyBetweenCalls`, `AnswersOwnCall`, `SearchReturns`, `CallsReturn` | a late reply never answers another call; only `recv` throwing leaves the socket unusable; only a lost message blocks `getBannerById()` |
| `cookie` | `NoForeignUser`, `OneUserPerBid`, `SilentAfterTimeout`, `WritesLand` | no record gets a user of somebody else; a timed-out lookup writes nothing |
| `bid` | `ResponseIsOwn`, `LogOwnAd`, `UrlsOwnAd`, `DistinctSolutions`, `UserConsistent`, `OwnUser` | nothing of an earlier request gets into a later one, for all 14 exchanges, and nothing of an earlier condition but four fields of the log; a user only where the request is not looked up |
| `bid_deal` | `DealCarried` - violated | Youku and Nex lose the deal id of an earlier impression |
| `delivery` | `OrdersAgree`, `FrequencyAccount`, `TraceOwn`, `ChargedOnce`, `SourcesNeverRewritten` | order counters agree with the logs up to lost calls and dead workers; frequency counts are exact unless a fresh counter raced; a trace names its own click; every price is booked once; no click record is replaced |
| `collector` | `NothingSkipped`, `PushedOnce`, `Collected` | no record before a saved offset is skipped; one is pushed again only after a fault; what can be read is collected in the end |
| `startup` | `ScenarioKnown`, `AreaKnown`, `SizesReturn`, `WorkersServe` | lookups agree with the files, also while two workers race for the cache; the workers serve in the end |

Three runs show a disagreement with a comment, a message or a test of the
repository; `PROJECT.json` quotes it:

* `stop()` clears `running_` and broadcasts without the mutex. A worker between
  its test and its `wait()` misses the broadcast, and `join` waits for ever
  (`core_executor.cpp:53`); `test/executor_test.cpp` expects `stop()` to return.
* A failed delivery report sets local mode, and only a later successful report
  ends it. In local mode nothing is produced any more, so with no message in
  flight there is none (`kafka_log_producer.cpp:33`). `RemoteResumes` also fails
  without failed reports: a push that fails between the monitor's
  `setWorkMode(false)` and `started = 0` (`log_pusher.cpp:266`) sets local mode
  and finds a monitor that is about to end.
* `isDeal` is a member that each impression overwrites
  (`youku_bidding_handlerv2.cpp:279`).

Five more behaviours of the models are worth knowing. `monitorRemoteLog()` recovers
the logger named `MTTY_SERVICE_LOGGER`, so a bid logger that failed stays local
(`log_pusher.cpp:251`, `MonitorRecover`). `lastTime` combines the hour read
before midnight with the day read after it, so that the next rotation comes a day
late (`log_pusher.cpp:150`, `SetLastTime`). And a thread that rotates while
another one calls `localtime()` in a different hour may name its file after that
hour, or date it so (`log_pusher.cpp:133`); it can then open a second file for an
hour, or one of a name it has used in the same second. `OneFilePerHour` and
`LogsKept` are therefore stated for the threads this did not happen to. A
rotation that fails after `fclose()` makes the next task of the thread close the
same `FILE*` again (`log_pusher.cpp:119`); `lastTime` stays expired, so the thread
does not write to it, but another thread's file may be closed. `WritesOpenFile`
says how far that goes, and `CountIsExact` exempts the threads it hits. Finally
`fillLogItem()` does not clear the log item that all conditions of a request
share: the log of a condition without an ad still has the area and the media type
of the last accepted condition (`abstract_bidding_handler.cpp:202`, `208`), the
content types of it and all conditions since (`176`), and any log may have the
keywords of an earlier condition (`179`). `LogOwnAd` states this, and that ad,
device and deals are the condition's own.

### Bounds

* `pool*`: two workers, two callers, a queue of two, three tasks of which one
  throws: a busy worker takes the task a sleeping one was woken for, callers
  compete for one slot, and a worker dies beside a living one. No symmetry, as
  liveness is checked. The stop run needs one task and two workers.
* `log*`: two loggers share the one monitor parameter; four logs and a librdkafka
  queue of one fill the queue, start the monitor and push again while it runs.
* `file`: hours of two ticks, days of two hours, two threads: several rotations
  and a midnight, a failed rotation followed by another, and a thread whose
  file that one closes.
* `select`: five calls, enough for a timeout, a late reply, a failed `recv` and
  the calls that suffer from it.
* `cookie`: two workers, two phones that share a placeholder id, a browser and a
  phone that share an exchange id, a record without origin, two bids of two
  conditions, one browser visit, two milliseconds, one fault. `WritesLand` is
  stated for keys without a record at the start, to keep the liveness check small.
* `bid`: two requests (an earlier and a later one) of two impressions, each
  exchange, three solutions: a native deal, an html and a video banner (every
  build treats a picture like one of these). The second request starts from every
  state the first can leave behind. Of the requests an exchange treats alike
  (`Treatment`: the answer of `filter()`, `isDeal`, the content types and keywords,
  the device section, whether it is a test) there is one; the actions ask nothing
  else of a request. The theorems are about all requests. Three impressions were
  checked once (679110 states).
* `delivery`: two workers and two users (symmetric). Eleven ads, one for every kind
  of terms (cpm, cpc, a deal, fixed prices, a url given out with the bid, the
  four pairs of price types of an SSP), with a show and a click; overlapping shows
  of two ads with one fault and one expiry; three clicks and traces of one ad, and
  two of two advertisers with a clock that moves; all three kinds of requests
  together. `DeliveryProofs` and `ChargingProofs` remove the bounds.
* `collector`: two executions and two files, one with a payload that holds a piece
  like a head, the other with a record longer than the window and a second flush
  while the collector runs; one kill, with one overlap or one removal of the
  state files.
* `startup`: two workers and one kill; the 677 sets of disjoint networks over
  three-bit addresses and every two ranges, networks or not; 128 address tables
  with two prefixes; a database that fails after any row, with and without a
  native size that stands for two sizes. `WorkerProofs` removes the bounds for all
  but `WorkersServe`.

Every run switches deadlock checking off, because the numbers of tasks, logs,
calls and requests are bounded and the instance may come to rest; what has to
happen is stated as a liveness property instead.

### Fairness

* `ThreadPool`: weak fairness of every thread's steps and strong fairness of
  taking the mutex. The operating system runs what can run, and a pthread mutex
  that is free again and again is obtained in the end. Calls of `run()` and
  `stop()` and spurious wakeups need not happen.
* `LogPusher`: a push in progress goes on, the monitor wakes from its sleep,
  `poll()` reports what librdkafka has. The brokers may stay down; liveness
  properties assume they are up for good in the end.
* `AdSelectClient`: the worker runs, `poll` returns after its 5 s, the service
  answers what reaches it. Losing a message is never required nor excluded.
* `CookieMapping`: Aerospike's event loop carries out what it was given.
* `LogCollector`: the machine runs the executions it has, and `sync` is started
  again and again, as by cron. Nothing else is required to happen.
* `Startup`: requests keep arriving at every worker, the master starts a worker in
  place of one that ended, and a worker that handles a request goes on with it.
  Kills need not happen.
* `LocalLogFile`, `Bidding` and `Delivery` have safety properties only.

## Proofs

All theorems hold for every value of the constants under the named assumptions
of the modules, which say that constants have sensible types. Three modules also
assume finite sets, because their properties count: `ThreadPool` the workers and
callers (wakeups), `Delivery` the workers (requests being served), `LogCollector`
the executions and the files. `LocalLogFile` assumes that a day is a whole number
of hours. `Delivery` restricts the terms of ads whose click url is given out with
the bid (`TermsAssumption`, see `ChargingProofs` below), and `Startup` says what is
relied on of the files (`ResourcesAssumption`: an address table is sorted and
complete, an area comes after those that contain it and has a code of its own). TLC
evaluates the assumptions in every run.

* `ThreadPoolProofs`: `TypeCorrect`, `BoundHolds`, `NoLostTaskWakeup`,
  `NoLostRoomWakeup`, `NoTaskLost`, `PoolRefinesQueue`. The inductive invariant
  `CoreInv` adds to types and bound that the mutex is held by exactly the thread
  between lock and unlock (`MutexInv`), that threads registered with a condition
  variable are blocked (`WaitInv`), and that what a thread found out under the
  mutex stays true while it holds it (`LocalInv`); without the last,
  `QueueBounded` is not inductive, since a push comes one step after the test. The
  wakeup theorems then count: a push adds one task and wakes one sleeper, and a
  worker goes to sleep only when the queue is empty. For the last two, every step
  either leaves offered, pending, executing and ended tasks alone or is one of the
  four steps that move one task (`QuietOrMoving`); each of the four is treated in a
  lemma, and the refinement uses the same case distinction.
* `LogPusherProofs`: `TypeCorrect`, `MonitorUndisturbed`, `NoLogDuplicated`. The
  strengthening `HoldInv` says that `started` guards the monitor's parameter;
  `LogInOnePlace` is then inductive, with one lemma for producing a message and
  one for a report.
* `LogPusherProofs`, about `LocalLogFile`: `FilesInvariant`, `HourlyCountExact`,
  `OneFileAnHour`, `WritesGoToOpenFile`, `NoLogTruncated`. The invariant is one of
  each thread and has four parts. `FileInv`: a thread that writes has an open
  file unless it was hit by a repeated `fclose()`, and one that it closed itself
  has expired, so the thread rotates before it writes again; without a failed
  rotation no idle thread has a closed file and none is hit. `CountInv`: `logCnt`
  is the number of logs in the open file, or zero while a rotation is under way,
  with the same exception. `TimeInv` orders the three readings of the clock.
  `HourInv`: without a race, `lastTime` is not before the hour of the newest file,
  and a rotation has found it more than an hour ago, so that the hour it reads
  next is a later one; this is what makes the name fresh although the day in
  `lastTime` may be the wrong one. The lemmas on `\div` and `%` that relate an
  hour, its day and `lastTime` come first.
* `WorkerProofs`, about `AdSelectClient`: `TypeCorrect`, `SocketReady`,
  `SingleRequest`, `NoStaleAnswer`. The strengthening says that what is on the
  network belongs to a socket already opened, and what belongs to the current one
  is its single unanswered request (`NetworkInv`), and that a call replaces the
  socket at most once (`SessionInv`).
* `WorkerProofs`, about `Startup`: `SearchFindsLast`, `TablesLoaded`,
  `ScenariosKnown`, `AreasKnown`, `SizesComeBack`. The state part is short:
  `LoadInv` says that a worker's tables are those the load operators make of the
  files, from the step that makes them on, that a whole cache holds the same
  table, and that every entry of a map of sizes is from a row. What the operators
  return is most of the proof. For a scenario: the bits that the first address of
  a network shares with any other of it are the first address (`AndWithin`, by
  induction over the bits), so a network is filed under it and the test on an
  address of the network succeeds (`CidrOfNetwork`); the table is sorted
  (`SortedTable`); and `bSearch()` keeps the answer between its bounds while they
  close in (`NarrowSearched`), so that it ends, within as many rounds as the table
  has elements, at the last entry not above the key. For an area: the index that
  `flag` gives for an octet is never past the range of an address (`RangeFound`),
  every area is kept under a full name of one, two or three levels, and the lowest
  code wins a name (`AreaDict`, `LowestCode`). For a size: `add()` enters a row in
  both directions or, for the way back, leaves an older row of the same native
  size in place (`AddFromRows`).
* `CookieMappingProofs`: `TypeCorrect`, `RecordsBelong`, `OneUser`, `Silent`. The
  strengthening says that a busy handler holds only devices and users of its
  current request (`HandlerInv`), that requests have their own numbers
  (`RequestInv`), and that writes of a request still served carry the user its
  handler holds (`BidUserInv`).
* `BiddingProofs`: `TypeCorrect`, `HandlerInvariant`, and one theorem for each
  property of the run `bid`, for any number of requests, impressions and
  solutions. First the calls of each of the 14 builds are shown to be in order
  (`BuildOrdered`): the response is started, the ad added and `adInfo` filled in
  before a url is made or the build gives up, and where `redoCookieMapping()` may
  make a new id again, it comes before the urls, or last (Sohu). The invariant
  then says of a build that what it has not done yet is still among `calls`, so
  what is not ahead any more has been done for the current condition; of the
  log item, that it is the last log written, so that what the next log carries over
  is what that one had (`LogInv`, `LogAdded`); of the
  response and the answer, that their ads are those of the accepted logs, in
  order, each with a banned solution, its own urls and the user of its log
  (`AdsOwn`); and of `cmInfo`, that the user and `cypherUserId` agree unless a new
  user is about to be made.
* `DeliveryProofs`: `FrequencyCounted`, `TracesOwn`, `SourcesKept`,
  `OrdersMatchLogs`. The inductive invariant has two independent halves.
  `TrailInv` says that source ids are drawn once and belong to one click, that
  every write stored, under way or still to come carries the record of that click,
  and that an index entry names a click on an ad of its advertiser by its user: so
  whatever order the writes arrive in, a record is the same. `FrequencyInv`
  relates a counter to the shows since it began and to the puts and increments
  under way. `OrdersAgree` needs in addition that no two requests share a number
  and that a request being served has not been logged (`RequestsInv`): a log is
  then a new one and is counted once. Every worker's step is shown to have the
  shape `StepShape` (one worker goes on, at most one log); for such a step
  `WorkerStep` counts the log once, and `ShowDrift` and `ClickDrift` say how far
  an order's counters have to move; what is left for each action is that its
  counters follow the drift, or that a fault accounts for the difference.
* `ChargingProofs`, about `Charging` and `Delivery`: `NumberRoundTrip`, `Charged`.
  A number is cut into groups of seven bits, and a function on the groups says what
  is left of the number after each (`Remainders`); decoding takes the groups in the
  same order and gets the number back. Hence every parameter of a url is read as
  it was written (`ReadBack`), with and without cypher. From this follows, for each
  of the four ways a url is made, that what a show or click of it books is what is
  due under the terms (`ShowBooksDue`, `PageBooksDue`, `ClickBooksDue`,
  `SspBooksDue`). The inductive invariant `ChargeInv` says so of every request
  being served, every url that can be clicked and every log. `TermsAssumption`
  restricts ads whose click url is given out with the bid: they are not an SSP's,
  and one settled by the click in a deal has a price of its own, unless the
  exchange has a fixed price. NetEase and Yidian put that price into the click url
  (`netease_bidding_handlerv2.cpp:228`, `yidian_bidding_handler.cpp:333`); for the
  others the winning price is not known when the url is made, and a click could
  not book it.
* `LogCollectorProofs`: `CollectorInvariant`, `NoRecordSkipped`, `PushesBounded`.
  `PhaseInv` says what an execution has in memory at each of its steps,
  `OffsetInv` that everything in front of an offset was seen, and `PushInv` counts
  for every record the pushes against the faults and the executions that may
  still push it: each kill, overlap and removed file allows one more.

Induction over data. The functions of `Charging` and `ReferenceTables` recurse
over the groups of a number, the bits of an address, the rounds of a search or the
rows of a table. The provers cannot instantiate a library theorem that has an
operator as parameter, so induction is done with sets: a set that has 0 and, with
each number below `L`, its successor, has all numbers up to `L` (`Climb`), because
the least number it lacks would contradict that (`LeastIsMin`). `Recursion` shows
in the same way that a function defined by recursion up to a bound satisfies its
defining equation.

Only model-checked: the liveness properties (`QueuedIsExecuted`, `RunReturns`,
`MonitorEnds`, `SearchReturns`, `CallsReturn`, `WritesLand`, `Collected`,
`WorkersServe`). They need fairness and `ENABLED`, which the provers do not
handle. Every safety property of a passing run has a theorem.

## Limits of the model

* `Bidding` leaves out GET requests on a bid path (one log with status 500, the
  handler untouched), the switch that disables cookie mapping, and GDT requests
  without impressions, for which the handler reads `impressions(0)` unasked.
  A failing serialisation is a rejection. NetEase's response has no id; the
  model gives it the request that started it.
* `NoForeignUser` is about handlers that look up for every request. GDT,
  NetEase, Guangyin, Inmobi, Nex and LieBao skip the lookup for a request
  without device data, Kupai and 2345 never look up, and Youku and Nex do so
  only when the first impression can be used; the handler then still holds
  `cmInfo` of the request before, and its log and urls name that user.
  `Bidding` has these behaviours; `OwnUser` is stated for requests that look up.
* `buildBidResult()` may return early (Yidian, for one), and the bid is logged
  and sent all the same: `isBidAccepted` is not read. An exception during a
  build answers with an error after earlier conditions were logged as bids.
  Both are behaviours of `Bidding`; nothing in the repository says otherwise.
* A click url made before the show url has no user yet where the user is made
  during the build: `UserConsistent` allows for it.
* With a cookie key, `redoCookieMapping()` returns before `needReMapping` is
  reset, so each condition makes another id; a lookup error other than "not
  found" is taken for a missing record. Both are in `CookieMapping`. Times to
  live are not: a record may expire at any time.
* `userCookieLogic()` has a comment that the older of cookie and url parameter
  is used (`abstract_query_task.cpp:378`); the comparison is commented out and
  the parameter wins, and so it does in `CookieMapping`.
* After a repeated `fclose()` the heap may be damaged in ways that no model of this
  size covers; `LocalLogFile` has the effects on the files and the end of the
  process. A log counts as written once `fwrite()` returns, although stdio buffers it.
* `getLogger()` reads its map without a lock; all loggers are inserted at
  start-up, before there are threads, so `LogPusher` starts with all of them.
* `Delivery`: `doLog()` also reports to traffic control what it logs. A malformed
  url throws and is answered with an error, without a log. A text deal id is lost
  in a cyphered url, because the table declares it an integer; deal ids of the
  model are numbers. Monitoring counters, the device lookup of type-14 traces and
  the request to the external log service are left out. The index key is the
  concatenation of user and advertiser id, a pair in the model. An increment of an
  expired frequency record makes it again with the time to live of the namespace.
  A show whose banner is unknown is logged with its price and status 500 and not
  counted. The decoders of most exchanges throw at a price they cannot decode;
  `parseObjectToLogItem()` then leaves cost and spend at 0 and the log has status
  500 (`abstract_query_task.cpp:339`), while the request goes on. This is not
  modelled: `ChargedOnce` is about prices that can be decoded. Kupai and LieBao
  also name a price in the click url, which books nothing there.
* `Collected` is about what `readFile()` can read. The tail of a file shorter than
  its buffer is never collected; a record whose next head is not in the buffer, or
  whose payload is empty, stops its file; a payload with a piece like a head is
  dropped. `check` advances the saved offsets, and a later `sync` starts there. A
  kill inside `finalize()` tears both state files, and every later execution
  fails until somebody removes them. `stop()` is never called, since `logProducer`
  is `NULL` throughout: what librdkafka still queues at exit is lost. Not in the
  model: the counts per file, `opendir` failing, state files larger than a stdio
  buffer, offsets beyond an `int`.
* `ScenarioKnown` is about those lines of the scenario file that end with a newline
  (`loadScenarioData()` drops a last one without it; `res/scenario.txt` has none
  such), are networks (2^k addresses from a multiple of 2^k on) and have no other line filed under one of
  their addresses. Of the 127337 lines of `res/scenario.txt` 7464 are not networks
  and about 2100 overlap another. `loadScenarioData()` files a line under the bits
  its first and last address share; for a range that is no network, or one with a
  line filed inside it, `getScenario()` may answer with another line or with
  `SOLUTION_SCENARIO_OTHER`. That is how the model behaves, too, and nothing is
  claimed of these lines. What `ResourcesAssumption` asks of the other files holds
  of those in `res/`: codes of `city_area_code.txt` are unique and a country and a
  province precede their parts, the ranges of `17monipdb.dat` are sorted and reach
  the last address, and the native sizes of `initStatic()` are unambiguous. A
  database may have ambiguous ones; `SizesReturn` exempts them.
* The scenario cache is never refreshed; a text file that cannot
  be read makes an empty one; and a worker killed while it writes leaves a cache
  that ends every later worker, which `WorkersServe` exempts. A malformed address
  leaves the buffer of the area's name uninitialised: `Found` is then any name,
  and `AreaKnown` is stated for well-formed ones. The type table is loaded like the
  sizes and not modelled on its own.
* Data: sizes, creatives, templates, avro encodings and cyphers are abstracted
  away; prices are small numbers.

## Not modelled

Most lines of the repository are outside the model, and stay so: of about 399000
lines 165000 are nginx and its libraries, which are not code of this project, and
197000 are protobuf code that a generator wrote for the exchanges' messages; of
the rest many are headers of librdkafka and other libraries. None of them has
behaviour of its own to state properties of; nginx appears as the workers and the
master, the messages as the fields the handlers read and write. Of the ad server's
own code these are left out:

* byte-level encodings, digests, price decryption and compression in
  `service/utility`: their state space is all byte strings, which neither TLC nor
  the provers handle;
* html, VAST and json templates, and the copying of fields between messages: pure
  formatting;
* `pushRequestCounter()` of the ad-selection client, which serialises a container
  while another thread changes it: what it reads depends on the container's
  layout;
* `dispatchRequest()` and the copying of request bodies in `main.cpp`, the tool
  requests, and the configuration, which have no state;
* one-shot tools other than the collector, process logging, and `libutil`, which
  the server does not call;
* `LogPusher` and `ThreadPool` in one specification: their interface is one call,
  and `RunReturns` is what the pusher needs of it.
