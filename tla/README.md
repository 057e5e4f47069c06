# mcweather in TLA+

This directory holds a model of **mcweather**: the daemon `mcweatherd`, which
fetches weather data from the National Weather Service, keeps it in cache files
and serves it over an encrypted TCP protocol, and its clients. The modules are
translated from the C++ sources; file and line of every definition are in
`PROJECT.json` ("map").

    tlc -workers 2 -config CacheFile.cfg MCCacheFile            # a run
    tlapm CacheFileProofs.tla                                   # the proofs

## 1. The system

| part | state it keeps | operations | talks to |
|---|---|---|---|
| `main()` (mcweatherd.cc) | `g_gotSigTerm`, `g_pidFile`, `g_serverContext`, the disposition of SIGTERM | start, serve, poll for SIGTERM, stop | starts the fetcher, runs the server's handlers, removes the PID file |
| `WeatherFetcher` | `_run`, its thread, its own `Cache` | Start, Stop, five `Update...`, `Run` | weather service over HTTPS, cache files (writer), main (condition variable, join) |
| `Cache` | five in-memory values, five files, five static mutexes | constructor (load all), `Set...`/`Save...`, `Get...`, `AgeOf...` | file system; one long-lived object in the fetcher, one short-lived object per request |
| `Server` | acceptors, `_responders` | accept handler (clean-up, admission, construction, re-arm), Stop, destruction | runs on the main thread inside `io_context::run()` |
| `Responder` | `_peer`, `_thread`, `_running` | constructor (key exchange, thread), Run, Join, destructor | cache files (reader), client |
| clients (`mcweather`, `mcweathercgi`) | one connection | connect, authenticate, requests, `e_buhBye` | a Responder |
| `Config` and its parser | the parsed configuration, static parser state | Parse | read by all of the above |
| data records (`CurrentConditions`, `PeriodForecast(s)`, `PointInfo`) | fetched values | JSON and stream conversions, unit conversions | - |
| `Utils` | none | fetch and extract JSON | weather service |

How the parts interact: the fetcher thread and the responder threads share
*nothing but the files* (every request builds a new `Cache`, whose constructor
loads them), so the file is the channel and its mutex protects little of it.
The main thread runs all accept handlers one at a time; responder threads touch
only their own `_running`, which the main thread reads in `Join()`. The stop
goes main -> acceptors -> fetcher (`_run`, notification, join) -> PID file ->
destructors.

What is hard here: a load that overlaps a save; a save that fails half way or
is cut off by a crash, with the file's time already new; the condition
variable without a predicate; the responder whose session is over before its
constructor is; destruction with sessions open; signals at any moment; answers
that carry no name. The hazards are listed with their lines, and the properties
that would catch them, in `PROJECT.json` ("hazards").

What makes each part correct:

* **Cache files**: a load yields one version or a part of one, never something
  older than what was whole before it began; a save that is reported is there.
* **WeatherFetcher**: after failures and crashes every file is good and fresh
  again within a bounded time; the readings served are those of the first two
  stations that answer, and not too old; Stop stops it.
* **main**: no SIGTERM is lost or kills an unprepared process; nothing the
  fetcher's thread uses is destroyed before it is joined; no stale PID file.
* **Server and Responder**: each session thread has an owner that joins it
  without waiting for a client; what is finished is reaped at the next accept;
  connections are accepted whatever other sessions do.
* **Session**: each request gets its own answer or none, and both ends end.
* **Config**: what a Parse accepts and yields is what the text says, also when
  an earlier Parse in the process failed; no half of a section is used.
* **Records**: a number that is printed is the one of the last answer, in the
  unit it is printed in; what was saved is read back as it was, or a first part
  of it.

## 2. The modules

| module | models | state and actions against the code |
|---|---|---|
| `CacheFile` | `SaveCacheFile`, `LoadCacheFile`, the `Set...`/`Get...` pair of one file, the `Cache` constructor of fetcher and request | `disk` is what reached the file, block by block as the stream spills its buffer (`SpillBlock`) and as its destructor flushes the rest (`CloseFlushes`, `CloseFails`, after the mutex is released); `mem` is the fetcher's member, `buf[r]` the member of the request's own object |
| `WeatherFetcher` | `Run`'s cycle over the four files with an age limit, `UpdatePointInfo` ... `UpdateObservationStations`, the wait, crash and restart | time in ticks; `age` is `AgeOf...` (seconds since the modification time), `content` what a load of the file yields, `pointKnown` whether `GetPointInfo` has anything to give |
| `Conditions` | `UpdateCurrentConditions`, `SetConditions`, `ClearOldConditions`, `SaveCurrentConditions`, `GetCurrentConditions`, and a clock that is set back (`ClockSetBack`) | `names` is `stationNames`, `pos` its iterator, `taken` the two loops' breaks, `mem` the map, a reading being its age by the wall clock, below zero after the clock was set back; `file` what the next request loads |
| `Mcweatherd` | `main()`, its two SIGTERM handlers, the PID file, `WeatherFetcher::Start`, `Stop` and the wait in `Run` | `main` and `fetcher` are the places in the two threads; the critical sections under `_runmtx` are one step each |
| `Server` | `AcceptLoop`'s handler with `CleanupResponders`, `ClientAllowed`, the `Responder` constructor, `Join`, the end of `Run`, `Server::Stop`, the destructors | `io` is the place in the handler, which the one thread in `io_context::run()` executes; an exception out of it ends the process (`RemoteEndpointThrows`, `SpawnThrows`); `thread[c]` and `running[c]` are the `std::thread` and `_running` of a connection's responder |
| `Session` | `Responder::Run` with `HandleRequest` and the five `Send...`, the session part of `mcweather` and `mcweathercgi` | `plan` is the list of requests `main()` makes, `cur` the one whose `Receive` it is in, `toServer`/`toClient` the connection |
| `RequestReply` | what a client may rely on; `Session` implements it | `pending` is `Session`'s `cur`, `log` its `got` |
| `CacheRegister` | what a request may rely on of a file that is saved under it; `CacheFile` implements it | `quiet` is that the file is whole, `loading` and `answer` what the requests load and were given |
| `Config` | `Config::Parse` with the grammar's actions and the scanner, `Clear`, `operator<<` | `buf`, `odd` are the scanner's buffer and start condition, which outlive a Parse; `src` the rest of the file; `val` the semantic value of the open section, `cfg` the `Config` |
| `Json` | `nlohmann::json` as the records use it: is it there, of which type | values, no state |
| `Observation` | `CurrentConditions`: `FromJson`, the unit conversions, the order of `Write` and `Read`, a row of either client | pure operators; an int wraps at `IntMax` |
| `Forecast` | `PeriodForecast(s)`: the constructor, `ParseTimeString` with two libraries' `strptime`, the lines of both clients | pure operators; time in hours |
| `PointInfo` | `FromJson`, `Clear`, `Read` | pure operators |
| `Records` | the way of an answer: parse, keep, save, tear, restart, load, print | `scratch` is the object that `UpdateCurrentConditions` parses into for every station, `kept` what the fetcher has, `file` the members in the order of `Write` |
| `MC...` | the small instances | sets of readers, connections, stations, plans, files, answers |
| `CacheFileProofs`, `ServerProofs`, `SessionProofs`, `McweatherdProofs`, `ConditionsProofs`, `WeatherFetcherProofs`, `ConfigProofs`, `RecordsProofs` | the theorems | |

`CacheFile` says what a save or a crash can do to a file; `WeatherFetcher` and
`Conditions` take over exactly these outcomes (stored, not opened, torn and
noticed, torn and unnoticed) as one step, which is justified because there is
one writer and both look at the file through loads of their own. `Mcweatherd`
takes "the fetcher updates" and "the server serves" as places only; `Server`
takes a session as something that lasts; `Session` says what goes on inside.
`Records` follows one kind of answer at a time through the same file and asks
what the values are, which the others leave open.

Definitions named `X_Something` next to an `X` are faulty variants: each
property has one that it detects.

## 3. The runs

| run | question | instance |
|---|---|---|
| `cache_file` | what can a request read, what does a reported save mean, is every request answered? The file is a `CacheRegister` | 2 readers, 3 blocks, 3 versions, 1 crash; 381 094 states |
| `cache_file_complete` | does a request that overlaps a save get a whole object? **No** | 2 readers, 2 blocks |
| `fetcher` | are all files good and fresh again after the last failure? | 2 failures, torn saves or crashes; limits 2 and 5 ticks, period 2, 1 tick of delay |
| `conditions` | which stations are asked, is what is reported saved, how old can a reading be? | 3 stations: configured, both, nearby; 2 faults, of which the clock may be set back by 1 tick; 778 564 states |
| `mcweatherd` | SIGTERM at any moment; PID file; order of the stop; does a stop that was asked for go on? | complete, 183 states |
| `mcweatherd_stop` | does `Stop()` return? **Not always** | the same |
| `server` | owners of threads, joins, clean-up; is an acceptor ever forgotten? | 3 connections, 2 addresses |
| `server_join` | does `Join()` join what is done? **Not always** | 2 connections, 1 address |
| `server_stop` | does the process stop in an orderly way with a session open? **No** | 2 connections, 1 address |
| `session` | does the session keep `RequestReply`, do both ends end, does nobody wait for the other for ever? | all 32 plans of `mcweather`, the one of `mcweathercgi`, one with an unknown command |
| `config` | what does a Parse accept and yield, also after one that failed; does it return; is a written configuration read back? | every order of 4 Parses of 73 files: each kind of section, two sections after each other, repeated, empty, wrong, cut off; 24 743 states |
| `records` | is what is printed what was observed; is what is saved read back? | answers of each kind, whole and with parts missing, of another type or in another unit; 2 fetches, a file torn at every value, restarts |

**Bounds, and why they are enough.** `CacheFile`: three blocks give a
beginning, a middle and an end to tear; three versions let a load meet the
saves of two newer ones (reading the first block of one and the second of
another needs no more); readers do not interact, so two show every
interference. A crash twice over does what one does, since a restart reads the
file and nothing else. `WeatherFetcher`: the limits keep the order of the
code's (period <= forecast limit < week limit) and the equality of period and
forecast limit (900 s both), which is the boundary case; two faults are a
failure and a crash in its wake. `Conditions`: three stations are one more than
the two that are taken, so that the second loop has something left to skip, and
a configured station that is also nearby; `KeepLimit` is above the period, as
3600 s is above 900 s. The clock is set back by a tick, which puts the age of a
new reading below zero and that of an old one back under a limit it had passed;
`DelayAssumption` says that one cycle's requests do not take an hour, the limit
of `ClearOldConditions`, without which a cycle could drop its own first reading.
`Config`: from one Parse to the next only the scanner's state is kept, so four
are enough for one that fails, one that begins with what it left or out of step
with the quotes, one that comes into step again and one after that. `Records`: two fetches are the object that
is used again; `IntMax` is 4 194 303 (an int of 23 bits), wide enough for ten
times a pressure in Pa (`IsModest`, which leaves out the numbers near the ends
of an int and those that a float rounds) and small enough for TLC's own integers, so
that the product of a missing dewpoint wraps in the model as 9 * `INT_MAX` does
in the code; the
client's zone is 5 hours behind UTC, 4 in a summer that ends at hour 200, and
one list of periods has its two on either side of that; a terminal of 24 columns
breaks the text of eight words, one of them wider than a line; 77 is what an
uninitialized int holds. `Server`: three connections are one finished, one
running, one in the handler; two addresses show that one acceptor's handler
keeps the other waiting. `Mcweatherd` and `Session` have no bound except the
number of the requests that exist. The bounds are constants in the
guards: `MaxVersion`, `MaxCrashes`, `MaxFaults`, `MaxDelay`, `MaxBack`,
`MaxParses`, `MaxFetches`, `MaxPeriods`; ages and `calm` saturate at `OldAge`
and `CalmBound`, beyond which no property distinguishes them (`OldAge` is above
every limit also after the clock was set back).

**Fairness.** `CacheFile`: a save and a load that have begun go on
(straight-line code of a running thread); no fetch, request or crash is
promised. `Mcweatherd`: both threads go on when they can, and the clock reaches
the deadline of `wait_for`; neither a signal nor a spurious wake-up is
promised. `Server`: the handler goes on (the key exchange has its time-outs of
two seconds), a thread whose session is over ends, and the context dispatches
the acceptors in turn, an acceptor's connections each in its turn (strong fairness:
another acceptor's handler may take the thread in between); no session is
promised to end. `Session`: both ends go on when they can; a `Receive` fails
once the other end is closed or the connection reported broken. A peer that
vanishes without a trace is outside this model: nothing in the code bounds that
wait (`PROJECT.json`, hazards).

`Config`: `yyparse` goes on, a straight loop over tokens; no Parse is promised.
`Records` promises nothing in time.

`WeatherFetcher` and `Conditions` need no fairness: their promises are bounded
by ticks, and a tick cannot pass an update that is due (`Tick` is limited by
`MaxDelay` outside the wait).

## 4. What the runs found

1. **A request may be answered with part of the data** (`cache_file_complete`).
   The file is truncated at the `ofstream`'s construction, before the mutex is
   taken, the last buffer is flushed after it is released, and the load takes
   no mutex. A temporary file and `rename()` would mend it.
2. **Stop() may wait for ever** (`mcweatherd_stop`). `wait_for` has no
   predicate, and `_run` is looked at only when it did not time out:
   a notification sent during an update is lost. `StopsUnlessMissed` shows that
   nothing else holds the stop up.
3. **A responder may never be joined** (`server_join`): `_running` becomes true
   after the thread has started, perhaps after it has ended.
4. **Stopping with a session open aborts** (`server_stop`): `~Responder` ignores
   that `Join()` did not join.

Met on the way, and stated in the models as what the code does:

* `AcceptLoop`'s handler returns without arming the acceptor again after an
  accept error: that address is served no more (`ArmedAcceptorServes` says
  *armed*).
* The configured stations do not replace the nearby ones; they are only asked
  first (`FirstTwoAnswers`).
* A `service` section without `keyDirectory` loses the default that `Clear()`
  set, since it starts from a new `ServiceConfig`. `RunService` is set by a
  section and read nowhere. A missing location is not an error, although
  `WeatherConfig.hh:54` calls latitude and longitude required: the weather of 0, 0 is
  fetched.
* After a Parse that failed, the scanner still has the rest of that file, or is
  inside a string: the next Parse in the process begins with it
  (`ParseIsExact` is about both texts). `mcweatherd` parses once.
* A missing dewpoint, humidity or pressure is printed as a number
  (`ShownIsObserved` leaves them out, `MissingDewpointIsHot`); a temperature in a unit that
  `CelsiusToFahrenheit` does not know is printed as it is, as Fahrenheit.
* A reading's time is that of its fetch, not that of the observation.
* **With glibc the code does not keep what its own test asserts of hourly
  periods.** `ParseTimeString` never sets `tm_isdst` (PeriodForecast.cc:62), and
  glibc's `strptime` leaves it, and drops the zone of the text. `PeriodsShown`
  says what is left: with BSD's `strptime` the hour that is printed is that of
  the instant, in the client's zone, and the times rise as the answer's, hourly
  ones too (`InstantsShown`). With glibc's the hour is that of the place's clock
  or the one next to it, and only times that are two hours apart are sure to
  rise (`ClocksShown`): enough for the daily periods, not for the hourly ones.
  TestPeriodForecast.cc:101-103 asserts for these
  `periodForecast.StartTime() < periodForecast.EndTime()` and
  `periodForecast.StartTime() > stp`, and line 105 the like of the end.
  `HoursMayCoincide` proves that any hourly answer can be parsed, with what may
  be on the stack, into a period that ends when it begins and a next one that
  begins with it, wherever there is a summer time. The test passes when the
  stack holds the same in every call.

Two properties have exceptions that the code makes necessary and that are
stated in them: `TrueMeansSaved` leaves out a flush that fails in the
destructor, unseen, and a last reading that equals the one in memory;
`NoStalePidFile` leaves out an exception from the server's constructor or out
of `run()` (`RunThrows`). And a
point file torn by a crash is *current* by its time for seven days
(`UpdatePointInfo`), in which nothing else is updated when the restarted
process could not load it; that is the whole of `HealBound` in `FreshWhenCalm`.

## 5. The proofs

`tlapm` checks all of them, for every value of the constants.

**CacheFileProofs**, from `BlocksAssumption` (a version has at least one block)
and `BoundsAssumption` (the bounds are naturals). The invariant `IInv` is
`TypeOK`, `WriterInv` (while a save is open, the file holds a proper prefix of the
version being written), `FileInv` (the file holds blocks of one version,
between the newest that was whole and the newest there is), `SavedIsWhole`, and
`ReaderInv` for each reader: the blocks it has are in order, not older than what
was whole at its beginning, and *not newer than any block now in the file*. This
last part is what the property itself does not say and its proof needs: the next block
a reader gets is at least as new as those it has, because a version only
replaces an older one. Theorems: `TypeCorrect`, `FileHoldsOneVersion`,
`LoadsNeverStepBack`, `IntactLoadsAreExact`, `SavesAreWhole`.

**ServerProofs**, from `NoneAssumption`. `IInv` is `TypeOK`, `OwnerInv` (a thread
has its responder, a running session says so), `HandlerInv` (the connection in
the handler's hands is nobody else's), `QueueInv` (a connection waits in one
place) and `ReapInv` (what is to be reaped has still to be visited, and a
finished responder stays finished). The last is needed because `Join()` reads
`_running` of a thread that runs: only the direction to *false* can
happen behind the main thread's back once the constructor is over. Theorems:
`TypeCorrect`, `ThreadsHaveOwners`, `JoinsDoNotWait`, `CleanupsReap`.

**SessionProofs**, from `NamesAssumption` (commands have distinct names).
`IInv` says where the one unanswered request is while the server is
there (under way, being handled, or answered: `Lockstep`), and that after a
request without an answer the server is gone for this client and nothing is
left to receive (`NoAnswerAfter`). Without the second a late answer could be
taken for the next request's. Theorems: `TypeCorrect` and
`ImplementsRequestReply`: initial states map to initial states, and each step
to a step of `RequestReply` or a stutter.

**CacheFileProofs** also proves `ImplementsRegister`, the refinement that
`cache_file` checks (`KeepsRegister`): every step of the writer is `Fetch`,
`BeginSave`, `EndSave`, `Crash` or invisible (spilling a block is; so is a flush
that does not make the file whole), and a load ends with one of the `Answers`:
the whole value if the file was quiet from its beginning, else, by `ReaderInv`,
blocks in order between the value settled then and the newest.

**McweatherdProofs**, without assumptions. `HandlerInv` (which handler is in
place at each point of `main`), `PidFileInv` (the PID file is there only while
SIGTERM is caught) and `KilledInv` (the fetcher's thread is gone with a process
that was killed). Theorems:
`TypeCorrect`, `PidFileGoes`, `JoinComesFirst`, `SigTermsAreCaught`.

**ConditionsProofs**, from `StationsAssumption`, `LimitsAssumption` and
`DelayAssumption`. The invariant is in layers: `BaseInv` is `TypeOK`,
`AgesFollowClock` (no reading is from further ahead than the clock was set back
by) and `NobodyAsked` (before a cycle); on it `TakenInv` and `HaveReadings` (the stations that were
taken have a reading of this cycle, which `ClearOldConditions` cannot drop,
hence `DelayAssumption`) give `FirstTwoAreTaken`; `SavedInTime`,
`SavedOnceFetched` and `SilenceIsFault`, which bound the age of the last save,
give `RecentAgain`. Theorems besides: `TypeCorrect`, `TrueIsSaved`.

**WeatherFetcherProofs**, from `LimitsAssumption`. `FreshAgain` rests on
`NotGoodIsOld` (a file that is not good is at least as old as the last
failure), `GoodPointIsKnown` (a good point file is in memory, too) and
`GoodSinceUpdate`: each file was good and within its limit at its last place in a
cycle, `Since(f)` ago, or that was less than the week limit after a failure, in
which a torn point file is taken for current. Theorems besides:
`TypeCorrect`.

**ConfigProofs**, from `TextsAssumption` (the defaults are texts) and
`FilesAssumption` (a file is a sequence of items). `RestInv` says that what the
scanner and the file still hold is the rest of the text, `SectionInv` that the
open section's value is what the settings since its beginning say, and
`ConfigInv` that the Config has sections that were closed, or cleared ones. The
first ties the parser's value to positions in the text, in which
the properties are stated.

On these rests `ExactInv`, about a Parse that runs: each item that was taken is one
the grammar has a place for (`GrammarInv`), a setting that only one kind of section
has is the last one given so far (`SettingsInv`), service and weather are
the last that were closed (`PastInv`, which has to say where the open section
began), and the start condition is the one it began with (`OddInv`). At the end
of the file this is `Accepts` and `Meaning`; and an item that no rule takes is
not fine at its place, whatever comes after it. So `ParsesExactly` goes both
ways: nothing else is accepted, and nothing of the language is rejected.

`WrittenMeansTheSame` needs of a run only `GoodInv`: a value that is refused
(`Refused`), by an action or as an empty string, never gets into the Config, an
empty key directory is one that was not set and is not written, and after a Parse that succeeded the
service has addresses, so that its section is never written empty, which the
grammar would reject. The rest is about `Dump`: which item stands where
(`IsDump`, with one, two or three settings in the service section), that each
is fine there (`DumpAccepted`), and that each key's only setting gives its value
back (`DumpMeans`). Theorems: `TypeCorrect`, `SectionsAreWhole`,
`ParsesExactly`, `WrittenMeansTheSame`.

**RecordsProofs**, from `IntMaxAssumption`, `ZoneAssumption`,
`ColumnsAssumption`, `BoundsAssumption` (the bounds are naturals) and
`AnswersAssumption`, which says what the nodes of the model's JSON stand for: a
number is an integer, an array a sequence, a time an instant and an offset.
About the operators alone: `FahrenheitIsClose` and `MphIsClose` bound the error
of the conversions, which round what was cut off before; the first for numbers
whose ninefold fits into an int and into the bits of a float (`FloatExact`:
932 067 degrees either way), where the code's float and the model's integers
have the same result. `MissingDewpointIsHot` says what a missing dewpoint
becomes, for every width of an int; that number is far beyond those bits, so it
is about every result as near to the model's as three roundings to 24 bits leave it.
`NothingIsLeftOver` that an answer that is kept yields the same object whatever
was parsed into it before.

The invariant is `RecordsInv`: the file is what `Encoded` makes of the objects
that were kept last, or its beginning up to any value (`IsFile`); those objects have
every member and are what the last answer that was kept gives (`Objects`,
`History`); and the fetcher has them, or what the file held when it started. To
use it one needs that what is read from the beginning of an encoding is the
beginning of the list (`FileIsRead`), and that what an answer gives depends on it
alone (`NothingIsLeftOver`). `PeriodsAreShown` follows by the arithmetic of the
two `strptime`s, in every zone; `HoursMayCoincide` names the stack with which the
hours of `ClocksShown` do coincide, so that it could not say more. `ForecastsFit` has an invariant of the loop in
`FormattedPeriodForecast`: the words so far are those of the lines so far, and
the last line is as wide as was counted. Theorems besides the four:
`TypeCorrect`, `FileReadsBack`, `PointsAreWhole`, `WhatIsShownWasObserved`,
`PeriodsAreShown`, `HoursMayCoincide`, `ForecastsFit`.

Some of this is induction over data: a file of any length, a forecast of any
number of words. The library's induction rules have an operator as their
parameter, which the provers cannot instantiate. Here the claim is made of the
*set* of lengths it holds for, outside of which there is no least one
(`LeastNat`, `Induction`, from the well-foundedness of the naturals). That a
recursive function has the values of its equation is shown likewise, with
functions that have them up to a length (`FlattensExists`, `CollectsExists`,
`WidthsExist`, `PutsExist`).

**What liveness rests on.** A liveness property needs fairness, and its proof
ENABLED, which the prover does not have. Its two safety halves are theorems: that
the process which must move is never left without a step, or waits for one that can
come; and that each such step lowers a bound which nobody else raises.

| property | never stuck | finitely many steps |
|---|---|---|
| `ReplyArrives` | `NoRequestIsStuck`: a load has a next step, the mutex is held by a `Write` that has one | `RequestsAreFinite`: at most `Blocks + 2` steps, and `Blocks + 4` of a save |
| `ArmedAcceptorServes` | `AcceptLoopsGoOn`: an acceptor is armed, in the handler, or had an error; `HandlersDoNotWait`: the clean-up stands before no thread | `HandlersAreFinite` |
| `StopsUnlessMissed` | `StopGoesOn`: after a SIGTERM `main()` waits for nothing but a thread that was woken and finds `_run` false | `MainIsFinite`: thirteen steps of `main()` |
| `SessionEnds`, the fairness of `KeepsContract` | `NobodyWaitsForEver`: the two ends are never both in `Receive` with nothing under way | `SessionsAreFinite`: 7 + 5n steps for n requests |
| `ParseReturns` | (the rules and `Error` leave no item out) | `ParsesAreFinite` |

Three of these are invariants of runs, too (`LoopsGoOn`, `StopIsUnderWay`,
`NeverStuck`). Their invariants: `LoopInv` (the acceptor of a handler that fails had
an error); `OverInv` (a session that is over and not yet reaped says that it
runs, which the constructor's late `store(true)` does not spoil once the responder is in
`_responders`); `StopInv` (up to `Stop()` the fetcher's thread runs, and in `join()` it was
woken or is done, unless `missed`); for the session it is `Lockstep` again, which
says where the request is that the client waits for.

With these every invariant and every action property that a run checks is a
theorem. Left to TLC are the liveness properties themselves, `ReplyArrives`,
`ArmedAcceptorServes`, `StopsUnlessMissed`, `SessionEnds`,
`ParseReturns` and the fairness part of `KeepsContract` (the rest of it is
`ImplementsRequestReply`): that a fair process which is never stuck takes its
steps, and that the strong fairness of `Accept` brings each connection its turn.

## 6. What is not modelled

* Layout: HTML, the order and width of a table's columns and rows, wording, and
  the radar's URL (`GetNWSRadarURL`), a function of the configuration to a text.
* The tokens inside a setting and the texts of addresses in `Config`: a value
  is one item, which the parser's action takes or rejects; an empty string, for
  which the scanner has no token, is an error (`Refused`). `TCPAddress` is used
  nowhere. A file fits into the scanner's buffer.
* The key exchange, encryption and host names: libraries; only their success or
  failure, and their time-outs, appear. `SigTermHandler` calls
  `io_context::stop()`, which is not safe in a signal handler; `Mcweatherd` takes it for
  one step.
* How long a fetch takes: whether `WebUtils::GetJson` gives up is not in this
  repository, so the models take each fetch to end (`MaxDelay`), with or without an
  answer. `WeatherFetcher::GetHourlyForecasts`
  is called by nobody.
* Numbers that a float rounds or that do not fit into an int: beyond
  `FloatExact` the model's Fahrenheit is exact where the code's is rounded, and
  the conversion of a speed in mph that does not fit is undefined in C++ and a
  number beyond `IntMax` in the model. No property asks for them (`IsModest`).
* The moment between a responder's `_running.store(false)` and the return of
  its thread, in which a `Join()` would wait for that return: `EndThread` is one
  step, and the wait is short and ends by itself. Whether `std::remove` of the
  PID file succeeds, which `RemovePID` does not look at.
* A network that loses a peer without a report: nothing in the code bounds that.
* Version, build and packaging files: no behaviour. The tests, which were read.

## 7. Plan

1. `Daemon`: `Mcweatherd` composed with `Server` and the sessions' reads of
   `CacheFile`, for a stop with everything running.
2. As a theorem what section 2 argues: that the outcomes of a save in
   `WeatherFetcher` and `Conditions` are those of `CacheFile`.
3. Shorter proofs: those of `Config` and `Records` are the longest.
