--------------------------- MODULE WeatherService ---------------------------
(***************************************************************************)
(* The weather page's service and its providers (src/weather).  The        *)
(* service lives on the GUI thread; what interleaves are the replies of    *)
(* the HTTP requests, which may come in any order, its three timers, the   *)
(* user's refresh and restarts with another configuration.                 *)
(*                                                                         *)
(* The members of WeatherService are the fields of one record, and its     *)
(* methods are operators from one such record to the next, so that a       *)
(* method that calls another is written as the code is.  operation_ is     *)
(* left out: it follows from inFlight and resolved.  A timer is modelled   *)
(* as armed or not: it may fire late, and a coarse timer fires early.      *)
(* What the provider measured is one of a given set of forecasts.          *)
(***************************************************************************)
EXTENDS Integers, SequencesExt

CONSTANTS
  Locations,        \* records [key, place], key standing for cacheKey()
  Origin,           \* cacheKey() of a Location{}
  Configs,          \* configurations the dashboard may be started with
  Forecasts,        \* what One Call may report
  Airs,             \* air-quality indexes (1..5)
  RefreshInterval,  \* refreshIntervalSeconds (60..86400)
  RetryAfters,      \* Retry-After values of error replies, 0 if there is none
  TimerLimit,       \* most seconds whose milliseconds fit an int (2147483)
  CacheStale,       \* kCacheStaleSeconds (1200)
  ShownHours,       \* rows of the hourly model (8)
  ShownDays,        \* rows of the daily model and of the cache (5)
  HourLength,       \* ticks of the clock in an hour
  DayHours,         \* hours in a day
  MaxNow,           \* bound on the clock
  MaxRequests       \* bound on the outstanding requests of a kind

None == -1  \* no date, no armed timer
Times == 0..MaxNow

NoPlace == [name |-> "", country |-> ""]
NoAir == [index |-> 0, key |-> Origin]
NoLocation == [key |-> Origin, place |-> NoPlace]
NoForecast == [hours |-> <<>>, days |-> <<>>, offset |-> 0, night |-> FALSE]

ASSUME WeatherAssumption ==
  /\ Locations \subseteq [key: {l.key : l \in Locations}, place: {l.place : l \in Locations}]
  /\ \A c \in Configs :
       /\ c.mode \in {"Unconfigured", "Coordinates", "City", "Automatic"}
       /\ c.credential \in BOOLEAN
       /\ c.mode = "Coordinates" => c.location \in Locations
       /\ c.mode = "City" => c.place.name # ""
  /\ Forecasts \subseteq [hours: Seq([time: Nat \cup {None}, chance: 0..100]),
                          days: Seq([sunrise: Nat \cup {None}, sunset: Nat \cup {None}]),
                          offset: Nat, night: BOOLEAN]

ASSUME NumbersAssumption ==
  /\ Airs \subseteq Nat \ {0}
  /\ RefreshInterval \in Nat \ {0}
  /\ RetryAfters \subseteq Int
  /\ TimerLimit \in Nat
  /\ RefreshInterval <= TimerLimit
  /\ CacheStale \in Nat
  /\ ShownHours \in Nat
  /\ ShownDays \in Nat
  /\ HourLength \in Nat \ {0}
  /\ DayHours \in Nat \ {0}
  /\ MaxNow \in Nat
  /\ MaxRequests \in Nat \ {0}

VARIABLES
  config,   \* config_ and whether its credentials are there
  service,  \* the other members
  cache,    \* weather.json
  now       \* the clock

weatherVars == <<config, service, cache, now>>
-----------------------------------------------------------------------------
(* What is derived from a forecast and the clock *)

\* Faulty: an event that is just happening is still to come.
UpcomingNow(f) ==
  {e \in {[time |-> f.days[i].sunrise, kind |-> "sunrise"] : i \in DOMAIN f.days} \cup
         {[time |-> f.days[i].sunset, kind |-> "sunset"] : i \in DOMAIN f.days} :
     e.time # None /\ e.time >= now}

Upcoming(f) ==
  {e \in {[time |-> f.days[i].sunrise, kind |-> "sunrise"] : i \in DOMAIN f.days} \cup
         {[time |-> f.days[i].sunset, kind |-> "sunset"] : i \in DOMAIN f.days} :
     e.time # None /\ e.time > now}

\* updateNextSolarEvent(): the timer is armed exactly when there is an event.
NextSolarEvent(f) ==
  IF Upcoming(f) = {}
  THEN [time |-> None, kind |-> IF f.night THEN "sunrise" ELSE "sunset"]
  ELSE CHOOSE e \in Upcoming(f) : \A d \in Upcoming(f) : e.time <= d.time

LocalHour(time, offset) == ((time + offset) \div HourLength) % DayHours
LocalDate(time, offset) == (time + offset) \div (HourLength * DayHours)

\* The hourly rows from the current local hour to the end of the local day.
RemainingToday(f) ==
  {k \in DOMAIN f.hours :
     /\ f.hours[k].time # None
     /\ LocalDate(f.hours[k].time, f.offset) = LocalDate(now, f.offset)
     /\ LocalHour(f.hours[k].time, f.offset) >= LocalHour(now, f.offset)}

\* updateTodayPrecipitationProbability()
RemainingChance(f) == Max({0} \cup {f.hours[k].chance : k \in RemainingToday(f)})

FirstOf(seq, n) == IF Len(seq) <= n THEN seq ELSE SubSeq(seq, 1, n)

\* What the two list models show.
Rows(f) ==
  [hours |-> FirstOf(f.hours, ShownHours), days |-> FirstOf(f.days, ShownDays), offset |-> f.offset]
-----------------------------------------------------------------------------
(* State *)

NoSnapshot ==
  [location |-> NoLocation, fetched |-> None, forecast |-> NoForecast, air |-> NoAir, chance |-> 0]

Valid(snapshot) == snapshot.fetched # None

Requests ==
  {[kind |-> "location", location |-> NoLocation]} \cup
  [kind: {"forecast", "air"}, location: Locations]

\* A service that has done nothing yet.
Blank ==
  [location |-> NoLocation, resolved |-> FALSE, snapshot |-> NoSnapshot, rows |-> Rows(NoForecast),
   solar |-> [time |-> None, kind |-> ""], hourTimer |-> FALSE,
   state |-> "unconfigured", stale |-> FALSE, diagnostics |-> "none",
   inFlight |-> FALSE, authenticationStopped |-> FALSE, failureCount |-> 0,
   refreshTimer |-> None, requests |-> [r \in Requests |-> 0]]

WithSolarEvent(s) == [s EXCEPT !.solar = NextSolarEvent(s.snapshot.forecast)]

WithChance(s) == [s EXCEPT !.snapshot.chance = RemainingChance(s.snapshot.forecast)]

\* scheduleLocalHourBoundary()
WithHourTimer(s) == [s EXCEPT !.hourTimer = Valid(s.snapshot)]

Adopt(s, snapshot) ==
  WithSolarEvent([WithHourTimer(WithChance([s EXCEPT !.snapshot = snapshot]))
                    EXCEPT !.rows = Rows(snapshot.forecast)])
-----------------------------------------------------------------------------
(* Operations *)

MainRequest(s) ==
  IF s.resolved THEN [kind |-> "forecast", location |-> s.location]
                ELSE [kind |-> "location", location |-> NoLocation]

\* The requests an operation sends: the forecast is asked for with the air quality.
Sent(s) ==
  {MainRequest(s)} \cup
  (IF s.resolved THEN {[kind |-> "air", location |-> s.location]} ELSE {})

Begin(s, manual) ==
  [s EXCEPT
    !.authenticationStopped = FALSE,
    !.refreshTimer = IF manual THEN None ELSE @,
    !.inFlight = TRUE,
    !.state = IF s.resolved THEN "loading" ELSE "locating",
    !.stale = @ \/ Valid(s.snapshot),
    !.diagnostics = "none",
    !.requests = [r \in Requests |-> IF r \in Sent(s) THEN @[r] + 1 ELSE @[r]]]

\* Faulty: a second operation may start while one is under way.
StartOperationAnyway(s, manual) ==
  IF ~ manual /\ s.authenticationStopped THEN s ELSE Begin(s, manual)

\* Faulty: data keeps looking current while it is being replaced.
StartOperationFresh(s, manual) ==
  IF s.inFlight \/ (~ manual /\ s.authenticationStopped)
  THEN s
  ELSE [Begin(s, manual) EXCEPT !.stale = s.stale]

StartOperation(s, manual) ==
  IF s.inFlight \/ (~ manual /\ s.authenticationStopped) THEN s ELSE Begin(s, manual)

\* Faulty: data of another location stays.
SetLocationKeep(s, location) ==
  StartOperation([s EXCEPT !.inFlight = FALSE, !.location = location, !.resolved = TRUE], FALSE)

SetLocation(s, location) ==
  LET located == [s EXCEPT !.inFlight = FALSE, !.location = location, !.resolved = TRUE]
      cleared == WithSolarEvent(
        [located EXCEPT !.snapshot = NoSnapshot, !.rows = Rows(NoForecast), !.stale = FALSE])
  IN StartOperation(
       IF Valid(s.snapshot) /\ s.snapshot.location.key # location.key THEN cleared ELSE located,
       FALSE)

\* publish() of a forecast for a location.
Publish(s, location, forecast) ==
  LET air == IF s.snapshot.location.key = location.key THEN s.snapshot.air ELSE NoAir
      published == Adopt(s, [location |-> location, fetched |-> now, forecast |-> forecast,
                             air |-> air, chance |-> 0])
  IN [published EXCEPT
       !.inFlight = FALSE, !.stale = FALSE, !.failureCount = 0, !.state = "ready",
       !.diagnostics = "none", !.refreshTimer = RefreshInterval]

Lesser(a, b) == IF a <= b THEN a ELSE b
Greater(a, b) == IF a >= b THEN a ELSE b

\* failureCount_ after one more failure; beyond 6 it makes no difference.
OneMore(failures) == Lesser(failures + 1, 6)

\* The delay in seconds before the retry that follows the given number of failures:
\* 30 * (1 << min(failureCount_ - 1, 5)), at most the refresh interval.
Backoff(failures) == Lesser(RefreshInterval, 30 * <<1, 2, 4, 8, 16, 32>>[failures])

\* What start(seconds * 1000) arms.  Beyond TimerLimit the product overflows an
\* int: a negative interval is refused, a positive one is too short.
Armed(seconds) == IF seconds <= TimerLimit THEN {seconds} ELSE {None, 0}

Failed(s, authenticationFailure) ==
  [s EXCEPT
    !.inFlight = FALSE, !.diagnostics = "failed", !.stale = Valid(s.snapshot),
    !.state = "error", !.authenticationStopped = authenticationFailure]

Retrying(s, seconds) ==
  {[s EXCEPT !.failureCount = OneMore(@), !.refreshTimer = timer] : timer \in Armed(seconds)}

\* Faulty: the retry timer is not started again.
FailForGood(s, authenticationFailure, retryAfter) == {Failed(s, authenticationFailure)}

\* Faulty: a failure clears the page.
FailBlank(s, authenticationFailure, retryAfter) ==
  LET failed == [Failed(s, authenticationFailure) EXCEPT !.snapshot = NoSnapshot]
  IN IF authenticationFailure
     THEN {failed}
     ELSE Retrying(failed, Greater(Backoff(OneMore(s.failureCount)), retryAfter))

\* fail(), by the outcomes it may have.
Fail(s, authenticationFailure, retryAfter) ==
  IF authenticationFailure
  THEN {Failed(s, authenticationFailure)}
  ELSE Retrying(Failed(s, authenticationFailure),
                Greater(Backoff(OneMore(s.failureCount)), retryAfter))
-----------------------------------------------------------------------------
(* The cache *)

Cached(snapshot) ==
  [kind |-> "saved", location |-> snapshot.location, fetched |-> snapshot.fetched,
   air |-> snapshot.air, forecast |-> [snapshot.forecast EXCEPT !.days = FirstOf(@, ShownDays)]]

\* A file that is not there and one that loadCache() rejects.
NoFile == [Cached(NoSnapshot) EXCEPT !.kind = "missing"]
Garbage == [Cached(NoSnapshot) EXCEPT !.kind = "garbage"]

\* saveCache(): QSaveFile writes the whole file or leaves the old one; nobody is told.
SaveCache(s) ==
  \/ Valid(s.snapshot) /\ cache' = Cached(s.snapshot)
  \/ UNCHANGED cache

Usable(c, file) ==
  /\ file.kind = "saved"
  /\ c.mode = "Coordinates" => file.location.key = c.location.key
  /\ c.mode = "City" => file.location.place.name = c.place.name

LoadCache(s, c, file) ==
  IF ~ Usable(c, file)
  THEN s
  ELSE [Adopt(s, [location |-> file.location, fetched |-> file.fetched,
                  forecast |-> file.forecast, air |-> file.air, chance |-> 0])
          EXCEPT !.stale = now - file.fetched > CacheStale, !.state = "ready"]

\* The constructor and initialize().
Initialized(c, file) ==
  LET loaded == LoadCache(Blank, c, file)
  IN CASE c.mode = "Unconfigured" -> Blank
       [] c.mode # "Unconfigured" /\ ~ c.credential ->
            [loaded EXCEPT !.state = "error", !.diagnostics = "credential"]
       [] c.mode = "Coordinates" /\ c.credential -> SetLocation(loaded, c.location)
       [] OTHER -> StartOperation(loaded, FALSE)
-----------------------------------------------------------------------------
(* Steps *)

WeatherInit ==
  /\ config \in Configs
  /\ cache = NoFile
  /\ now = 0
  /\ service = Initialized(config, NoFile)

Room == \A r \in Requests : service.requests[r] < MaxRequests

\* A request ends: with a reply, an error or the transfer timeout.
Ends(request) == service.requests[request] > 0
Answered(request) == [service EXCEPT !.requests[request] = @ - 1]

LocationRequest == [kind |-> "location", location |-> NoLocation]

LocationResolved(location) ==
  /\ Ends(LocationRequest)
  /\ service' = SetLocation(Answered(LocationRequest), location)
  /\ UNCHANGED <<config, cache, now>>

\* Both location providers report no Retry-After.
LocationFailed(authenticationFailure) ==
  /\ Ends(LocationRequest)
  /\ service' \in Fail(Answered(LocationRequest), authenticationFailure, 0)
  /\ UNCHANGED <<config, cache, now>>

ForecastReady(location, forecast) ==
  LET request == [kind |-> "forecast", location |-> location]
  IN /\ Ends(request)
     /\ service' = Publish(Answered(request), location, forecast)
     /\ SaveCache(service')
     /\ UNCHANGED <<config, now>>

ForecastFailed(location, authenticationFailure, retryAfter) ==
  LET request == [kind |-> "forecast", location |-> location]
  IN /\ Ends(request)
     /\ service' \in Fail(Answered(request), authenticationFailure, retryAfter)
     /\ UNCHANGED <<config, cache, now>>

\* The air quality is stored with whatever snapshot there is.
AirQualityReady(location, index) ==
  LET request == [kind |-> "air", location |-> location]
  IN /\ Ends(request)
     /\ service' = [Answered(request) EXCEPT
          !.snapshot.air = [index |-> index, key |-> location.key]]
     /\ SaveCache(service')
     /\ UNCHANGED <<config, now>>

AirQualityFailed(location) ==
  LET request == [kind |-> "air", location |-> location]
  IN /\ Ends(request)
     /\ service' = [Answered(request) EXCEPT !.diagnostics = "air quality failed"]
     /\ UNCHANGED <<config, cache, now>>

RefreshTimer ==
  /\ Room
  /\ service.refreshTimer # None
  /\ service' = StartOperation([service EXCEPT !.refreshTimer = None], FALSE)
  /\ UNCHANGED <<config, cache, now>>

SolarEventTimer ==
  /\ service.solar.time # None
  /\ service' = WithSolarEvent(service)
  /\ UNCHANGED <<config, cache, now>>

LocalHourTimer ==
  /\ service.hourTimer
  /\ service' = WithHourTimer(WithChance(service))
  /\ UNCHANGED <<config, cache, now>>

\* F5
Refresh ==
  /\ Room
  /\ config.mode # "Unconfigured"
  /\ service' = StartOperation(service, TRUE)
  /\ UNCHANGED <<config, cache, now>>

\* The dashboard ends at any point and starts again, perhaps with another configuration
\* and a file that something else has changed.
Restart ==
  /\ config' \in Configs
  /\ cache' \in {cache, Garbage}
  /\ service' = Initialized(config', cache')
  /\ UNCHANGED now

Clock ==
  /\ now < MaxNow
  /\ now' = now + 1
  /\ UNCHANGED <<config, service, cache>>

Failure ==
  \/ \E auth \in BOOLEAN : LocationFailed(auth)
  \/ \E location \in Locations, auth \in BOOLEAN, retryAfter \in RetryAfters :
       ForecastFailed(location, auth, retryAfter)

Reply ==
  \/ Failure
  \/ \E location \in Locations :
       \/ LocationResolved(location)
       \/ \E forecast \in Forecasts : ForecastReady(location, forecast)
       \/ \E index \in Airs : AirQualityReady(location, index)
       \/ AirQualityFailed(location)

WeatherNext ==
  \/ Reply
  \/ RefreshTimer
  \/ SolarEventTimer
  \/ LocalHourTimer
  \/ Refresh
  \/ Restart
  \/ Clock

WeatherSafety == WeatherInit /\ [][WeatherNext]_weatherVars

\* Every request ends within its transfer timeout, and armed timers fire.
WeatherSpec ==
  /\ WeatherSafety
  /\ WF_weatherVars(Reply)
  /\ WF_weatherVars(RefreshTimer)
  /\ WF_weatherVars(SolarEventTimer)
  /\ WF_weatherVars(LocalHourTimer)
-----------------------------------------------------------------------------
(* Properties *)

Air == [index: Airs, key: {l.key : l \in Locations}] \cup {NoAir}

\* Type invariant of the service's members.
WeatherTypeOK ==
  /\ config \in Configs
  /\ now \in Times
  /\ service.location \in Locations \cup {NoLocation}
  /\ service.snapshot.location \in Locations \cup {NoLocation}
  /\ service.snapshot.fetched \in Times \cup {None}
  /\ service.snapshot.air \in Air
  /\ service.snapshot.chance \in 0..100
  /\ service.requests \in [Requests -> 0..MaxRequests]
  /\ service.state \in {"unconfigured", "locating", "loading", "ready", "error"}
  /\ service.diagnostics \in {"none", "credential", "failed", "air quality failed"}
  /\ service.failureCount \in 0..6
  /\ service.refreshTimer \in Nat \cup {None}

\* Location and forecast requests never overlap: inFlight_ stands for exactly
\* one such request, whatever replies, timers and refreshes come in between, and once
\* the location is resolved the request is for the forecast of that location.
OneOperation ==
  \A r \in Requests :
    r.kind # "air" =>
      service.requests[r] = IF service.inFlight /\ r = MainRequest(service) THEN 1 ELSE 0

\* The service never comes to rest by itself: an operation is under way or a retry or
\* refresh is due, never both, unless authentication failed or a credential was
\* missing from the start; and then nothing is due until the user asks.  A Retry-After
\* beyond what the timer's int of milliseconds holds (2147483 s) is excluded: it would
\* stop the timer for good (TimerLimit).
NeverIdle ==
  LET busy == service.inFlight
      due == service.refreshTimer # None
      stopped == service.authenticationStopped \/ service.diagnostics = "credential"
  IN config.mode # "Unconfigured" =>
       /\ busy \/ due \/ stopped
       /\ ~ (busy /\ due)
       /\ ~ (service.authenticationStopped /\ (busy \/ due))

\* What is shown comes from one place: the lists belong to the snapshot, and an air
\* quality shown with a forecast was measured where the forecast is for, even when
\* it arrives late or was carried over from the cache or an earlier forecast.
ShowsOnePlace ==
  LET shown == service.snapshot
  IN /\ service.rows = Rows(shown.forecast)
     /\ Valid(shown) /\ service.resolved => shown.location.key = service.location.key
     /\ Valid(shown) /\ shown.air # NoAir => shown.air.key = shown.location.key

\* "Cached data remains visible and stale while location or forecast recovery is
\* underway": data not marked stale was fetched or loaded without any failure since.
StaleWhileRecovering ==
  Valid(service.snapshot) /\ ~ service.stale =>
    ~ service.inFlight /\ (service.state = "ready" \/ service.diagnostics = "credential")

\* Loading and failing do not blank available data: a valid snapshot disappears only
\* for one of another place, and it is never replaced by an older one.
DataSurvives ==
  [][~ Restart /\ Valid(service.snapshot) =>
       \/ service'.snapshot.fetched >= service.snapshot.fetched
       \/ service'.location.key # service.snapshot.location.key]_weatherVars

\* Once failures and restarts end, the page gets current data again and again,
\* unless the service stopped for good after an authentication failure or had no
\* credential to begin with.
Recovers ==
  <>[][~ Failure /\ ~ Restart]_weatherVars =>
    \/ []<>(service.state = "ready" /\ ~ service.stale)
    \/ <>[](\/ config.mode = "Unconfigured"
            \/ service.authenticationStopped
            \/ service.diagnostics = "credential")

\* The event in the rail does not stay in the past, and the precipitation
\* shown is always brought up to the current local hour.
RailKeepsUp ==
  /\ []<>(service.solar.time = None \/ service.solar.time > now)
  /\ []<>(~ Valid(service.snapshot) \/ service.snapshot.chance = RemainingChance(service.snapshot.forecast))
-----------------------------------------------------------------------------
(* What the documents say, and what the code does not do *)

\* "A loaded cache ... is never used for another provider or location": with a
\* configured city, data loaded at start is for that city.
CacheOnlyForConfiguredPlace ==
  config.mode = "City" /\ ~ service.resolved /\ Valid(service.snapshot) =>
    service.snapshot.location.place = config.place

\* Forecast and air quality "are requested concurrently": the order of the replies
\* does not matter, so an air quality that is there for the current location is not
\* lost when its forecast arrives.
AirQualityKept ==
  [][\A location \in Locations, forecast \in Forecasts :
       (/\ ForecastReady(location, forecast)
        /\ service.snapshot.air # NoAir
        /\ service.snapshot.air.key = location.key)
       => service'.snapshot.air # NoAir]_weatherVars

\* Failures "respect Retry-After": no retry is due earlier than the server asked for.
RetryAfterRespected ==
  [][\A location \in Locations, retryAfter \in RetryAfters :
       ForecastFailed(location, FALSE, retryAfter) =>
         service'.refreshTimer >= retryAfter]_weatherVars
=============================================================================
