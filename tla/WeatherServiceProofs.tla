------------------------ MODULE WeatherServiceProofs ------------------------
(***************************************************************************)
(* What holds of the weather service for any set of places, configurations *)
(* and forecasts, any number of outstanding requests and any clock.        *)
(***************************************************************************)
EXTENDS WeatherService, TLAPS

ServiceFields ==
  {"location", "resolved", "snapshot", "rows", "solar", "hourTimer", "state", "stale",
   "diagnostics", "inFlight", "authenticationStopped", "failureCount", "refreshTimer", "requests"}

SnapshotFields == {"location", "fetched", "forecast", "air", "chance"}

\* The parts of the inductive invariant, for the members s at time t.
Fields(s) == DOMAIN s = ServiceFields /\ DOMAIN s.snapshot = SnapshotFields

\* What is shown was fetched in the past.
Typed(s, t) ==
  /\ s.location \in Locations \cup {NoLocation}
  /\ s.resolved \in BOOLEAN
  /\ s.resolved => s.location \in Locations
  /\ s.snapshot.location \in Locations \cup {NoLocation}
  /\ s.snapshot.fetched \in (0..t) \cup {None}
  /\ s.snapshot.air \in Air
  /\ s.requests \in [Requests -> 0..MaxRequests]
  /\ s.state \in {"unconfigured", "locating", "loading", "ready", "error"}
  /\ s.stale \in BOOLEAN
  /\ s.diagnostics \in {"none", "credential", "failed", "air quality failed"}
  /\ s.inFlight \in BOOLEAN
  /\ s.authenticationStopped \in BOOLEAN
  /\ s.failureCount \in 0..6
  /\ s.refreshTimer \in Nat \cup {None}

NoMain(s) == \A r \in Requests : r.kind # "air" => s.requests[r] = 0

OneMain(s) ==
  \A r \in Requests :
    r.kind # "air" => s.requests[r] = IF s.inFlight /\ r = MainRequest(s) THEN 1 ELSE 0

\* An air quality still asked for is that of the resolved location.
AirOfLocation(s) ==
  \A r \in Requests :
    r.kind = "air" /\ s.requests[r] > 0 => s.resolved /\ r.location = s.location

\* An air quality without a forecast is that of the resolved location too.
OnePlace(s) ==
  /\ s.rows = Rows(s.snapshot.forecast)
  /\ Valid(s.snapshot) /\ s.resolved => s.snapshot.location.key = s.location.key
  /\ Valid(s.snapshot) /\ s.snapshot.air # NoAir => s.snapshot.air.key = s.snapshot.location.key
  /\ ~ Valid(s.snapshot) /\ s.snapshot.air # NoAir =>
       s.resolved /\ s.snapshot.air.key = s.location.key

\* Without a credential the location is never resolved.
Recovering(s) ==
  /\ Valid(s.snapshot) /\ ~ s.stale =>
       ~ s.inFlight /\ (s.state = "ready" \/ s.diagnostics = "credential")
  /\ s.diagnostics = "credential" => ~ s.resolved

OneTimer(s) ==
  /\ s.inFlight => s.refreshTimer = None
  /\ s.authenticationStopped => ~ s.inFlight /\ s.refreshTimer = None

\* What holds inside a handler, between the end of one operation and the start of the next.
Between(s, t) == Fields(s) /\ Typed(s, t) /\ NoMain(s) /\ AirOfLocation(s) /\ OnePlace(s)

ServiceInv(s, t) ==
  /\ Fields(s)
  /\ Typed(s, t)
  /\ OneMain(s)
  /\ AirOfLocation(s)
  /\ OnePlace(s)
  /\ Recovering(s)
  /\ OneTimer(s)

CacheInv(file, t) ==
  /\ DOMAIN file = {"kind", "location", "fetched", "air", "forecast"}
  /\ file.kind = "saved" =>
       /\ file.location \in Locations \cup {NoLocation}
       /\ file.fetched \in 0..t
       /\ file.air \in Air
       /\ file.air # NoAir => file.air.key = file.location.key

\* The inductive invariant.
WeatherInv ==
  /\ config \in Configs
  /\ now \in Times
  /\ ServiceInv(service, now)
  /\ CacheInv(cache, now)
-----------------------------------------------------------------------------
(* Constants and requests *)

LEMMA Numbers ==
  /\ MaxRequests \in Nat /\ MaxRequests > 0
  /\ RefreshInterval \in Nat /\ RefreshInterval > 0
  /\ TimerLimit \in Nat /\ RefreshInterval <= TimerLimit
  /\ MaxNow \in Nat
  /\ RetryAfters \subseteq Int
BY NumbersAssumption

LEMMA RequestKinds ==
  /\ LocationRequest \in Requests
  /\ LocationRequest.kind = "location"
  /\ \A l \in Locations, k \in {"forecast", "air"} : [kind |-> k, location |-> l] \in Requests
  /\ \A r \in Requests : r.kind \in {"location", "forecast", "air"}
  /\ \A r \in Requests : r.kind # "location" => r.location \in Locations
  /\ \A r \in Requests : r.kind = "location" => r = LocationRequest
BY DEF LocationRequest, Requests

\* The main request of an operation and the requests sent with it.
LEMMA MainKind ==
  ASSUME NEW s, s.resolved \in BOOLEAN, s.resolved => s.location \in Locations
  PROVE  /\ MainRequest(s) \in Requests
         /\ MainRequest(s).kind # "air"
         /\ MainRequest(s) = LocationRequest <=> ~ s.resolved
         /\ Sent(s) \subseteq Requests
         /\ \A r \in Sent(s) : r.kind = "air" => s.resolved /\ r.location = s.location
         /\ \A r \in Sent(s) : r.kind # "air" => r = MainRequest(s)
         /\ MainRequest(s) \in Sent(s)
<1>1. CASE s.resolved
  <2>1. /\ MainRequest(s) = [kind |-> "forecast", location |-> s.location]
        /\ Sent(s) = {MainRequest(s), [kind |-> "air", location |-> s.location]}
    BY <1>1 DEF MainRequest, Sent
  <2>2. [kind |-> "forecast", location |-> s.location] # LocationRequest
    BY DEF LocationRequest
  <2> QED
    BY <1>1, <2>1, <2>2, RequestKinds
<1>2. CASE ~ s.resolved
  <2>1. MainRequest(s) = LocationRequest /\ Sent(s) = {LocationRequest}
    BY <1>2 DEF MainRequest, Sent, LocationRequest
  <2> QED
    BY <1>2, <2>1, RequestKinds
<1> QED
  BY <1>1, <1>2

LEMMA AirTypes ==
  /\ NoAir \in Air
  /\ \A l \in Locations, i \in Airs :
       /\ [index |-> i, key |-> l.key] \in Air
       /\ [index |-> i, key |-> l.key] # NoAir
       /\ [index |-> i, key |-> l.key].key = l.key
BY NumbersAssumption DEF Air, NoAir
-----------------------------------------------------------------------------
(* The methods *)

\* An operation that starts from a settled service restores the invariant.
LEMMA BeginInv ==
  ASSUME NEW t \in Nat, NEW s, Between(s, t), NEW manual \in BOOLEAN,
         manual \/ s.refreshTimer = None,
         \A r \in Sent(s) : s.requests[r] < MaxRequests
  PROVE  /\ ServiceInv(Begin(s, manual), t)
         /\ Begin(s, manual).inFlight
         /\ Begin(s, manual).snapshot = s.snapshot
         /\ Begin(s, manual).location = s.location
<1> DEFINE b == Begin(s, manual)
<1> DEFINE sent == [r \in Requests |-> IF r \in Sent(s) THEN s.requests[r] + 1 ELSE s.requests[r]]
<1>1. Fields(s) /\ Typed(s, t) /\ NoMain(s) /\ AirOfLocation(s) /\ OnePlace(s)
  BY DEF Between
<1>2. /\ DOMAIN b = ServiceFields
      /\ b.location = s.location
      /\ b.resolved = s.resolved
      /\ b.snapshot = s.snapshot
      /\ b.rows = s.rows
      /\ b.state = IF s.resolved THEN "loading" ELSE "locating"
      /\ b.stale = (s.stale \/ Valid(s.snapshot))
      /\ b.diagnostics = "none"
      /\ b.inFlight = TRUE
      /\ b.authenticationStopped = FALSE
      /\ b.failureCount = s.failureCount
      /\ b.refreshTimer = None
      /\ b.requests = sent
  BY <1>1 DEF Begin, Fields, ServiceFields
<1> HIDE DEF b
<1>3. /\ MainRequest(b) = MainRequest(s)
      /\ MainRequest(s).kind # "air"
      /\ Sent(s) \subseteq Requests
      /\ \A r \in Sent(s) : r.kind = "air" => s.resolved /\ r.location = s.location
      /\ \A r \in Requests : r.kind # "air" => (r \in Sent(s) <=> r = MainRequest(s))
  <2>1. MainRequest(b) = MainRequest(s)
    BY <1>2 DEF MainRequest
  <2>2. s.resolved \in BOOLEAN /\ (s.resolved => s.location \in Locations)
    BY <1>1 DEF Typed
  <2>3. /\ MainRequest(s).kind # "air"
        /\ MainRequest(s) \in Sent(s)
        /\ Sent(s) \subseteq Requests
        /\ \A r \in Sent(s) : r.kind = "air" => s.resolved /\ r.location = s.location
        /\ \A r \in Sent(s) : r.kind # "air" => r = MainRequest(s)
    BY <2>2, MainKind
  <2> QED
    BY <2>1, <2>3
<1>4. sent \in [Requests -> 0..MaxRequests]
  <2>1. MaxRequests \in Nat /\ s.requests \in [Requests -> 0..MaxRequests]
    BY <1>1, Numbers DEF Typed
  <2>2. \A r \in Requests : r \in Sent(s) => s.requests[r] + 1 \in 0..MaxRequests
    BY <2>1
  <2> QED
    BY <2>1, <2>2
<1>5. Fields(b) /\ Typed(b, t)
  <2> HIDE DEF sent
  <2> QED
    BY <1>1, <1>2, <1>4 DEF Fields, Typed
<1>6. OneMain(b) /\ AirOfLocation(b)
  <2>1. \A r \in Requests : b.requests[r] = IF r \in Sent(s) THEN s.requests[r] + 1 ELSE s.requests[r]
    BY <1>2
  <2> HIDE DEF sent
  <2>2. \A r \in Requests : r.kind # "air" => s.requests[r] = 0
    BY <1>1 DEF NoMain
  <2>3. OneMain(b)
    BY <1>2, <1>3, <2>1, <2>2 DEF OneMain
  <2>4. AirOfLocation(b)
    BY <1>1, <1>2, <1>3, <2>1 DEF AirOfLocation
  <2> QED
    BY <2>3, <2>4
<1> HIDE DEF sent
<1>7. OnePlace(b)
  BY <1>1, <1>2 DEF OnePlace
<1>8. Recovering(b) /\ OneTimer(b)
  BY <1>1, <1>2 DEF Recovering, OneTimer, Typed
<1> QED
  BY <1>2, <1>5, <1>6, <1>7, <1>8 DEF ServiceInv, b

\* Adopting a snapshot replaces what is shown and nothing else.
LEMMA AdoptFields ==
  ASSUME NEW s, DOMAIN s = ServiceFields, NEW p, DOMAIN p = SnapshotFields,
         NEW a, a = Adopt(s, p)
  PROVE  /\ DOMAIN a = ServiceFields /\ DOMAIN a.snapshot = SnapshotFields
         /\ a.snapshot.location = p.location /\ a.snapshot.fetched = p.fetched
         /\ a.snapshot.forecast = p.forecast /\ a.snapshot.air = p.air
         /\ a.rows = Rows(p.forecast)
         /\ a.location = s.location /\ a.resolved = s.resolved
         /\ a.state = s.state /\ a.stale = s.stale /\ a.diagnostics = s.diagnostics
         /\ a.inFlight = s.inFlight /\ a.authenticationStopped = s.authenticationStopped
         /\ a.failureCount = s.failureCount /\ a.refreshTimer = s.refreshTimer
         /\ a.requests = s.requests
<1> DEFINE chance == RemainingChance(p.forecast)
<1> DEFINE s1 == [s EXCEPT !.snapshot = p]
<1> DEFINE s2 == WithChance(s1)
<1> DEFINE s3 == [WithHourTimer(s2) EXCEPT !.rows = Rows(p.forecast)]
<1> HIDE DEF chance
<1>1. DOMAIN s1 = ServiceFields /\ s1.snapshot = p
  BY DEF ServiceFields
<1>2. s2 = [s1 EXCEPT !.snapshot = [p EXCEPT !.chance = chance]]
  BY <1>1 DEF WithChance, chance
<1>3. /\ DOMAIN s3 = ServiceFields
      /\ s3.snapshot = [p EXCEPT !.chance = chance]
      /\ s3.rows = Rows(p.forecast)
      /\ s3.location = s.location /\ s3.resolved = s.resolved
      /\ s3.state = s.state /\ s3.stale = s.stale /\ s3.diagnostics = s.diagnostics
      /\ s3.inFlight = s.inFlight /\ s3.authenticationStopped = s.authenticationStopped
      /\ s3.failureCount = s.failureCount /\ s3.refreshTimer = s.refreshTimer
      /\ s3.requests = s.requests
  <2> DEFINE timer == Valid(s2.snapshot)
  <2> DEFINE rows == Rows(p.forecast)
  <2>1. s3 = [[s2 EXCEPT !.hourTimer = timer] EXCEPT !.rows = rows]
    BY DEF WithHourTimer
  <2> HIDE DEF timer, rows, s3, s2
  <2>2. /\ DOMAIN s3 = ServiceFields
        /\ s3.snapshot = [p EXCEPT !.chance = chance]
        /\ s3.rows = rows
        /\ s3.location = s.location /\ s3.resolved = s.resolved
        /\ s3.state = s.state /\ s3.stale = s.stale /\ s3.diagnostics = s.diagnostics
        /\ s3.inFlight = s.inFlight /\ s3.authenticationStopped = s.authenticationStopped
        /\ s3.failureCount = s.failureCount /\ s3.refreshTimer = s.refreshTimer
        /\ s3.requests = s.requests
    BY <1>2, <2>1 DEF ServiceFields
  <2> QED
    BY <2>2 DEF rows
<1>4. Adopt(s, p) = [s3 EXCEPT !.solar = NextSolarEvent(s3.snapshot.forecast)]
  BY DEF Adopt, WithSolarEvent
<1> DEFINE solar == NextSolarEvent(s3.snapshot.forecast)
<1> HIDE DEF s3, solar
<1>5. Adopt(s, p) = [s3 EXCEPT !.solar = solar]
  BY <1>4 DEF solar
<1>6. /\ DOMAIN [p EXCEPT !.chance = chance] = SnapshotFields
      /\ [p EXCEPT !.chance = chance].location = p.location
      /\ [p EXCEPT !.chance = chance].fetched = p.fetched
      /\ [p EXCEPT !.chance = chance].forecast = p.forecast
      /\ [p EXCEPT !.chance = chance].air = p.air
  BY DEF SnapshotFields
<1> QED
  BY <1>3, <1>5, <1>6 DEF ServiceFields

\* A location that is resolved starts the first forecast; data of another place goes.
LEMMA SetLocationInv ==
  ASSUME NEW t \in Nat, NEW s, Between(s, t), ~ s.resolved,
         ~ s.authenticationStopped, s.refreshTimer = None, NEW location \in Locations
  PROVE  /\ ServiceInv(SetLocation(s, location), t)
         /\ SetLocation(s, location).inFlight
         /\ SetLocation(s, location).location = location
         /\ \/ SetLocation(s, location).snapshot = s.snapshot
            \/ s.snapshot.location.key # location.key
<1> DEFINE located == [s EXCEPT !.inFlight = FALSE, !.location = location, !.resolved = TRUE]
<1> DEFINE emptied == [located EXCEPT !.snapshot = NoSnapshot, !.rows = Rows(NoForecast),
                                      !.stale = FALSE]
<1> DEFINE cleared == WithSolarEvent(emptied)
<1> DEFINE other == Valid(s.snapshot) /\ s.snapshot.location.key # location.key
<1> DEFINE m == IF other THEN cleared ELSE located
<1>1. Fields(s) /\ Typed(s, t) /\ NoMain(s) /\ AirOfLocation(s) /\ OnePlace(s)
  BY DEF Between
<1>2. \A r \in Requests : s.requests[r] = 0
  <2> SUFFICES ASSUME NEW r \in Requests PROVE s.requests[r] = 0
    OBVIOUS
  <2>1. s.requests[r] \in 0..MaxRequests /\ MaxRequests \in Nat
    BY <1>1, Numbers DEF Typed
  <2> QED
    BY <1>1, <2>1 DEF NoMain, AirOfLocation
<1>3. /\ DOMAIN located = ServiceFields
      /\ located.location = location /\ located.resolved = TRUE /\ located.inFlight = FALSE
      /\ located.snapshot = s.snapshot /\ located.rows = s.rows /\ located.stale = s.stale
      /\ located.state = s.state /\ located.diagnostics = s.diagnostics
      /\ located.authenticationStopped = s.authenticationStopped
      /\ located.failureCount = s.failureCount /\ located.refreshTimer = s.refreshTimer
      /\ located.requests = s.requests
  BY <1>1 DEF Fields, ServiceFields
<1>4. /\ DOMAIN cleared = ServiceFields
      /\ cleared.location = location /\ cleared.resolved = TRUE /\ cleared.inFlight = FALSE
      /\ cleared.snapshot = NoSnapshot /\ cleared.rows = Rows(NoForecast)
      /\ cleared.stale = FALSE
      /\ cleared.state = s.state /\ cleared.diagnostics = s.diagnostics
      /\ cleared.authenticationStopped = s.authenticationStopped
      /\ cleared.failureCount = s.failureCount /\ cleared.refreshTimer = s.refreshTimer
      /\ cleared.requests = s.requests
  <2> DEFINE solar == NextSolarEvent(emptied.snapshot.forecast)
  <2> DEFINE rows == Rows(NoForecast)
  <2>1. cleared = [emptied EXCEPT !.solar = solar]
    BY DEF WithSolarEvent
  <2>2. emptied = [located EXCEPT !.snapshot = NoSnapshot, !.rows = rows, !.stale = FALSE]
    OBVIOUS
  <2> HIDE DEF solar, rows, located, emptied, cleared
  <2>3. /\ DOMAIN cleared = ServiceFields
        /\ cleared.location = located.location /\ cleared.resolved = located.resolved
        /\ cleared.inFlight = located.inFlight
        /\ cleared.snapshot = NoSnapshot /\ cleared.rows = rows /\ cleared.stale = FALSE
        /\ cleared.state = located.state /\ cleared.diagnostics = located.diagnostics
        /\ cleared.authenticationStopped = located.authenticationStopped
        /\ cleared.failureCount = located.failureCount
        /\ cleared.refreshTimer = located.refreshTimer
        /\ cleared.requests = located.requests
    BY <1>3, <2>1, <2>2 DEF ServiceFields
  <2> QED
    BY <1>3, <2>3 DEF rows
<1> HIDE DEF located, cleared
<1>5. /\ DOMAIN NoSnapshot = SnapshotFields
      /\ NoSnapshot.location = NoLocation /\ NoSnapshot.fetched = None
      /\ NoSnapshot.forecast = NoForecast /\ NoSnapshot.air = NoAir
  BY DEF NoSnapshot, SnapshotFields
<1>6. /\ Fields(m) /\ Typed(m, t)
      /\ m.requests = s.requests /\ m.resolved = TRUE /\ m.inFlight = FALSE
      /\ m.authenticationStopped = FALSE /\ m.refreshTimer = None
      /\ m.location = location
      /\ m.snapshot = IF other THEN NoSnapshot ELSE s.snapshot
  <2>1. CASE other
    BY <1>1, <1>4, <1>5, <2>1, AirTypes DEF Fields, Typed
  <2>2. CASE ~ other
    BY <1>1, <1>3, <2>2 DEF Fields, Typed
  <2> QED
    BY <2>1, <2>2
<1>7. NoMain(m) /\ AirOfLocation(m)
  BY <1>2, <1>6 DEF NoMain, AirOfLocation
<1>8. OnePlace(m)
  <2>1. CASE other
    BY <1>4, <1>5, <2>1 DEF OnePlace, Valid
  <2>2. CASE ~ other
    BY <1>1, <1>3, <2>2 DEF OnePlace
  <2> QED
    BY <2>1, <2>2
<1>9. \A r \in Sent(m) : m.requests[r] < MaxRequests
  <2> HIDE DEF m
  <2>1. m.resolved \in BOOLEAN /\ (m.resolved => m.location \in Locations)
    BY <1>6
  <2>2. Sent(m) \subseteq Requests
    BY <2>1, MainKind
  <2> QED
    BY <1>2, <1>6, <2>2, Numbers
<1>10. SetLocation(s, location) = Begin(m, FALSE)
  <2>1. SetLocation(s, location) = StartOperation(m, FALSE)
    BY DEF SetLocation, located, cleared
  <2> HIDE DEF m
  <2> QED
    BY <1>6, <2>1 DEF StartOperation
<1>11. Between(m, t)
  BY <1>6, <1>7, <1>8 DEF Between
<1>12. other => s.snapshot.location.key # location.key
  OBVIOUS
<1> HIDE DEF m, other
<1>13. /\ ServiceInv(Begin(m, FALSE), t)
       /\ Begin(m, FALSE).inFlight
       /\ Begin(m, FALSE).snapshot = m.snapshot
       /\ Begin(m, FALSE).location = m.location
  BY <1>6, <1>9, <1>11, BeginInv
<1> QED
  BY <1>6, <1>10, <1>12, <1>13

\* A forecast for the resolved location replaces what is shown.
LEMMA PublishInv ==
  ASSUME now \in Nat, NEW s, Between(s, now), s.resolved = TRUE, s.authenticationStopped = FALSE,
         NEW location \in Locations, location = s.location, NEW forecast
  PROVE  /\ ServiceInv(Publish(s, location, forecast), now)
         /\ Publish(s, location, forecast).snapshot.fetched = now
         /\ Publish(s, location, forecast).refreshTimer # None
<1> DEFINE air == IF s.snapshot.location.key = location.key THEN s.snapshot.air ELSE NoAir
<1> DEFINE p == [location |-> location, fetched |-> now, forecast |-> forecast,
                 air |-> air, chance |-> 0]
<1> DEFINE a == Adopt(s, p)
<1> DEFINE f == Publish(s, location, forecast)
<1>1. Fields(s) /\ Typed(s, now) /\ NoMain(s) /\ AirOfLocation(s) /\ OnePlace(s)
  BY DEF Between
<1>2. /\ DOMAIN p = SnapshotFields
      /\ p.location = location /\ p.fetched = now /\ p.forecast = forecast /\ p.air = air
  BY DEF SnapshotFields
<1>3. air \in Air /\ (air # NoAir => air.key = location.key)
  <2>1. air \in Air
    BY <1>1, AirTypes DEF Typed
  <2>2. ASSUME s.snapshot.air # NoAir, s.snapshot.location.key = location.key
        PROVE  s.snapshot.air.key = location.key
    BY <1>1, <2>2 DEF OnePlace
  <2> QED
    BY <2>1, <2>2
<1>4. f = [a EXCEPT !.inFlight = FALSE, !.stale = FALSE, !.failureCount = 0, !.state = "ready",
                    !.diagnostics = "none", !.refreshTimer = RefreshInterval]
  BY DEF Publish
<1>4a. a = Adopt(s, p)
  OBVIOUS
<1> HIDE DEF p, air, a
<1>5. /\ DOMAIN a = ServiceFields /\ DOMAIN a.snapshot = SnapshotFields
      /\ a.snapshot.location = location /\ a.snapshot.fetched = now
      /\ a.snapshot.forecast = forecast /\ a.snapshot.air = air
      /\ a.rows = Rows(forecast)
      /\ a.location = s.location /\ a.resolved = s.resolved
      /\ a.authenticationStopped = s.authenticationStopped
      /\ a.requests = s.requests
  <2>1. DOMAIN s = ServiceFields
    BY <1>1 DEF Fields
  <2> QED
    BY <1>2, <1>4a, <2>1, AdoptFields
<1> HIDE DEF f
<1>6. /\ DOMAIN f = ServiceFields
      /\ f.snapshot = a.snapshot /\ f.rows = a.rows
      /\ f.location = a.location /\ f.resolved = a.resolved /\ f.requests = a.requests
      /\ f.authenticationStopped = a.authenticationStopped
      /\ f.inFlight = FALSE /\ f.stale = FALSE /\ f.failureCount = 0 /\ f.state = "ready"
      /\ f.diagnostics = "none" /\ f.refreshTimer = RefreshInterval
  BY <1>4, <1>5 DEF ServiceFields
<1>7. now # None /\ RefreshInterval # None /\ now \in 0..now /\ RefreshInterval \in Nat
  BY Numbers DEF None
<1>8. Fields(f) /\ Typed(f, now)
  <2>1. s.requests \in [Requests -> 0..MaxRequests] /\ s.authenticationStopped \in BOOLEAN
    BY <1>1 DEF Typed
  <2>2. Fields(f)
    BY <1>5, <1>6 DEF Fields
  <2>3. /\ f.location \in Locations /\ f.resolved = TRUE /\ f.authenticationStopped = FALSE
        /\ f.requests \in [Requests -> 0..MaxRequests]
        /\ f.snapshot.location \in Locations /\ f.snapshot.air \in Air
        /\ f.snapshot.fetched \in 0..now
    BY <1>3, <1>5, <1>6, <1>7, <2>1
  <2>4. f.refreshTimer \in Nat \cup {None} /\ f.failureCount \in 0..6
    BY <1>6, <1>7
  <2>5. f.stale \in BOOLEAN /\ f.inFlight \in BOOLEAN
    BY <1>6
  <2>6. Typed(f, now)
    BY <1>6, <2>3, <2>4, <2>5 DEF Typed
  <2> QED
    BY <2>2, <2>6
<1>9. OneMain(f) /\ AirOfLocation(f)
  BY <1>1, <1>5, <1>6 DEF OneMain, NoMain, AirOfLocation
<1>10. OnePlace(f)
  BY <1>3, <1>5, <1>6, <1>7 DEF OnePlace, Valid
<1>11. Recovering(f) /\ OneTimer(f)
  BY <1>5, <1>6 DEF Recovering, OneTimer
<1> QED
  BY <1>5, <1>6, <1>7, <1>8, <1>9, <1>10, <1>11 DEF ServiceInv, f

\* The delays before a retry.
LEMMA BackoffBounded ==
  \A n \in 0..6 : /\ OneMore(n) \in 1..6
                  /\ Backoff(OneMore(n)) \in 0..RefreshInterval
<1> SUFFICES ASSUME NEW n \in 0..6
             PROVE  OneMore(n) \in 1..6 /\ Backoff(OneMore(n)) \in 0..RefreshInterval
  OBVIOUS
<1>1. OneMore(n) \in 1..6
  BY DEF OneMore, Lesser
<1>2. <<1, 2, 4, 8, 16, 32>>[OneMore(n)] \in 1..32
  BY <1>1
<1> DEFINE factor == <<1, 2, 4, 8, 16, 32>>[OneMore(n)]
<1> HIDE DEF factor
<1>3. factor \in 1..32
  BY <1>2 DEF factor
<1>4. Backoff(OneMore(n)) = Lesser(RefreshInterval, 30 * factor)
  BY DEF Backoff, factor
<1> QED
  BY <1>1, <1>3, <1>4, Numbers DEF Lesser

\* A failure marks the data stale and, unless it is one of authentication, arms the timer.
LEMMA FailInv ==
  ASSUME NEW t \in Nat, NEW s, Between(s, t), s.refreshTimer = None,
         NEW authenticationFailure \in BOOLEAN, NEW retryAfter \in Int,
         NEW f \in Fail(s, authenticationFailure, retryAfter)
  PROVE  /\ ServiceInv(f, t)
         /\ f.snapshot = s.snapshot
         /\ f.authenticationStopped = authenticationFailure
         /\ ~ authenticationFailure /\ retryAfter <= TimerLimit => f.refreshTimer # None
<1> DEFINE seconds == Greater(Backoff(OneMore(s.failureCount)), retryAfter)
<1>1. Fields(s) /\ Typed(s, t) /\ NoMain(s) /\ AirOfLocation(s) /\ OnePlace(s)
  BY DEF Between
<1>2. /\ OneMore(s.failureCount) \in 1..6
      /\ seconds \in Nat
      /\ retryAfter <= TimerLimit => seconds <= TimerLimit
  <2>1. s.failureCount \in 0..6
    BY <1>1 DEF Typed
  <2>2. OneMore(s.failureCount) \in 1..6 /\ Backoff(OneMore(s.failureCount)) \in 0..RefreshInterval
    BY <2>1, BackoffBounded
  <2> QED
    BY <2>2, Numbers DEF Greater
<1> DEFINE e == Failed(s, authenticationFailure)
<1>3. /\ DOMAIN e = ServiceFields
      /\ e.location = s.location /\ e.resolved = s.resolved /\ e.snapshot = s.snapshot
      /\ e.rows = s.rows /\ e.failureCount = s.failureCount /\ e.requests = s.requests
      /\ e.refreshTimer = s.refreshTimer
      /\ e.inFlight = FALSE /\ e.diagnostics = "failed" /\ e.stale = Valid(s.snapshot)
      /\ e.state = "error" /\ e.authenticationStopped = authenticationFailure
  BY <1>1 DEF Failed, Fields, ServiceFields
<1>4. Valid(s.snapshot) \in BOOLEAN
  BY DEF Valid
<1> HIDE DEF e, seconds
<1>5. /\ DOMAIN f = ServiceFields
      /\ f.location = s.location /\ f.resolved = s.resolved /\ f.snapshot = s.snapshot
      /\ f.rows = s.rows /\ f.requests = s.requests
      /\ f.inFlight = FALSE /\ f.diagnostics = "failed" /\ f.stale = Valid(s.snapshot)
      /\ f.state = "error" /\ f.authenticationStopped = authenticationFailure
      /\ f.failureCount \in 0..6
      /\ f.refreshTimer \in Nat \cup {None}
      /\ authenticationFailure => f.refreshTimer = None
      /\ ~ authenticationFailure /\ retryAfter <= TimerLimit => f.refreshTimer # None
  <2>1. CASE authenticationFailure
    <3>1. f = e
      BY <2>1 DEF Fail, e
    <3> QED
      BY <1>1, <1>3, <2>1, <3>1 DEF Typed
  <2>2. CASE ~ authenticationFailure
    <3>1. f \in Retrying(e, seconds)
      BY <2>2 DEF Fail, e, seconds
    <3>2. PICK timer \in Armed(seconds) :
            f = [e EXCEPT !.failureCount = OneMore(e.failureCount), !.refreshTimer = timer]
      BY <3>1 DEF Retrying
    <3>3. /\ timer \in Nat \cup {None}
          /\ retryAfter <= TimerLimit => timer # None
      BY <1>2, <3>2, Numbers DEF Armed, None
    <3>4. f.failureCount \in 0..6 /\ f.refreshTimer = timer
      BY <1>2, <1>3, <3>2 DEF ServiceFields
    <3> QED
      BY <1>3, <2>2, <3>2, <3>3, <3>4 DEF ServiceFields
  <2> QED
    BY <2>1, <2>2
<1>6. Fields(f) /\ Typed(f, t)
  BY <1>1, <1>4, <1>5 DEF Fields, Typed
<1>7. OneMain(f) /\ AirOfLocation(f)
  BY <1>1, <1>5 DEF OneMain, NoMain, AirOfLocation
<1>8. OnePlace(f)
  BY <1>1, <1>5 DEF OnePlace
<1>9. Recovering(f) /\ OneTimer(f)
  BY <1>5 DEF Recovering, OneTimer
<1> QED
  BY <1>5, <1>6, <1>7, <1>8, <1>9 DEF ServiceInv
-----------------------------------------------------------------------------
(* The cache *)

LEMMA NoFileInv == \A t \in Nat : CacheInv(NoFile, t) /\ CacheInv(Garbage, t)
BY DEF CacheInv, NoFile, Garbage, Cached

\* What is saved comes from one place, since what is shown does.
LEMMA SavedInv ==
  ASSUME NEW t \in Nat, NEW s, ServiceInv(s, t), Valid(s.snapshot)
  PROVE  CacheInv(Cached(s.snapshot), t)
<1>1. Typed(s, t) /\ OnePlace(s)
  BY DEF ServiceInv
<1>2. s.snapshot.fetched \in 0..t
  BY <1>1 DEF Typed, Valid
<1>3. s.snapshot.location \in Locations \cup {NoLocation} /\ s.snapshot.air \in Air
  BY <1>1 DEF Typed
<1>4. s.snapshot.air # NoAir => s.snapshot.air.key = s.snapshot.location.key
  BY <1>1 DEF OnePlace
<1> DEFINE f == Cached(s.snapshot)
<1>5. /\ DOMAIN f = {"kind", "location", "fetched", "air", "forecast"}
      /\ f.location = s.snapshot.location /\ f.fetched = s.snapshot.fetched
      /\ f.air = s.snapshot.air
  BY DEF Cached
<1> HIDE DEF f
<1>6. CacheInv(f, t)
  BY <1>2, <1>3, <1>4, <1>5 DEF CacheInv
<1> QED
  BY <1>6 DEF f

\* A service that has loaded its cache, or has found none that it may use.
\* The members after loadCache(): nothing is asked for and nothing has failed.
Loaded(s, t) ==
  /\ Between(s, t)
  /\ \A r \in Requests : s.requests[r] = 0
  /\ s.resolved = FALSE /\ s.inFlight = FALSE
  /\ s.authenticationStopped = FALSE /\ s.refreshTimer = None
  /\ s.diagnostics = "none"
  /\ Valid(s.snapshot) => s.state = "ready"

LEMMA LoadCacheInv ==
  ASSUME now \in Nat, NEW c, NEW file, CacheInv(file, now), NEW s, s = LoadCache(Blank, c, file)
  PROVE  Loaded(s, now)
<1>1. /\ DOMAIN Blank = ServiceFields /\ Blank.snapshot = NoSnapshot
      /\ Blank.location = NoLocation /\ Blank.resolved = FALSE
      /\ Blank.rows = Rows(NoForecast)
      /\ Blank.state = "unconfigured" /\ Blank.stale = FALSE /\ Blank.diagnostics = "none"
      /\ Blank.inFlight = FALSE /\ Blank.authenticationStopped = FALSE
      /\ Blank.failureCount = 0 /\ Blank.refreshTimer = None
      /\ Blank.requests = [r \in Requests |-> 0]
  BY DEF Blank, ServiceFields
<1>2. /\ DOMAIN NoSnapshot = SnapshotFields
      /\ NoSnapshot.location = NoLocation /\ NoSnapshot.fetched = None
      /\ NoSnapshot.forecast = NoForecast /\ NoSnapshot.air = NoAir
  BY DEF NoSnapshot, SnapshotFields
<1>3. Blank.requests \in [Requests -> 0..MaxRequests] /\ \A r \in Requests : Blank.requests[r] = 0
  BY <1>1, Numbers
<1>4. /\ DOMAIN s = ServiceFields /\ DOMAIN s.snapshot = SnapshotFields
      /\ s.location = NoLocation /\ s.resolved = FALSE
      /\ s.rows = Rows(s.snapshot.forecast)
      /\ s.stale \in BOOLEAN /\ s.diagnostics = "none"
      /\ s.inFlight = FALSE /\ s.authenticationStopped = FALSE
      /\ s.failureCount = 0 /\ s.refreshTimer = None
      /\ s.requests = Blank.requests
      /\ s.snapshot.location \in Locations \cup {NoLocation}
      /\ s.snapshot.fetched \in (0..now) \cup {None}
      /\ s.snapshot.air \in Air
      /\ s.state \in {"unconfigured", "ready"}
      /\ Valid(s.snapshot) => s.state = "ready"
      /\ Valid(s.snapshot) /\ s.snapshot.air # NoAir =>
           s.snapshot.air.key = s.snapshot.location.key
      /\ ~ Valid(s.snapshot) => s.snapshot.air = NoAir
  <2>1. CASE ~ Usable(c, file)
    <3>1. s = Blank
      BY <2>1 DEF LoadCache
    <3> QED
      BY <1>1, <1>2, <3>1, AirTypes DEF Valid
  <2>2. CASE Usable(c, file)
    <3> DEFINE p == [location |-> file.location, fetched |-> file.fetched,
                     forecast |-> file.forecast, air |-> file.air, chance |-> 0]
    <3> DEFINE a == Adopt(Blank, p)
    <3> DEFINE old == now - file.fetched > CacheStale
    <3>1. s = [a EXCEPT !.stale = old, !.state = "ready"]
      BY <2>2 DEF LoadCache
    <3>2. /\ DOMAIN p = SnapshotFields
          /\ p.location = file.location /\ p.fetched = file.fetched
          /\ p.forecast = file.forecast /\ p.air = file.air
      BY DEF SnapshotFields
    <3>3. /\ file.location \in Locations \cup {NoLocation}
          /\ file.fetched \in 0..now /\ file.fetched # None
          /\ file.air \in Air
          /\ file.air # NoAir => file.air.key = file.location.key
      <4>1. file.kind = "saved"
        BY <2>2 DEF Usable
      <4> QED
        BY <4>1 DEF CacheInv, None
    <3>4. old \in BOOLEAN
      OBVIOUS
    <3>5. a = Adopt(Blank, p)
      OBVIOUS
    <3> HIDE DEF p, a, old
    <3>6. /\ DOMAIN a = ServiceFields /\ DOMAIN a.snapshot = SnapshotFields
          /\ a.snapshot.location = p.location /\ a.snapshot.fetched = p.fetched
          /\ a.snapshot.forecast = p.forecast /\ a.snapshot.air = p.air
          /\ a.rows = Rows(p.forecast)
          /\ a.location = Blank.location /\ a.resolved = Blank.resolved
          /\ a.diagnostics = Blank.diagnostics /\ a.inFlight = Blank.inFlight
          /\ a.authenticationStopped = Blank.authenticationStopped
          /\ a.failureCount = Blank.failureCount /\ a.refreshTimer = Blank.refreshTimer
          /\ a.requests = Blank.requests
      BY <1>1, <3>2, <3>5, AdoptFields
    <3>7. /\ DOMAIN s = ServiceFields /\ s.snapshot = a.snapshot /\ s.rows = a.rows
          /\ s.location = a.location /\ s.resolved = a.resolved
          /\ s.diagnostics = a.diagnostics /\ s.inFlight = a.inFlight
          /\ s.authenticationStopped = a.authenticationStopped
          /\ s.failureCount = a.failureCount /\ s.refreshTimer = a.refreshTimer
          /\ s.requests = a.requests /\ s.stale = old /\ s.state = "ready"
      BY <3>1, <3>6 DEF ServiceFields
    <3> QED
      BY <1>1, <3>2, <3>3, <3>4, <3>6, <3>7 DEF Valid
  <2> QED
    BY <2>1, <2>2
<1>5. \A r \in Requests : s.requests[r] = 0
  BY <1>3, <1>4
<1>6. Fields(s)
  BY <1>4 DEF Fields
<1>7. Typed(s, now)
  <2>1. s.requests \in [Requests -> 0..MaxRequests] /\ s.failureCount \in 0..6
    BY <1>3, <1>4
  <2>2. /\ s.resolved \in BOOLEAN /\ s.inFlight \in BOOLEAN
        /\ s.authenticationStopped \in BOOLEAN /\ ~ s.resolved
    BY <1>4
  <2> QED
    BY <1>4, <2>1, <2>2 DEF Typed
<1>8. NoMain(s) /\ AirOfLocation(s)
  BY <1>5 DEF NoMain, AirOfLocation
<1>9. OnePlace(s)
  BY <1>4 DEF OnePlace
<1> QED
  BY <1>4, <1>5, <1>6, <1>7, <1>8, <1>9 DEF Between, Loaded

\* No retry asked for is beyond what the timer can be set to.
RetryAfterFits == \A seconds \in RetryAfters : seconds <= TimerLimit

NotIdle(s, c) ==
  c.mode # "Unconfigured" =>
    s.inFlight \/ s.refreshTimer # None \/ s.authenticationStopped \/ s.diagnostics = "credential"

\* A service that has not sent anything yet.
LEMMA SettledInv ==
  ASSUME NEW t \in Nat, NEW s, Between(s, t), \A r \in Requests : s.requests[r] = 0,
         s.resolved = FALSE, s.inFlight = FALSE, s.authenticationStopped = FALSE,
         Valid(s.snapshot) => s.state = "ready" \/ s.diagnostics = "credential"
  PROVE  ServiceInv(s, t)
<1>1. Fields(s) /\ Typed(s, t) /\ OnePlace(s) /\ AirOfLocation(s)
  BY DEF Between
<1>2. OneMain(s)
  BY DEF OneMain
<1>3. Recovering(s) /\ OneTimer(s)
  BY DEF Recovering, OneTimer
<1> QED
  BY <1>1, <1>2, <1>3 DEF ServiceInv

\* The constructor and initialize() establish the invariant from any file.
LEMMA InitializedInv ==
  ASSUME now \in Nat, NEW c \in Configs, NEW file, CacheInv(file, now)
  PROVE  /\ ServiceInv(Initialized(c, file), now)
         /\ NotIdle(Initialized(c, file), c)
<1> DEFINE loaded == LoadCache(Blank, c, file)
<1> DEFINE i == Initialized(c, file)
<1>1. /\ Between(loaded, now)
      /\ \A r \in Requests : loaded.requests[r] = 0
      /\ loaded.resolved = FALSE /\ loaded.inFlight = FALSE
      /\ loaded.authenticationStopped = FALSE /\ loaded.refreshTimer = None
      /\ loaded.diagnostics = "none"
      /\ Valid(loaded.snapshot) => loaded.state = "ready"
  <2>1. loaded = LoadCache(Blank, c, file)
    OBVIOUS
  <2> HIDE DEF loaded
  <2>2. Loaded(loaded, now)
    BY <2>1, LoadCacheInv
  <2> QED
    BY <2>2 DEF Loaded
<1>2. /\ c.mode \in {"Unconfigured", "Coordinates", "City", "Automatic"}
      /\ c.credential \in BOOLEAN
      /\ c.mode = "Coordinates" => c.location \in Locations
  BY WeatherAssumption
<1>3. CASE c.mode = "Unconfigured"
  <2>1. i = Blank
    BY <1>3 DEF Initialized
  <2>2. Blank = LoadCache(Blank, c, NoFile)
    BY DEF LoadCache, Usable, NoFile, Cached
  <2>3. CacheInv(NoFile, now)
    BY NoFileInv
  <2>4. /\ Between(Blank, now)
        /\ \A r \in Requests : Blank.requests[r] = 0
        /\ Blank.resolved = FALSE /\ Blank.inFlight = FALSE
        /\ Blank.authenticationStopped = FALSE /\ Blank.refreshTimer = None
        /\ Valid(Blank.snapshot) => Blank.state = "ready"
    <3> DEFINE b == Blank
    <3>1. b = LoadCache(Blank, c, NoFile)
      BY <2>2
    <3> HIDE DEF b
    <3>2. Loaded(b, now)
      BY <2>3, <3>1, LoadCacheInv
    <3> QED
      BY <3>2 DEF b, Loaded
  <2>5. ServiceInv(Blank, now)
    BY <2>4, SettledInv
  <2> QED
    BY <1>3, <2>1, <2>5 DEF NotIdle
<1> HIDE DEF loaded, i
<1>4. CASE c.mode # "Unconfigured" /\ ~ c.credential
  <2>1. i = [loaded EXCEPT !.state = "error", !.diagnostics = "credential"]
    BY <1>4 DEF Initialized, i, loaded
  <2>2. /\ DOMAIN i = ServiceFields
        /\ i.location = loaded.location /\ i.resolved = loaded.resolved
        /\ i.snapshot = loaded.snapshot /\ i.rows = loaded.rows /\ i.stale = loaded.stale
        /\ i.inFlight = loaded.inFlight
        /\ i.authenticationStopped = loaded.authenticationStopped
        /\ i.failureCount = loaded.failureCount /\ i.refreshTimer = loaded.refreshTimer
        /\ i.requests = loaded.requests
        /\ i.state = "error" /\ i.diagnostics = "credential"
    BY <1>1, <2>1 DEF Between, Fields, ServiceFields
  <2>3. Fields(loaded) /\ Typed(loaded, now) /\ OnePlace(loaded)
    BY <1>1 DEF Between
  <2>4. Fields(i) /\ Typed(i, now) /\ OnePlace(i)
    BY <2>2, <2>3 DEF Fields, Typed, OnePlace
  <2>5. \A r \in Requests : i.requests[r] = 0
    BY <1>1, <2>2
  <2>6. Between(i, now)
    BY <2>4, <2>5 DEF Between, NoMain, AirOfLocation
  <2>7. ServiceInv(i, now)
    BY <1>1, <2>2, <2>5, <2>6, SettledInv
  <2> QED
    BY <2>2, <2>7 DEF NotIdle, i
<1>5. CASE c.mode = "Coordinates" /\ c.credential
  <2>1. i = SetLocation(loaded, c.location)
    BY <1>5 DEF Initialized, i, loaded
  <2>2. ~ loaded.resolved /\ ~ loaded.authenticationStopped
    BY <1>1
  <2>3. ServiceInv(i, now) /\ i.inFlight
    BY <1>1, <1>2, <1>5, <2>1, <2>2, SetLocationInv
  <2> QED
    BY <2>3 DEF NotIdle, i
<1>6. CASE c.mode \notin {"Unconfigured", "Coordinates"} /\ c.credential
  <2>1. i = StartOperation(loaded, FALSE)
    BY <1>6 DEF Initialized, i, loaded
  <2>2. i = Begin(loaded, FALSE)
    BY <1>1, <2>1 DEF StartOperation
  <2>3. loaded.resolved \in BOOLEAN /\ (loaded.resolved => loaded.location \in Locations)
    BY <1>1
  <2>4. Sent(loaded) \subseteq Requests
    BY <2>3, MainKind
  <2>5. \A r \in Sent(loaded) : loaded.requests[r] < MaxRequests
    BY <1>1, <2>4, Numbers
  <2>6. ServiceInv(i, now) /\ i.inFlight
    BY <1>1, <2>2, <2>5, BeginInv
  <2> QED
    BY <2>6 DEF NotIdle, i
<1> QED
  BY <1>2, <1>3, <1>4, <1>5, <1>6
-----------------------------------------------------------------------------
(* Steps *)

\* The reply of a main request ends the operation under way.
LEMMA AnsweredMain ==
  ASSUME NEW t \in Nat, ServiceInv(service, t), NEW r \in Requests, r.kind # "air", Ends(r),
         NEW a, a = Answered(r)
  PROVE  /\ Between(a, t)
         /\ service.inFlight = TRUE
         /\ r = MainRequest(service)
         /\ a.resolved = service.resolved /\ a.location = service.location
         /\ a.snapshot = service.snapshot
         /\ a.authenticationStopped = FALSE /\ a.refreshTimer = None
         /\ service.resolved \in BOOLEAN
<1>1. /\ Fields(service) /\ Typed(service, t) /\ OneMain(service) /\ AirOfLocation(service)
      /\ OnePlace(service) /\ OneTimer(service)
  BY DEF ServiceInv
<1>2. service.inFlight /\ r = MainRequest(service) /\ service.requests[r] = 1
  BY <1>1 DEF OneMain, Ends
<1> DEFINE left == [service.requests EXCEPT ![r] = service.requests[r] - 1]
<1>3. a = [service EXCEPT !.requests = left]
  BY DEF Answered
<1>4. service.requests \in [Requests -> 0..MaxRequests]
  BY <1>1 DEF Typed
<1>5. /\ left \in [Requests -> 0..MaxRequests]
      /\ \A q \in Requests : left[q] = IF q = r THEN 0 ELSE service.requests[q]
  BY <1>2, <1>4, Numbers
<1> HIDE DEF left
<1>6. /\ DOMAIN a = ServiceFields
      /\ a.location = service.location /\ a.resolved = service.resolved
      /\ a.snapshot = service.snapshot /\ a.rows = service.rows /\ a.state = service.state
      /\ a.stale = service.stale /\ a.diagnostics = service.diagnostics
      /\ a.inFlight = service.inFlight
      /\ a.authenticationStopped = service.authenticationStopped
      /\ a.failureCount = service.failureCount /\ a.refreshTimer = service.refreshTimer
      /\ a.requests = left
  BY <1>1, <1>3 DEF Fields, ServiceFields
<1>7. Fields(a) /\ Typed(a, t) /\ OnePlace(a)
  BY <1>1, <1>5, <1>6 DEF Fields, Typed, OnePlace
<1>8. NoMain(a)
  BY <1>1, <1>2, <1>5, <1>6 DEF NoMain, OneMain
<1>9. AirOfLocation(a)
  BY <1>1, <1>5, <1>6 DEF AirOfLocation
<1>10. service.authenticationStopped = FALSE /\ service.refreshTimer = None /\ service.inFlight = TRUE
  BY <1>1, <1>2 DEF OneTimer, Typed
<1>11. service.resolved \in BOOLEAN
  BY <1>1 DEF Typed
<1> QED
  BY <1>2, <1>6, <1>7, <1>8, <1>9, <1>10, <1>11 DEF Between

\* What every step but a restart does to the service.
Survives ==
  Valid(service.snapshot) =>
    \/ service'.snapshot.fetched >= service.snapshot.fetched
    \/ service'.location.key # service.snapshot.location.key

KeepsGoing == RetryAfterFits /\ NotIdle(service, config) => NotIdle(service', config)

GoodStep == ServiceInv(service', now) /\ Survives /\ KeepsGoing

\* A step that keeps the snapshot, or one with the same time, keeps the data.
LEMMA SameTimeSurvives ==
  ASSUME WeatherInv, service'.snapshot.fetched = service.snapshot.fetched
  PROVE  Survives
<1>1. now \in Nat /\ ServiceInv(service, now)
  BY Numbers DEF WeatherInv, Times
<1>2. service.snapshot.fetched \in (0..now) \cup {None}
  BY <1>1 DEF ServiceInv, Typed
<1>3. service.snapshot.fetched \in Int
  BY <1>1, <1>2 DEF None
<1> QED
  BY <1>3 DEF Survives

LEMMA LocationResolvedStep ==
  ASSUME WeatherInv, NEW location \in Locations, LocationResolved(location)
  PROVE  GoodStep
<1>1. now \in Nat /\ ServiceInv(service, now)
  BY Numbers DEF WeatherInv, Times
<1> DEFINE a == Answered(LocationRequest)
<1>2. Ends(LocationRequest) /\ service' = SetLocation(a, location)
  BY DEF LocationResolved
<1>3. a = Answered(LocationRequest)
  OBVIOUS
<1> HIDE DEF a
<1>4. /\ Between(a, now)
      /\ LocationRequest = MainRequest(service)
      /\ a.resolved = service.resolved /\ a.snapshot = service.snapshot
      /\ a.authenticationStopped = FALSE /\ a.refreshTimer = None
  BY <1>1, <1>2, <1>3, RequestKinds, AnsweredMain
<1>5. ~ a.resolved /\ ~ a.authenticationStopped
  <2>1. ~ service.resolved
    BY <1>4 DEF MainRequest, LocationRequest
  <2> QED
    BY <1>4, <2>1
<1>6. /\ ServiceInv(service', now) /\ service'.inFlight /\ service'.location = location
      /\ service'.snapshot = a.snapshot \/ a.snapshot.location.key # location.key
  BY <1>1, <1>2, <1>4, <1>5, SetLocationInv
<1>7. Survives
  <2>1. CASE service'.snapshot = a.snapshot
    BY <1>4, <2>1, SameTimeSurvives
  <2>2. CASE a.snapshot.location.key # location.key
    BY <1>4, <1>6, <2>2 DEF Survives
  <2> QED
    BY <1>6, <2>1, <2>2
<1> QED
  BY <1>6, <1>7 DEF GoodStep, KeepsGoing, NotIdle

\* What fail() does in answer to a main request.
LEMMA FailureStep ==
  ASSUME WeatherInv, NEW r \in Requests, r.kind # "air", Ends(r),
         NEW auth \in BOOLEAN, NEW retryAfter \in Int, RetryAfterFits => retryAfter <= TimerLimit,
         service' \in Fail(Answered(r), auth, retryAfter)
  PROVE  GoodStep
<1>1. now \in Nat /\ ServiceInv(service, now)
  BY Numbers DEF WeatherInv, Times
<1> DEFINE a == Answered(r)
<1>2. a = Answered(r) /\ service' \in Fail(a, auth, retryAfter)
  OBVIOUS
<1> HIDE DEF a
<1>3. /\ Between(a, now) /\ a.snapshot = service.snapshot /\ a.refreshTimer = None
  BY <1>1, <1>2, AnsweredMain
<1>4. /\ ServiceInv(service', now)
      /\ service'.snapshot = a.snapshot
      /\ service'.authenticationStopped = auth
      /\ ~ auth /\ retryAfter <= TimerLimit => service'.refreshTimer # None
  BY <1>1, <1>2, <1>3, FailInv
<1>5. Survives
  BY <1>3, <1>4, SameTimeSurvives
<1>6. KeepsGoing
  BY <1>4 DEF KeepsGoing, NotIdle
<1> QED
  BY <1>4, <1>5, <1>6 DEF GoodStep

LEMMA LocationFailedStep ==
  ASSUME WeatherInv, NEW auth \in BOOLEAN, LocationFailed(auth)
  PROVE  GoodStep
<1>1. Ends(LocationRequest) /\ service' \in Fail(Answered(LocationRequest), auth, 0)
  BY DEF LocationFailed
<1>2. LocationRequest \in Requests /\ LocationRequest.kind # "air" /\ 0 \in Int /\ 0 <= TimerLimit
  BY RequestKinds, Numbers
<1> QED
  BY <1>1, <1>2, FailureStep

LEMMA ForecastFailedStep ==
  ASSUME WeatherInv, NEW location \in Locations, NEW auth \in BOOLEAN,
         NEW retryAfter \in RetryAfters, ForecastFailed(location, auth, retryAfter)
  PROVE  GoodStep
<1> DEFINE r == [kind |-> "forecast", location |-> location]
<1>1. Ends(r) /\ service' \in Fail(Answered(r), auth, retryAfter)
  BY DEF ForecastFailed
<1>2. r \in Requests /\ r.kind # "air"
  BY RequestKinds
<1>3. retryAfter \in Int /\ (RetryAfterFits => retryAfter <= TimerLimit)
  BY Numbers DEF RetryAfterFits
<1> HIDE DEF r
<1> QED
  BY <1>1, <1>2, <1>3, FailureStep

LEMMA ForecastReadyStep ==
  ASSUME WeatherInv, NEW location \in Locations, NEW forecast, ForecastReady(location, forecast)
  PROVE  GoodStep
<1>1. now \in Nat /\ ServiceInv(service, now)
  BY Numbers DEF WeatherInv, Times
<1> DEFINE r == [kind |-> "forecast", location |-> location]
<1> DEFINE a == Answered(r)
<1>2. Ends(r) /\ service' = Publish(a, location, forecast)
  BY DEF ForecastReady
<1>3. r \in Requests /\ r.kind = "forecast" /\ r.location = location
  BY RequestKinds
<1>4. a = Answered(r)
  OBVIOUS
<1> HIDE DEF a, r
<1>5. /\ Between(a, now)
      /\ r = MainRequest(service)
      /\ a.resolved = service.resolved /\ a.location = service.location
      /\ a.authenticationStopped = FALSE
      /\ service.resolved \in BOOLEAN
  BY <1>1, <1>2, <1>3, <1>4, AnsweredMain
<1>6. a.resolved = TRUE /\ location = a.location
  BY <1>3, <1>5 DEF MainRequest
<1>7. /\ ServiceInv(service', now)
      /\ service'.snapshot.fetched = now
      /\ service'.refreshTimer # None
  BY <1>1, <1>2, <1>5, <1>6, PublishInv
<1>8. Survives
  <2>1. service.snapshot.fetched \in (0..now) \cup {None}
    BY <1>1 DEF ServiceInv, Typed
  <2> QED
    BY <1>1, <1>7, <2>1 DEF Survives, Valid
<1> QED
  BY <1>7, <1>8 DEF GoodStep, KeepsGoing, NotIdle

\* A reply to the request for an air quality changes nothing of the operation.
LEMMA AirQualityReadyStep ==
  ASSUME WeatherInv, NEW location \in Locations, NEW index \in Airs,
         AirQualityReady(location, index)
  PROVE  GoodStep
<1>1. now \in Nat /\ ServiceInv(service, now)
  BY Numbers DEF WeatherInv, Times
<1>2. /\ Fields(service) /\ Typed(service, now) /\ OneMain(service) /\ AirOfLocation(service)
      /\ OnePlace(service) /\ Recovering(service) /\ OneTimer(service)
  BY <1>1 DEF ServiceInv
<1> DEFINE r == [kind |-> "air", location |-> location]
<1> DEFINE air == [index |-> index, key |-> location.key]
<1> DEFINE left == [service.requests EXCEPT ![r] = service.requests[r] - 1]
<1> DEFINE shown == [service.snapshot EXCEPT !.air = air]
<1>3. Ends(r) /\ service' = [Answered(r) EXCEPT !.snapshot.air = air]
  BY DEF AirQualityReady
<1>4. r \in Requests /\ r.kind = "air" /\ r.location = location
  BY RequestKinds
<1>5. air \in Air /\ air # NoAir /\ air.key = location.key
  BY AirTypes
<1>6. service.resolved /\ location = service.location
  BY <1>2, <1>3, <1>4 DEF AirOfLocation, Ends
<1>7. service' = [service EXCEPT !.requests = left, !.snapshot = shown]
  <2>1. Answered(r) = [service EXCEPT !.requests = left]
    BY DEF Answered
  <2>2. Answered(r).snapshot = service.snapshot
    BY <1>2, <2>1 DEF Fields, ServiceFields
  <2> QED
    BY <1>3, <2>1, <2>2
<1>8. service.requests \in [Requests -> 0..MaxRequests]
  BY <1>2 DEF Typed
<1>9. /\ left \in [Requests -> 0..MaxRequests]
      /\ \A q \in Requests : left[q] = IF q = r THEN service.requests[q] - 1 ELSE service.requests[q]
  BY <1>3, <1>4, <1>8, Numbers DEF Ends
<1>10. /\ DOMAIN shown = SnapshotFields
       /\ shown.location = service.snapshot.location /\ shown.fetched = service.snapshot.fetched
       /\ shown.forecast = service.snapshot.forecast /\ shown.air = air
  BY <1>2 DEF Fields, SnapshotFields
<1> HIDE DEF r, air, left, shown
<1>11. /\ DOMAIN service' = ServiceFields
       /\ service'.location = service.location /\ service'.resolved = service.resolved
       /\ service'.snapshot = shown /\ service'.rows = service.rows
       /\ service'.state = service.state
       /\ service'.stale = service.stale /\ service'.diagnostics = service.diagnostics
       /\ service'.inFlight = service.inFlight
       /\ service'.authenticationStopped = service.authenticationStopped
       /\ service'.failureCount = service.failureCount
       /\ service'.refreshTimer = service.refreshTimer
       /\ service'.requests = left
  BY <1>2, <1>7 DEF Fields, ServiceFields
<1>12. Fields(service') /\ Typed(service', now)
  BY <1>2, <1>5, <1>9, <1>10, <1>11 DEF Fields, Typed
<1>13. OneMain(service')
  <2>1. MainRequest(service') = MainRequest(service)
    BY <1>11 DEF MainRequest
  <2> QED
    BY <1>2, <1>4, <1>9, <1>11, <2>1 DEF OneMain
<1>14. AirOfLocation(service')
  <2>1. \A q \in Requests : left[q] > 0 => service.requests[q] > 0
    BY <1>8, <1>9, Numbers
  <2> QED
    BY <1>2, <1>11, <2>1 DEF AirOfLocation
<1>15. OnePlace(service')
  BY <1>2, <1>5, <1>6, <1>10, <1>11 DEF OnePlace, Valid
<1>16. Recovering(service') /\ OneTimer(service')
  BY <1>2, <1>10, <1>11 DEF Recovering, OneTimer, Valid
<1>17. Survives
  BY <1>10, <1>11, SameTimeSurvives
<1> QED
  BY <1>11, <1>12, <1>13, <1>14, <1>15, <1>16, <1>17 DEF GoodStep, ServiceInv, KeepsGoing, NotIdle

LEMMA AirQualityFailedStep ==
  ASSUME WeatherInv, NEW location \in Locations, AirQualityFailed(location)
  PROVE  GoodStep
<1>1. now \in Nat /\ ServiceInv(service, now)
  BY Numbers DEF WeatherInv, Times
<1>2. /\ Fields(service) /\ Typed(service, now) /\ OneMain(service) /\ AirOfLocation(service)
      /\ OnePlace(service) /\ Recovering(service) /\ OneTimer(service)
  BY <1>1 DEF ServiceInv
<1> DEFINE r == [kind |-> "air", location |-> location]
<1> DEFINE left == [service.requests EXCEPT ![r] = service.requests[r] - 1]
<1>3. Ends(r) /\ service' = [Answered(r) EXCEPT !.diagnostics = "air quality failed"]
  BY DEF AirQualityFailed
<1>4. r \in Requests /\ r.kind = "air" /\ r.location = location
  BY RequestKinds
<1>5. service.resolved
  BY <1>2, <1>3, <1>4 DEF AirOfLocation, Ends
<1>6. service' = [service EXCEPT !.requests = left, !.diagnostics = "air quality failed"]
  <2>1. Answered(r) = [service EXCEPT !.requests = left]
    BY DEF Answered
  <2> QED
    BY <1>3, <2>1
<1>7. service.requests \in [Requests -> 0..MaxRequests]
  BY <1>2 DEF Typed
<1>8. /\ left \in [Requests -> 0..MaxRequests]
      /\ \A q \in Requests : left[q] = IF q = r THEN service.requests[q] - 1 ELSE service.requests[q]
  <2>1. service.requests[r] > 0
    BY <1>3 DEF Ends
  <2> QED
    BY <1>4, <1>7, <2>1, Numbers
<1> HIDE DEF r, left
<1>9. /\ DOMAIN service' = ServiceFields
      /\ service'.location = service.location /\ service'.resolved = service.resolved
      /\ service'.snapshot = service.snapshot /\ service'.rows = service.rows
      /\ service'.state = service.state /\ service'.stale = service.stale
      /\ service'.diagnostics = "air quality failed"
      /\ service'.inFlight = service.inFlight
      /\ service'.authenticationStopped = service.authenticationStopped
      /\ service'.failureCount = service.failureCount
      /\ service'.refreshTimer = service.refreshTimer
      /\ service'.requests = left
  BY <1>2, <1>6 DEF Fields, ServiceFields
<1>10. service.diagnostics # "credential"
  BY <1>2, <1>5 DEF Recovering
<1>11. Fields(service') /\ Typed(service', now)
  BY <1>2, <1>8, <1>9 DEF Fields, Typed
<1>12. OneMain(service')
  <2>1. MainRequest(service') = MainRequest(service)
    BY <1>9 DEF MainRequest
  <2> QED
    BY <1>2, <1>4, <1>8, <1>9, <2>1 DEF OneMain
<1>13. AirOfLocation(service')
  <2>1. \A q \in Requests : left[q] > 0 => service.requests[q] > 0
    BY <1>7, <1>8, Numbers
  <2> QED
    BY <1>2, <1>9, <2>1 DEF AirOfLocation
<1>14. OnePlace(service')
  BY <1>2, <1>9 DEF OnePlace
<1>15. Recovering(service') /\ OneTimer(service')
  BY <1>2, <1>9, <1>10 DEF Recovering, OneTimer
<1>16. Survives
  BY <1>9, SameTimeSurvives
<1>17. KeepsGoing
  BY <1>9, <1>10 DEF KeepsGoing, NotIdle
<1> QED
  BY <1>11, <1>12, <1>13, <1>14, <1>15, <1>16, <1>17 DEF GoodStep, ServiceInv

\* startOperation() when nothing is under way, and when it has nothing to do.
LEMMA StartStep ==
  ASSUME WeatherInv, Room, NEW manual \in BOOLEAN,
         \/ manual /\ service' = StartOperation(service, TRUE)
         \/ /\ ~ manual /\ service.refreshTimer # None
            /\ service' = StartOperation([service EXCEPT !.refreshTimer = None], FALSE)
  PROVE  GoodStep
<1>1. now \in Nat /\ ServiceInv(service, now)
  BY Numbers DEF WeatherInv, Times
<1>2. /\ Fields(service) /\ Typed(service, now) /\ OneMain(service) /\ AirOfLocation(service)
      /\ OnePlace(service) /\ Recovering(service) /\ OneTimer(service)
  BY <1>1 DEF ServiceInv
<1> DEFINE s == IF manual THEN service ELSE [service EXCEPT !.refreshTimer = None]
<1>3. /\ DOMAIN s = ServiceFields
      /\ s.location = service.location /\ s.resolved = service.resolved
      /\ s.snapshot = service.snapshot /\ s.rows = service.rows
      /\ s.state = service.state /\ s.stale = service.stale
      /\ s.diagnostics = service.diagnostics /\ s.inFlight = service.inFlight
      /\ s.authenticationStopped = service.authenticationStopped
      /\ s.failureCount = service.failureCount /\ s.requests = service.requests
      /\ s.refreshTimer = IF manual THEN service.refreshTimer ELSE None
  BY <1>2 DEF Fields, ServiceFields
<1>4. service' = StartOperation(s, manual)
  BY DEF None
<1> HIDE DEF s
<1>5. CASE service.inFlight
  <2>1. manual
    BY <1>2, <1>5 DEF OneTimer
  <2>2. service' = service
    BY <1>3, <1>4, <1>5, <2>1 DEF StartOperation, s
  <2>3. Survives
    BY <2>2, SameTimeSurvives
  <2> QED
    BY <1>1, <2>2, <2>3 DEF GoodStep, KeepsGoing
<1>6. CASE ~ service.inFlight
  <2>1. manual \/ ~ service.authenticationStopped
    BY <1>2 DEF OneTimer
  <2>2. service' = Begin(s, manual)
    BY <1>3, <1>4, <1>6, <2>1 DEF StartOperation
  <2>3. Fields(s) /\ Typed(s, now) /\ OnePlace(s)
    BY <1>2, <1>3 DEF Fields, Typed, OnePlace
  <2>4. NoMain(s) /\ AirOfLocation(s)
    BY <1>2, <1>3, <1>6 DEF NoMain, OneMain, AirOfLocation
  <2>5. Between(s, now)
    BY <2>3, <2>4 DEF Between
  <2>6. Sent(s) \subseteq Requests
    <3>1. s.resolved \in BOOLEAN /\ (s.resolved => s.location \in Locations)
      BY <2>3 DEF Typed
    <3> QED
      BY <3>1, MainKind
  <2>7. \A r \in Sent(s) : s.requests[r] < MaxRequests
    BY <1>3, <2>6 DEF Room
  <2>8. manual \/ s.refreshTimer = None
    BY <1>3
  <2>9. /\ ServiceInv(service', now)
        /\ service'.inFlight
        /\ service'.snapshot = s.snapshot
    BY <1>1, <2>2, <2>5, <2>7, <2>8, BeginInv
  <2>10. Survives
    BY <1>3, <2>9, SameTimeSurvives
  <2> QED
    BY <2>9, <2>10 DEF GoodStep, KeepsGoing, NotIdle
<1> QED
  BY <1>5, <1>6

\* The two other timers only bring up to date what is derived from the snapshot.
LEMMA DisplayStep ==
  ASSUME WeatherInv, SolarEventTimer \/ LocalHourTimer
  PROVE  GoodStep
<1>1. now \in Nat /\ ServiceInv(service, now)
  BY Numbers DEF WeatherInv, Times
<1>2. /\ Fields(service) /\ Typed(service, now) /\ OneMain(service) /\ AirOfLocation(service)
      /\ OnePlace(service) /\ Recovering(service) /\ OneTimer(service)
  BY <1>1 DEF ServiceInv
<1>3. /\ DOMAIN service' = ServiceFields /\ DOMAIN service'.snapshot = SnapshotFields
      /\ service'.location = service.location /\ service'.resolved = service.resolved
      /\ service'.snapshot.location = service.snapshot.location
      /\ service'.snapshot.fetched = service.snapshot.fetched
      /\ service'.snapshot.forecast = service.snapshot.forecast
      /\ service'.snapshot.air = service.snapshot.air
      /\ service'.rows = service.rows
      /\ service'.state = service.state /\ service'.stale = service.stale
      /\ service'.diagnostics = service.diagnostics
      /\ service'.inFlight = service.inFlight
      /\ service'.authenticationStopped = service.authenticationStopped
      /\ service'.failureCount = service.failureCount
      /\ service'.refreshTimer = service.refreshTimer
      /\ service'.requests = service.requests
  <2>1. CASE SolarEventTimer
    <3> DEFINE solar == NextSolarEvent(service.snapshot.forecast)
    <3>1. service' = [service EXCEPT !.solar = solar]
      BY <2>1 DEF SolarEventTimer, WithSolarEvent
    <3> HIDE DEF solar
    <3> QED
      BY <1>2, <3>1 DEF Fields, ServiceFields
  <2>2. CASE LocalHourTimer
    <3> DEFINE chance == RemainingChance(service.snapshot.forecast)
    <3> DEFINE shown == [service.snapshot EXCEPT !.chance = chance]
    <3> DEFINE s == [service EXCEPT !.snapshot = shown]
    <3> DEFINE timer == Valid(s.snapshot)
    <3>1. s = WithChance(service)
      BY DEF WithChance
    <3>2. service' = [s EXCEPT !.hourTimer = timer]
      BY <2>2, <3>1 DEF LocalHourTimer, WithHourTimer
    <3> HIDE DEF chance, timer
    <3>3. /\ DOMAIN shown = SnapshotFields
          /\ shown.location = service.snapshot.location
          /\ shown.fetched = service.snapshot.fetched
          /\ shown.forecast = service.snapshot.forecast
          /\ shown.air = service.snapshot.air
      BY <1>2 DEF Fields, SnapshotFields
    <3> HIDE DEF shown
    <3> QED
      BY <1>2, <3>2, <3>3 DEF Fields, ServiceFields
  <2> QED
    BY <2>1, <2>2
<1>4. Fields(service') /\ Typed(service', now)
  BY <1>2, <1>3 DEF Fields, Typed
<1>5. OneMain(service') /\ AirOfLocation(service')
  BY <1>2, <1>3 DEF OneMain, AirOfLocation, MainRequest
<1>6. OnePlace(service')
  BY <1>2, <1>3 DEF OnePlace, Valid
<1>7. Recovering(service') /\ OneTimer(service')
  BY <1>2, <1>3 DEF Recovering, OneTimer, Valid
<1>8. Survives
  BY <1>3, SameTimeSurvives
<1> QED
  BY <1>3, <1>4, <1>5, <1>6, <1>7, <1>8 DEF GoodStep, ServiceInv, KeepsGoing, NotIdle
-----------------------------------------------------------------------------
(* The inductive invariant *)

\* The steps of the service that is running.
ServiceStep == Reply \/ RefreshTimer \/ SolarEventTimer \/ LocalHourTimer \/ Refresh

LEMMA ServiceStepIsGood ==
  ASSUME WeatherInv, ServiceStep
  PROVE  GoodStep /\ UNCHANGED <<config, now>>
<1>1. CASE Reply
  <2>1. CASE \E auth \in BOOLEAN : LocationFailed(auth)
    BY <2>1, LocationFailedStep DEF LocationFailed
  <2>2. CASE \E location \in Locations, auth \in BOOLEAN, retryAfter \in RetryAfters :
               ForecastFailed(location, auth, retryAfter)
    BY <2>2, ForecastFailedStep DEF ForecastFailed
  <2>3. CASE \E location \in Locations : LocationResolved(location)
    BY <2>3, LocationResolvedStep DEF LocationResolved
  <2>4. CASE \E location \in Locations, forecast \in Forecasts : ForecastReady(location, forecast)
    BY <2>4, ForecastReadyStep DEF ForecastReady
  <2>5. CASE \E location \in Locations, index \in Airs : AirQualityReady(location, index)
    BY <2>5, AirQualityReadyStep DEF AirQualityReady
  <2>6. CASE \E location \in Locations : AirQualityFailed(location)
    BY <2>6, AirQualityFailedStep DEF AirQualityFailed
  <2> QED
    BY <1>1, <2>1, <2>2, <2>3, <2>4, <2>5, <2>6 DEF Reply, Failure
<1>2. CASE RefreshTimer
  <2>1. Room /\ service.refreshTimer # None
        /\ service' = StartOperation([service EXCEPT !.refreshTimer = None], FALSE)
        /\ UNCHANGED <<config, now>>
    BY <1>2 DEF RefreshTimer
  <2> QED
    BY <2>1, StartStep
<1>3. CASE Refresh
  <2>1. Room /\ service' = StartOperation(service, TRUE) /\ UNCHANGED <<config, now>>
    BY <1>3 DEF Refresh
  <2> QED
    BY <2>1, StartStep
<1>4. CASE SolarEventTimer \/ LocalHourTimer
  BY <1>4, DisplayStep DEF SolarEventTimer, LocalHourTimer
<1> QED
  BY <1>1, <1>2, <1>3, <1>4 DEF ServiceStep

\* The file is only ever replaced by what is shown.
LEMMA ServiceStepSaves ==
  ASSUME ServiceStep
  PROVE  \/ cache' = cache
         \/ Valid(service'.snapshot) /\ cache' = Cached(service'.snapshot)
<1>1. CASE Reply
  BY <1>1 DEF Reply, Failure, LocationFailed, ForecastFailed, LocationResolved, ForecastReady,
              AirQualityReady, AirQualityFailed, SaveCache
<1>2. CASE RefreshTimer \/ SolarEventTimer \/ LocalHourTimer \/ Refresh
  BY <1>2 DEF RefreshTimer, Refresh, SolarEventTimer, LocalHourTimer
<1> QED
  BY <1>1, <1>2 DEF ServiceStep

LEMMA LaterInv ==
  ASSUME NEW t \in Nat, NEW s, NEW file, ServiceInv(s, t), CacheInv(file, t)
  PROVE  ServiceInv(s, t + 1) /\ CacheInv(file, t + 1)
<1>1. Typed(s, t + 1)
  <2>1. s.snapshot.fetched \in (0..t) \cup {None}
    BY DEF ServiceInv, Typed
  <2>2. s.snapshot.fetched \in (0..(t + 1)) \cup {None}
    BY <2>1
  <2>3. Typed(s, t)
    BY DEF ServiceInv
  <2> QED
    BY <2>2, <2>3 DEF Typed
<1>2. CacheInv(file, t + 1)
  <2>1. file.kind = "saved" => file.fetched \in 0..t
    BY DEF CacheInv
  <2>2. file.kind = "saved" => file.fetched \in 0..(t + 1)
    BY <2>1
  <2> QED
    BY <2>2 DEF CacheInv
<1> QED
  BY <1>1, <1>2 DEF ServiceInv

LEMMA WeatherInvInitially ==
  ASSUME WeatherInit
  PROVE  WeatherInv /\ NotIdle(service, config)
<1>1. config \in Configs /\ cache = NoFile /\ now = 0 /\ service = Initialized(config, NoFile)
  BY DEF WeatherInit
<1>2. now \in Nat /\ now \in Times
  BY <1>1, Numbers DEF Times
<1>3. CacheInv(NoFile, now)
  BY <1>2, NoFileInv
<1>4. ServiceInv(service, now) /\ NotIdle(service, config)
  BY <1>1, <1>2, <1>3, InitializedInv
<1> QED
  BY <1>1, <1>2, <1>3, <1>4 DEF WeatherInv

\* A start from whatever file there is.
LEMMA RestartStep ==
  ASSUME WeatherInv, Restart
  PROVE  WeatherInv' /\ NotIdle(service', config')
<1>1. now \in Nat /\ CacheInv(cache, now)
  BY Numbers DEF WeatherInv, Times
<1>2. config' \in Configs /\ cache' \in {cache, Garbage} /\ service' = Initialized(config', cache')
      /\ now' = now
  BY DEF Restart
<1>3. CacheInv(cache', now)
  BY <1>1, <1>2, NoFileInv
<1>4. ServiceInv(service', now) /\ NotIdle(service', config')
  BY <1>1, <1>2, <1>3, InitializedInv
<1> QED
  BY <1>2, <1>3, <1>4 DEF WeatherInv

LEMMA WeatherInvInductive ==
  ASSUME WeatherInv, [WeatherNext]_weatherVars
  PROVE  WeatherInv'
<1>1. now \in Nat /\ config \in Configs /\ now \in Times
      /\ ServiceInv(service, now) /\ CacheInv(cache, now)
  BY Numbers DEF WeatherInv, Times
<1>2. CASE ServiceStep
  <2>1. ServiceInv(service', now) /\ config' = config /\ now' = now
    BY <1>2, ServiceStepIsGood DEF GoodStep
  <2>2. CacheInv(cache', now)
    BY <1>1, <1>2, <2>1, ServiceStepSaves, SavedInv
  <2> QED
    BY <1>1, <2>1, <2>2 DEF WeatherInv
<1>3. CASE Restart
  BY <1>3, RestartStep
<1>4. CASE Clock
  <2>1. now < MaxNow /\ now' = now + 1 /\ UNCHANGED <<config, service, cache>>
    BY <1>4 DEF Clock
  <2>2. ServiceInv(service', now') /\ CacheInv(cache', now')
    BY <1>1, <2>1, LaterInv
  <2>3. now' \in Times
    BY <1>1, <2>1, Numbers DEF Times
  <2> QED
    BY <1>1, <2>1, <2>2, <2>3 DEF WeatherInv
<1>5. CASE UNCHANGED weatherVars
  <2>1. config' = config /\ now' = now /\ service' = service /\ cache' = cache
    BY <1>5 DEF weatherVars
  <2> QED
    BY <1>1, <2>1 DEF WeatherInv
<1> QED
  BY <1>2, <1>3, <1>4, <1>5 DEF WeatherNext, ServiceStep

LEMMA WeatherInvariant == WeatherSafety => []WeatherInv
<1>1. WeatherInit => WeatherInv
  BY WeatherInvInitially
<1>2. WeatherInv /\ [WeatherNext]_weatherVars => WeatherInv'
  BY WeatherInvInductive
<1> QED
  BY <1>1, <1>2, PTL DEF WeatherSafety
-----------------------------------------------------------------------------
(* Theorems *)

\* inFlight_ stands for exactly one location or forecast request, whatever replies,
\* timers, refreshes and restarts interleave, for any places and any number of
\* outstanding air-quality requests.
THEOREM WeatherOneOperation == WeatherSafety => []OneOperation
<1>1. WeatherInv => OneOperation
  BY DEF WeatherInv, ServiceInv, OneMain, OneOperation
<1> QED
  BY <1>1, WeatherInvariant, PTL

\* Forecast, lists and air quality on the page are of one place, also when the air
\* quality arrives late, without a forecast, or from the cache.
THEOREM WeatherShowsOnePlace == WeatherSafety => []ShowsOnePlace
<1>1. WeatherInv => ShowsOnePlace
  BY DEF WeatherInv, ServiceInv, OnePlace, ShowsOnePlace
<1> QED
  BY <1>1, WeatherInvariant, PTL

\* Data that is being replaced, or could not be, is marked stale.
THEOREM WeatherStaleWhileRecovering == WeatherSafety => []StaleWhileRecovering
<1>1. WeatherInv => StaleWhileRecovering
  BY DEF WeatherInv, ServiceInv, Recovering, StaleWhileRecovering
<1> QED
  BY <1>1, WeatherInvariant, PTL

\* Only a restart or another place takes data off the page, and only newer data replaces it.
THEOREM WeatherDataSurvives == WeatherSafety => DataSurvives
<1>1. ASSUME WeatherInv, [WeatherNext]_weatherVars
      PROVE  [~ Restart /\ Valid(service.snapshot) =>
                \/ service'.snapshot.fetched >= service.snapshot.fetched
                \/ service'.location.key # service.snapshot.location.key]_weatherVars
  <2>1. CASE ServiceStep
    BY <1>1, <2>1, ServiceStepIsGood DEF GoodStep, Survives
  <2>2. CASE Restart
    BY <2>2
  <2>3. CASE Clock
    <3>1. Survives
      BY <1>1, <2>3, SameTimeSurvives DEF Clock
    <3> QED
      BY <3>1 DEF Survives
  <2>4. CASE UNCHANGED weatherVars
    BY <2>4
  <2> QED
    BY <1>1, <2>1, <2>2, <2>3, <2>4 DEF WeatherNext, ServiceStep
<1> QED
  BY <1>1, WeatherInvariant, PTL DEF WeatherSafety, DataSurvives

\* As long as no server asks for a delay whose milliseconds overflow an int, the
\* service always has an operation under way or a timer armed, and never both, unless
\* authentication failed or a credential is missing.  The hypothesis is needed: with a
\* greater Retry-After the timer may be refused, and nothing starts it again.
THEOREM WeatherNeverIdle ==
  ASSUME RetryAfterFits
  PROVE  WeatherSafety => []NeverIdle
<1> DEFINE Going == NotIdle(service, config)
<1>1. WeatherInit => Going
  BY WeatherInvInitially
<1>2. WeatherInv /\ Going /\ [WeatherNext]_weatherVars => Going'
  <2> SUFFICES ASSUME WeatherInv, NotIdle(service, config), [WeatherNext]_weatherVars
               PROVE  NotIdle(service', config')
    OBVIOUS
  <2>1. CASE ServiceStep
    BY <2>1, ServiceStepIsGood DEF GoodStep, KeepsGoing
  <2>2. CASE Restart
    BY <2>2, RestartStep
  <2>3. CASE Clock \/ UNCHANGED weatherVars
    BY <2>3 DEF Clock, weatherVars
  <2> QED
    BY <2>1, <2>2, <2>3 DEF WeatherNext, ServiceStep
<1>3. WeatherInv /\ Going => NeverIdle
  BY DEF WeatherInv, ServiceInv, OneTimer, NotIdle, NeverIdle
<1> QED
  BY <1>1, <1>2, <1>3, WeatherInvariant, PTL DEF WeatherSafety
=============================================================================
