---------------------------- MODULE NodeClients -----------------------------
(****************************************************************************)
(* What talks to the servers: the client that publishes the values of a     *)
(* node, the graph that follows them, and the dashboard.                    *)
(****************************************************************************)
EXTENDS Integers, FiniteSets, SequencesExt, FiniteSetsExt

(****************************************************************************)
(* The client of the nodes (artifacts/api/nodejs/common.js, node/node.js):  *)
(* values are published to the first remote that answers, and read back.    *)
(* Its clock differs from the one of the servers, so that timestamps are    *)
(* sent with the time of the client and shifted by the receiver             *)
(* (plugins/nodes/backend.js).  Time is that of the servers; an answer may  *)
(* be lost.  Remotes are tried in the order of Remotes; this.remote is      *)
(* shared by the calls that are under way.                                  *)
(****************************************************************************)
CONSTANTS
  Remotes,          \* sequence: the remotes of the configuration
  ClockOffsets,     \* what the clock of the client is ahead
  Publishes,        \* calls of publish()
  MaxPublishTime,   \* bound: time
  MaxRemoteFails,   \* bound: requests or answers lost
  MaxCopies         \* bound: copies stored whose answer is lost

ASSUME PublisherAssumption == Remotes # <<>>

VARIABLES
  publishTime,
  clockOffset,
  thisRemote,     \* this.remote, "null" for none
  publishes,      \* call -> step, timestamp of its value, retry or index of source, remote, content.timestamp, remotes tried
  remoteData,     \* copies stored: the call, the remote, the timestamp, the time at which the value was made
  remoteFails,
  reading         \* get(): step, what the server answered, what the caller gets

publishVars == <<publishTime, clockOffset, thisRemote, publishes, remoteData, remoteFails>>
publisherVars == <<publishVars, reading>>

ClientNow == publishTime + clockOffset
NoPublish == [at |-> "none", made |-> 0, retry |-> 0, source |-> 0, remote |-> "null", sent |-> 0, stamp |-> 0, tried |-> {}]

\* remotes(): the current remote three times, if there is one, then all of them; each of these becomes the current one.
NextTry(p) ==
  IF p.source = 0 /\ p.retry < 3 /\ (p.retry > 0 \/ thisRemote # "null")
    THEN [p EXCEPT !.at = "send", !.retry = @ + 1, !.remote = thisRemote]
  ELSE IF p.source < Len(Remotes) THEN [p EXCEPT !.at = "send", !.source = @ + 1, !.remote = Remotes[p.source + 1]]
  ELSE [p EXCEPT !.at = "thrown"]
\* Mutant: a remote that worked once is the only one.
AfterRetriesThrown(p) == IF p.retry = 3 THEN [p EXCEPT !.at = "thrown"] ELSE NextTry(p)
AfterRetries(p) == NextTry(p)
CurrentAfter(p) == IF p.source = 0 THEN thisRemote ELSE IF p.at = "thrown" THEN "null" ELSE p.remote
Try(c, p) == publishes' = [publishes EXCEPT ![c] = AfterRetries(p)] /\ thisRemote' = CurrentAfter(AfterRetries(p))

\* publish(): the value is made at the time of the call.
PublishBegins(c) ==
  /\ publishes[c].at = "none" /\ reading.at = "none" /\ Try(c, [NoPublish EXCEPT !.made = publishTime])
  /\ UNCHANGED <<publishTime, clockOffset, remoteData, remoteFails>>
\* The time of the client goes with each request.
\* Mutant: it is taken once.
StampOnce(p) == IF p.tried = {} THEN ClientNow ELSE p.stamp
Stamp(p) == ClientNow
PublishSends(c) ==
  /\ publishes[c].at = "send"
  /\ publishes' = [publishes EXCEPT ![c] = [@ EXCEPT !.at = "sent", !.stamp = Stamp(publishes[c]), !.sent = publishTime,
                                                     !.tried = @ \cup {publishes[c].remote}]]
  /\ UNCHANGED <<publishTime, clockOffset, thisRemote, remoteData, remoteFails>>
\* processBulk(): the timestamp of the value is shifted by the difference of the clocks.
ServerTimestamp(p) == (p.made + clockOffset) - p.stamp + publishTime
StoredAt(c, p) == remoteData \cup {[call |-> c, remote |-> p.remote, timestamp |-> ServerTimestamp(p), made |-> p.made]}
PublishStored(c) ==
  /\ publishes[c].at = "sent" /\ publishes[c].remote # "null"
  /\ remoteData' = StoredAt(c, publishes[c])
  /\ publishes' = [publishes EXCEPT ![c].at = "returned"]
  /\ UNCHANGED <<publishTime, clockOffset, thisRemote, remoteFails>>
\* The request is lost, or its answer.
PublishLost(c, stored) ==
  /\ publishes[c].at = "sent" /\ (stored => publishes[c].remote # "null" /\ Cardinality(remoteData) < MaxCopies)
  /\ publishes[c].remote = "null" \/ remoteFails < MaxRemoteFails
  /\ remoteFails' = IF publishes[c].remote = "null" THEN remoteFails ELSE remoteFails + 1
  /\ remoteData' = IF stored THEN StoredAt(c, publishes[c]) ELSE remoteData
  /\ Try(c, publishes[c])
  /\ UNCHANGED <<publishTime, clockOffset>>
\* A request takes one unit of time at most.
PublishTick ==
  /\ publishTime < MaxPublishTime /\ publishTime' = publishTime + 1
  /\ \A c \in Publishes : publishes[c].at = "sent" => publishes[c].sent = publishTime
  /\ reading.at = "answered" => reading.sent = publishTime
  /\ UNCHANGED <<clockOffset, thisRemote, publishes, remoteData, remoteFails>>

-----------------------------------------------------------------------------
\* get() with metadata: the remote answers with its timestamp and the values, which the client shifts to its clock.
\* One call, made while nothing is being published.
GetAnswered ==
  /\ reading.at = "none" /\ \A c \in Publishes : publishes[c].at \in {"none", "returned", "thrown"}
  /\ \E d \in remoteData : reading' = [at |-> "answered", sent |-> publishTime, timestamp |-> publishTime, value |-> d, got |-> 0]
\* Mutant: the difference is added.
ToClientAdds(t, diff) == t + diff
ToClient(t, diff) == t - diff
GetReturns ==
  /\ reading.at = "answered"
  /\ reading' = [reading EXCEPT !.at = "returned", !.got = ToClient(reading.value.timestamp, reading.timestamp - ClientNow)]

-----------------------------------------------------------------------------
PublisherInit ==
  /\ publishTime = 0 /\ clockOffset \in ClockOffsets /\ thisRemote = "null"
  /\ publishes = [c \in Publishes |-> NoPublish] /\ remoteData = {} /\ remoteFails = 0
  /\ reading = [at |-> "none", sent |-> 0, timestamp |-> 0, value |-> [made |-> 0], got |-> 0]
PublisherNext ==
  \/ PublishTick /\ UNCHANGED reading
  \/ \E c \in Publishes : (PublishBegins(c) \/ PublishSends(c) \/ PublishStored(c) \/ \E b \in BOOLEAN : PublishLost(c, b)) /\ UNCHANGED reading
  \/ (GetAnswered \/ GetReturns) /\ UNCHANGED publishVars

-----------------------------------------------------------------------------
\* publish() returns only if a remote stored the value, and throws only after each of the remotes was asked, also
\* when another call changes the current remote meanwhile.
PublishedOrAllAsked ==
  \A c \in Publishes :
    /\ publishes[c].at = "returned" => \E d \in remoteData : d.call = c
    /\ publishes[c].at = "thrown" => ToSet(Remotes) \subseteq publishes[c].tried

\* The timestamp under which a value is stored is the time at which it was made, on the clock of the server, plus the
\* time that one request takes at most: neither the offset of the clock nor the time of the retries enters.
TimestampExact == \A d \in remoteData : d.timestamp - d.made \in 0 .. 1

\* What is read back has the timestamp that the client gave it, on its own clock, up to the time of the two requests.
ReadBackExact == reading.at = "returned" => reading.got - (reading.value.made + clockOffset) \in 0 .. 2

-----------------------------------------------------------------------------
(****************************************************************************)
(* The graphs of the artifacts application that follow the nodes: the       *)
(* values kept in the browser (nodes/frontend/timeseries_collection.js),    *)
(* loaded for a period and then polled (nodes/frontend/view_dashboard.vue), *)
(* and the graph that looks for the point below the mouse                   *)
(* (vue/components/graph/plot.vue).                                         *)
(*                                                                          *)
(* One key, whose values are posted in the order of their timestamps and    *)
(* are few enough not to be sampled; the timestamp of a value stands for    *)
(* the value.  The browser knows the time of the server to one unit.        *)
(****************************************************************************)
CONSTANTS
  Periods,          \* periods the user chooses from
  MaxGraphTime,     \* bound: time of the server
  MaxPeriodChanges, \* bound: periods chosen
  MaxFetchFails,    \* bound: requests that fail
  PlotSeries,       \* series to plot: sequences of <<x, y>>, any order
  MaxEntries        \* points of a series that are drawn

VARIABLES
  graphTime,      \* time of the server
  graphPoints,    \* timestamps of the values on the server
  graphPeriod,    \* the period chosen
  collection,     \* data of the collection
  periodLimit,    \* its limit, 0 for none
  instanceCounter,
  graphTimers,    \* the instances whose timer is armed; this.timeout is the last one
  polls,          \* requests of the timers: the instance, what is asked, the answer
  loads,          \* calls of triggerFetch() that wait for the lock
  loadRequest,    \* the request of the one that holds it, or none
  graphMounted,   \* "mounted", "closed" or "closed while loading"
  graphFailed,    \* the last load failed
  graphBudget,    \* changes and failures so far
  plotInput,      \* the series of a plot and the place of the mouse
  plotAnswer,     \* the point that is selected: its index, or 0
  plotDrawn       \* the points that are drawn: their place, scaled to the size of the plot

graphVars == <<graphTime, graphPoints, graphPeriod, collection, periodLimit, instanceCounter, graphTimers, polls, loads,
               loadRequest, graphMounted, graphFailed, graphBudget>>
plotVars == <<plotInput, plotAnswer, plotDrawn>>
liveVars == <<graphVars, plotVars>>

NoLoad == [at |-> "none", after |-> 0, before |-> 0, data |-> <<>>]
RequestAfter(after, before) == [at |-> "sent", after |-> after, before |-> before, data |-> <<>>]
\* fetchData(): the values after and before, as the backend gives them when it is asked.
Served(r) == [r EXCEPT !.at = "served", !.data = SetToSortSeq({t \in graphPoints : t > r.after /\ t <= r.before}, <)]

-----------------------------------------------------------------------------
(* The collection.                                                          *)

\* add(): what lies between the first and the last of the new values is replaced.
IndexStart(data, new) == IF \E i \in DOMAIN data : data[i] >= Head(new)
                           THEN CHOOSE i \in DOMAIN data : data[i] >= Head(new) /\ \A j \in 1 .. i - 1 : data[j] < Head(new)
                           ELSE 0
IndexEnd(data, new) == Cardinality({i \in DOMAIN data : data[i] <= Last(new)})
DeleteCount(start, end) == IF end < start THEN 0 ELSE end - start + 1
Spliced(data, new) ==
  LET start == IndexStart(data, new)
      from == IF start = 0 THEN Len(data) + 1 ELSE start
      count == DeleteCount(start, IndexEnd(data, new))
  IN  SubSeq(data, 1, from - 1) \o new \o SubSeq(data, from + count, Len(data))
\* _updateLimits(): the values older than the period of the newest are dropped.
Limited(data) ==
  IF periodLimit = 0 \/ Len(data) < 2 \/ Last(data) - Head(data) <= periodLimit THEN data
  ELSE SelectSeq(data, LAMBDA t : t >= Last(data) - periodLimit)
Added(data, new) == IF new = <<>> THEN data ELSE Limited(Spliced(data, new))
NewestTime == IF collection = <<>> THEN 0 ELSE Last(collection)

\* reset(): the data goes, the timer is stopped, and whatever was started before belongs to another instance.
Reset(limit) ==
  /\ collection' = <<>> /\ periodLimit' = limit /\ instanceCounter' = instanceCounter + 1
  /\ graphTimers' = IF graphTimers = <<>> THEN <<>> ELSE Front(graphTimers)
\* Mutant: the answer is taken whatever happened meanwhile.
StillCurrentAlways(instance) == TRUE
StillCurrent(instance) == instance = instanceCounter

-----------------------------------------------------------------------------
GraphStep == plotInput.series = <<>> /\ UNCHANGED plotVars
Tick(posted) ==
  /\ GraphStep /\ graphTime < MaxGraphTime /\ graphTime' = graphTime + 1
  /\ graphPoints' = IF posted THEN graphPoints \cup {graphTime'} ELSE graphPoints
  /\ UNCHANGED <<graphPeriod, collection, periodLimit, instanceCounter, graphTimers, polls, loads, loadRequest,
                 graphMounted, graphFailed, graphBudget>>
\* triggerConditionsChange: another period, or other graphs in sight.
ChangePeriod(p) ==
  /\ GraphStep /\ graphMounted = "mounted" /\ graphBudget.changes < MaxPeriodChanges /\ p # graphPeriod
  /\ graphPeriod' = p /\ loads' = loads + 1 /\ graphBudget' = [graphBudget EXCEPT !.changes = @ + 1]
  /\ UNCHANGED <<graphTime, graphPoints, collection, periodLimit, instanceCounter, graphTimers, polls, loadRequest,
                 graphMounted, graphFailed>>
\* useLastPeriod(): from the time of the server as the browser estimates it.
LoadBegins(now) ==
  /\ GraphStep /\ loads > 0 /\ loadRequest = NoLoad /\ loads' = loads - 1
  /\ Reset(graphPeriod)
  /\ loadRequest' = RequestAfter(now - graphPeriod, now)
  /\ UNCHANGED <<graphTime, graphPoints, graphPeriod, polls, graphMounted, graphFailed, graphBudget>>
LoadServed ==
  /\ GraphStep /\ loadRequest.at = "sent" /\ loadRequest' = Served(loadRequest)
  /\ UNCHANGED <<graphTime, graphPoints, graphPeriod, collection, periodLimit, instanceCounter, graphTimers, polls, loads,
                 graphMounted, graphFailed, graphBudget>>
LoadReplied ==
  /\ GraphStep /\ loadRequest.at = "served" /\ loadRequest' = NoLoad
  /\ collection' = Added(collection, loadRequest.data)
  /\ graphTimers' = Append(graphTimers, instanceCounter) /\ graphFailed' = FALSE
  /\ UNCHANGED <<graphTime, graphPoints, graphPeriod, periodLimit, instanceCounter, polls, loads, graphMounted, graphBudget>>
\* Without data add() throws; the lock then fails the calls that wait as well.
LoadFails ==
  /\ GraphStep /\ loadRequest.at = "sent" /\ graphBudget.fails < MaxFetchFails
  /\ graphBudget' = [graphBudget EXCEPT !.fails = @ + 1]
  /\ loadRequest' = NoLoad /\ loads' = 0 /\ graphFailed' = TRUE
  /\ UNCHANGED <<graphTime, graphPoints, graphPeriod, collection, periodLimit, instanceCounter, graphTimers, polls, graphMounted>>

\* refreshPeriodically(): the timer asks for what is newer than the newest value.
PollBegins(i, now) ==
  /\ GraphStep /\ i \in DOMAIN graphTimers
  /\ graphTimers' = RemoveAt(graphTimers, i)
  /\ polls' = polls \cup {[instance |-> graphTimers[i], request |-> RequestAfter(NewestTime, Max({now, NewestTime + 1}))]}
  /\ UNCHANGED <<graphTime, graphPoints, graphPeriod, collection, periodLimit, instanceCounter, loads, loadRequest,
                 graphMounted, graphFailed, graphBudget>>
PollServed(p) ==
  /\ GraphStep /\ p.request.at = "sent"
  /\ polls' = (polls \ {p}) \cup {[p EXCEPT !.request = Served(@)]}
  /\ UNCHANGED <<graphTime, graphPoints, graphPeriod, collection, periodLimit, instanceCounter, graphTimers, loads,
                 loadRequest, graphMounted, graphFailed, graphBudget>>
PollEnds(p, data) ==
  /\ polls' = polls \ {p}
  /\ IF StillCurrent(p.instance)
       THEN collection' = Added(collection, data) /\ graphTimers' = Append(graphTimers, p.instance)
       ELSE UNCHANGED <<collection, graphTimers>>
PollReplied(p) ==
  /\ GraphStep /\ p.request.at = "served" /\ PollEnds(p, p.request.data)
  /\ UNCHANGED <<graphTime, graphPoints, graphPeriod, periodLimit, instanceCounter, loads, loadRequest, graphMounted,
                 graphFailed, graphBudget>>
PollFails(p) ==
  /\ GraphStep /\ p.request.at = "sent" /\ graphBudget.fails < MaxFetchFails
  /\ graphBudget' = [graphBudget EXCEPT !.fails = @ + 1] /\ PollEnds(p, <<>>)
  /\ UNCHANGED <<graphTime, graphPoints, graphPeriod, periodLimit, instanceCounter, loads, loadRequest, graphMounted, graphFailed>>
\* beforeUnmount: inputs.close().
LeavePage ==
  /\ GraphStep /\ graphMounted = "mounted"
  /\ graphMounted' = IF loads > 0 \/ loadRequest # NoLoad THEN "closed while loading" ELSE "closed"
  /\ Reset(0)
  /\ UNCHANGED <<graphTime, graphPoints, graphPeriod, polls, loads, loadRequest, graphFailed, graphBudget>>

-----------------------------------------------------------------------------
(* The point below the mouse.                                               *)

\* valueSorted
PlotSorted == SortSeq(plotInput.series, LAMBDA a, b : a[1] < b[1])
\* findClosestX(): by halves, then the nearer of the two around; indexes from 0 as in the code.
RECURSIVE Halve(_, _, _, _)
Halve(values, x, low, high) ==
  IF low > high THEN low
  ELSE LET middle == (low + high) \div 2
           at == values[middle + 1][1]
       IN  CASE at = x -> middle
             [] at < x -> Halve(values, x, middle + 1, high)
             [] OTHER -> Halve(values, x, low, middle - 1)
\* Mutant: always the one above.
NearerAbove(values, x, i) == i
Nearer(values, x, i) == IF x - values[i][1] < values[i + 1][1] - x THEN i - 1 ELSE i
FindClosestX(values, x) ==
  LET i == Halve(values, x, 0, Len(values) - 1)
  IN  CASE i <= 0 -> 0 [] i >= Len(values) -> Len(values) - 1 [] OTHER -> Nearer(values, x, i)
MouseMove ==
  /\ plotInput.series # <<>> /\ plotDrawn # <<>> /\ plotAnswer = 0
  /\ plotAnswer' = FindClosestX(PlotSorted, plotInput.mouse) + 1
  /\ UNCHANGED <<graphVars, plotInput, plotDrawn>>

\* The watcher of value, plotMinY and plotMaxY: from 0 unless the values are far above it.
ValuesMinY == Min({PlotSorted[i][2] : i \in DOMAIN PlotSorted})
PlotMaxY == Max({PlotSorted[i][2] : i \in DOMAIN PlotSorted})
\* Mutant: from 0 whenever the values spread wide.
PlotMinYZero == IF PlotMaxY - ValuesMinY > ValuesMinY THEN 0 ELSE ValuesMinY
PlotMinY == IF PlotMaxY - ValuesMinY > ValuesMinY THEN Min({0, ValuesMinY}) ELSE ValuesMinY
\* series(): at most so many points, at equal distances; the scale is taken as exact, and a flat series,
\* whose scale is infinite, has no place.
Increment == IF Len(PlotSorted) > MaxEntries THEN <<Len(PlotSorted), MaxEntries>> ELSE <<1, 1>>
DrawnIndexes == [k \in 1 .. IF Len(PlotSorted) > MaxEntries THEN MaxEntries ELSE Len(PlotSorted) |->
                   (2 * (k - 1) * Increment[1] + Increment[2]) \div (2 * Increment[2]) + 1]
DrawSeries ==
  /\ plotInput.series # <<>> /\ plotDrawn = <<>>
  /\ plotDrawn' = [k \in DOMAIN DrawnIndexes |->
                     [index |-> DrawnIndexes[k], above |-> PlotSorted[DrawnIndexes[k]][2] - PlotMinY, of |-> PlotMaxY - PlotMinY]]
  /\ UNCHANGED <<graphVars, plotInput, plotAnswer>>

-----------------------------------------------------------------------------
LiveInit ==
  /\ graphTime = 1 /\ graphPoints = {1} /\ graphPeriod \in Periods
  /\ collection = <<>> /\ periodLimit = 0 /\ instanceCounter = 1 /\ graphTimers = <<>> /\ polls = {}
  /\ loads = 1 /\ loadRequest = NoLoad /\ graphMounted = "mounted" /\ graphFailed = FALSE
  /\ graphBudget = [changes |-> 0, fails |-> 0]
  /\ plotInput \in {[series |-> <<>>, mouse |-> 0]} \cup
       (IF graphPeriod = Min(Periods) THEN [series : PlotSeries, mouse : 0 .. 7] ELSE {})
  /\ plotAnswer = 0 /\ plotDrawn = <<>>

LiveNext ==
  \/ \E posted \in BOOLEAN : Tick(posted)
  \/ \E p \in Periods : ChangePeriod(p)
  \/ \E now \in graphTime - 1 .. graphTime : LoadBegins(now) \/ \E i \in DOMAIN graphTimers : PollBegins(i, now)
  \/ LoadServed \/ LoadReplied \/ LoadFails \/ LeavePage
  \/ \E p \in polls : PollServed(p) \/ PollReplied(p) \/ PollFails(p)
  \/ DrawSeries \/ MouseMove

-----------------------------------------------------------------------------
\* The values displayed are the ones of the server, all of them between the oldest and the newest displayed,
\* once each and in order, within the period, whatever periods are chosen while requests are on their way.
NoGap ==
  graphMounted = "mounted" =>
    /\ \A i \in 1 .. Len(collection) - 1 : collection[i] < collection[i + 1]
    /\ collection # <<>> =>
         /\ ToSet(collection) = {t \in graphPoints : Head(collection) <= t /\ t <= NewestTime}
         /\ NewestTime - Head(collection) <= periodLimit

\* Once a period is loaded exactly one timer or one of its requests is alive for it, whatever fails and
\* however often the period is changed: the graph neither stops nor is polled twice.  Once the page is left
\* none is armed any more, unless it was left while a period was being loaded.
OnePoller ==
  LET alive == Len(graphTimers) + Cardinality({p \in polls : p.instance = instanceCounter})
  IN  CASE graphMounted = "mounted" -> alive <= 1 /\ ((loads = 0 /\ loadRequest = NoLoad /\ ~graphFailed) => alive = 1)
        [] graphMounted = "closed" -> alive = 0
        [] OTHER -> TRUE

\* The point that is selected is one of the nearest to the mouse, wherever the mouse is, in whatever order
\* the points are given and however many share a place (plot.vue, findClosestX()).
ClosestSelected ==
  plotAnswer # 0 =>
    \A i \in DOMAIN PlotSorted :
      LET distance(j) == IF PlotSorted[j][1] > plotInput.mouse THEN PlotSorted[j][1] - plotInput.mouse
                         ELSE plotInput.mouse - PlotSorted[j][1]
      IN  distance(plotAnswer) <= distance(i)

\* What is drawn of a series lies inside the plot, in order, no point twice, the first one always, however
\* many points there are and whatever their signs.
DrawnInside ==
  plotDrawn # <<>> =>
    /\ plotDrawn[1].index = 1
    /\ \A k \in DOMAIN plotDrawn : 0 <= plotDrawn[k].above /\ plotDrawn[k].above <= plotDrawn[k].of
    /\ \A k \in 1 .. Len(plotDrawn) - 1 : plotDrawn[k].index < plotDrawn[k + 1].index

-----------------------------------------------------------------------------
(****************************************************************************)
(* The dashboard application: an instance that polls the data of its plugin *)
(* and displays it as tiles (dashboard/frontend/instance.vue), the backend  *)
(* that serves it from a cache (dashboard/backend/app.js), and the plugin   *)
(* that reads values by SNMP (plugins/snmp/snmp_backend.js).                *)
(*                                                                          *)
(* The data of the plugin is a version, which grows.  The cache (core/      *)
(* cache.js, see Cache.tla) gives a version that is at least the one it     *)
(* gave before and the one of the last setDirty().                          *)
(****************************************************************************)
CONSTANTS
  MaxVersion,     \* bound: versions of the data
  MaxTilePolls,   \* bound: requests of the instance
  MaxTileEvents,  \* bound: events of the user
  SnmpConfigs,    \* sequences of items: oid, ttl (0 if absent), oids used by operations; an oid is <<leading dot, number>>
  DefaultTtl,     \* ttl of an item without one
  MaxSnmpTime     \* bound: time

VARIABLES
  pluginVersion,  \* version of the data of the plugin
  cacheVersion,   \* the oldest version the cache may still give
  tileTimer,      \* handleTimeout is set
  tilePolls,      \* requests for data under way: the version that was the oldest when it began, the answer or -1
  tilePolled,     \* number of requests
  tileShown,      \* version that the tile displays, 0 for none
  tileNewest,     \* newest version that was displayed
  tileEvents,     \* events on their way, and number of events
  tileLink,       \* whether the tile has a link, is active, its colour and whether it has a message
  tileMounted,
  snmpConfig,     \* snmp.array
  snmpTime,
  snmpCache,      \* oids of one ttl -> time of their values, -1 for none
  snmpSessions,   \* ttls whose session is open
  snmpFetch       \* fetch(): its step, when it began, the ttls it waits for, oid -> time of the value it has

tileVars == <<pluginVersion, cacheVersion, tileTimer, tilePolls, tilePolled, tileShown, tileNewest, tileEvents, tileLink, tileMounted>>
snmpVars == <<snmpConfig, snmpTime, snmpCache, snmpSessions, snmpFetch>>
dashboardVars == <<tileVars, snmpVars>>

-----------------------------------------------------------------------------
(* The instance.                                                            *)

NoLink == [link |-> FALSE, active |-> TRUE, color |-> "auto", message |-> FALSE]
PluginUpdate ==
  /\ pluginVersion < MaxVersion /\ pluginVersion' = pluginVersion + 1
  /\ UNCHANGED <<cacheVersion, tileTimer, tilePolls, tilePolled, tileShown, tileNewest, tileEvents, tileLink, tileMounted>>
TileRequest == [from |-> cacheVersion, data |-> -1]
\* mounted() or the timer: fetch() asks for the data.
TileFetch ==
  /\ tileTimer /\ tilePolled < MaxTilePolls
  /\ tileTimer' = FALSE /\ tilePolled' = tilePolled + 1 /\ tilePolls' = Append(tilePolls, TileRequest)
  /\ UNCHANGED <<pluginVersion, cacheVersion, tileShown, tileNewest, tileEvents, tileLink, tileMounted>>
\* The handler of /data: cache.get().
TileServed(i, v) ==
  /\ i \in DOMAIN tilePolls /\ tilePolls[i].data = -1 /\ v \in Max({tilePolls[i].from, cacheVersion}) .. pluginVersion
  /\ tilePolls' = [tilePolls EXCEPT ![i].data = v] /\ cacheVersion' = v
  /\ UNCHANGED <<pluginVersion, tileTimer, tilePolled, tileShown, tileNewest, tileEvents, tileLink, tileMounted>>
\* assignTilesData(): a tile that is new takes the link of the description, and the timer is set again.
TileReplied(i) ==
  /\ i \in DOMAIN tilePolls /\ tilePolls[i].data # -1
  /\ tileShown' = tilePolls[i].data /\ tileNewest' = Max({tileNewest, tilePolls[i].data})
  /\ tileLink' = IF tileShown = 0 THEN [tileLink EXCEPT !.link = TRUE] ELSE tileLink
  /\ tilePolls' = RemoveAt(tilePolls, i) /\ tileTimer' = TRUE
  /\ UNCHANGED <<pluginVersion, cacheVersion, tilePolled, tileEvents, tileMounted>>
\* A request that fails is logged; the timer is not set again.
TileFails(i) ==
  /\ i \in DOMAIN tilePolls /\ tilePolls' = RemoveAt(tilePolls, i)
  /\ UNCHANGED <<pluginVersion, cacheVersion, tileTimer, tilePolled, tileShown, tileNewest, tileEvents, tileLink, tileMounted>>
\* handleEvent(); its handler runs the event of the plugin, then setDirty().
TileEvent ==
  /\ tileShown > 0 /\ tileEvents.sent + tileEvents.done < MaxTileEvents /\ tileEvents' = [tileEvents EXCEPT !.sent = @ + 1]
  /\ UNCHANGED <<pluginVersion, cacheVersion, tileTimer, tilePolls, tilePolled, tileShown, tileNewest, tileLink, tileMounted>>
\* Mutant: what the event changed is fetched at once.
TileEventDoneFetches ==
  /\ tileEvents.sent > 0 /\ tileEvents' = [sent |-> tileEvents.sent - 1, done |-> tileEvents.done + 1]
  /\ pluginVersion < MaxVersion /\ pluginVersion' = pluginVersion + 1 /\ cacheVersion' = pluginVersion + 1
  /\ tilePolls' = Append(tilePolls, TileRequest)
  /\ UNCHANGED <<tileTimer, tilePolled, tileShown, tileNewest, tileLink, tileMounted>>
TileEventDone ==
  /\ tileEvents.sent > 0 /\ tileEvents' = [sent |-> tileEvents.sent - 1, done |-> tileEvents.done + 1]
  /\ pluginVersion < MaxVersion /\ pluginVersion' = pluginVersion + 1 /\ cacheVersion' = pluginVersion + 1
  /\ UNCHANGED <<tileTimer, tilePolls, tilePolled, tileShown, tileNewest, tileLink, tileMounted>>
\* handleError(), handleStatus(): the colour, and the message or none.
TileStatus(color, message) ==
  /\ tileShown > 0 /\ tileLink' = [tileLink EXCEPT !.color = color, !.message = message]
  /\ UNCHANGED <<pluginVersion, cacheVersion, tileTimer, tilePolls, tilePolled, tileShown, tileNewest, tileEvents, tileMounted>>
\* handleLink(): the answer of /check-url tells whether the tile is active.
TileChecked(valid) ==
  /\ tileLink.link /\ tileLink' = [tileLink EXCEPT !.active = valid]
  /\ UNCHANGED <<pluginVersion, cacheVersion, tileTimer, tilePolls, tilePolled, tileShown, tileNewest, tileEvents, tileMounted>>
\* beforeUnmount(): only a timer that is set is cleared.
TileUnmount ==
  /\ tileMounted /\ tileMounted' = FALSE /\ tileTimer' = FALSE
  /\ UNCHANGED <<pluginVersion, cacheVersion, tilePolls, tilePolled, tileShown, tileNewest, tileEvents, tileLink>>

-----------------------------------------------------------------------------
(* The plugin.                                                              *)

\* normalizeOid(): without the leading dot.
\* Mutant: the text of the oid as it is.
NormalizeOidRaw(oid) == oid
NormalizeOid(oid) == <<FALSE, oid[2]>>
TtlOf(item) == IF item.ttl = 0 THEN DefaultTtl ELSE item.ttl
OidsOf(item) == {NormalizeOid(item.oid)} \cup {NormalizeOid(o) : o \in item.ops}
SnmpOids == UNION {OidsOf(snmpConfig[i]) : i \in DOMAIN snmpConfig}
\* snmp.oidsByTtl: each oid has the least of the ttls of the items that use it.
\* Mutant: the one of the last of these items.
TtlOfOidLast(oid) == TtlOf(snmpConfig[Max({i \in DOMAIN snmpConfig : oid \in OidsOf(snmpConfig[i])})])
TtlOfOid(oid) == Min({TtlOf(snmpConfig[i]) : i \in {j \in DOMAIN snmpConfig : oid \in OidsOf(snmpConfig[j])}})
OidsWith(ttl) == {o \in SnmpOids : TtlOfOid(o) = ttl}
SnmpTtls == {TtlOfOid(o) : o \in SnmpOids}

\* fetch(): one cache.get("snmp.oid") for each ttl; what the cache has is taken, the others open a session.
\* The next call waits for the sessions of a call that failed.
SnmpCached(ttl) == ttl \in DOMAIN snmpCache /\ snmpCache[ttl] # -1 /\ snmpTime <= snmpCache[ttl] + ttl
SnmpFetchBegins ==
  /\ snmpConfig # <<>> /\ snmpFetch.at # "fetching" /\ snmpSessions = {}
  /\ snmpSessions' = {t \in SnmpTtls : ~SnmpCached(t)}
  /\ snmpFetch' = [at |-> IF snmpSessions' = {} THEN "returned" ELSE "fetching", began |-> snmpTime,
                   values |-> [o \in {p \in SnmpOids : SnmpCached(TtlOfOid(p))} |-> snmpCache[TtlOfOid(o)]]]
  /\ UNCHANGED <<snmpConfig, snmpTime, snmpCache>>
\* get() of a session: the values, or an error, which fails fetch() at once while the other sessions go on.
\* getAndClose(): the session is closed whatever happened.
SnmpAnswered(ttl, ok) ==
  /\ ttl \in snmpSessions /\ snmpSessions' = snmpSessions \ {ttl}
  /\ snmpCache' = [t \in DOMAIN snmpCache \cup {ttl} |-> IF t = ttl THEN (IF ok THEN snmpTime ELSE -1) ELSE snmpCache[t]]
  /\ snmpFetch' = IF snmpFetch.at # "fetching" THEN snmpFetch
                  ELSE IF ~ok THEN [snmpFetch EXCEPT !.at = "failed"]
                  ELSE [snmpFetch EXCEPT !.at = IF snmpSessions = {ttl} THEN "returned" ELSE @,
                                         !.values = [o \in DOMAIN @ \cup OidsWith(ttl) |-> IF o \in OidsWith(ttl) THEN snmpTime ELSE @[o]]]
  /\ UNCHANGED <<snmpConfig, snmpTime>>
SnmpTick == snmpTime < MaxSnmpTime /\ snmpTime' = snmpTime + 1 /\ UNCHANGED <<snmpConfig, snmpCache, snmpSessions, snmpFetch>>

-----------------------------------------------------------------------------
TileInit ==
  /\ pluginVersion = 1 /\ cacheVersion = 1 /\ tileTimer = TRUE /\ tilePolls = <<>> /\ tilePolled = 0
  /\ tileShown = 0 /\ tileNewest = 0 /\ tileEvents = [sent |-> 0, done |-> 0] /\ tileLink = NoLink /\ tileMounted = TRUE
DashboardInit ==
  /\ TileInit
  /\ snmpConfig \in SnmpConfigs \cup {<<>>} /\ snmpTime = 0 /\ snmpCache = <<>> /\ snmpSessions = {}
  /\ snmpFetch = [at |-> "none", began |-> 0, values |-> <<>>]
\* An instance, or a plugin on its own.
DashboardNext ==
  \/ /\ snmpConfig = <<>> /\ UNCHANGED snmpVars
     /\ \/ PluginUpdate \/ TileFetch \/ TileEvent \/ TileEventDone \/ TileUnmount
        \/ \E i \in DOMAIN tilePolls : TileReplied(i) \/ TileFails(i) \/ \E v \in 1 .. MaxVersion : TileServed(i, v)
        \/ \E c \in {"green", "red"}, m \in BOOLEAN : TileStatus(c, m)
        \/ \E b \in BOOLEAN : TileChecked(b)
  \/ /\ snmpConfig # <<>> /\ UNCHANGED tileVars
     /\ \/ SnmpFetchBegins \/ SnmpTick
        \/ \E t \in snmpSessions, ok \in BOOLEAN : SnmpAnswered(t, ok)

-----------------------------------------------------------------------------
\* What a tile displays never goes back to an older version, also with events and after the page was left: there is
\* one request at a time and the next one begins after its answer.
TileNeverOlder == tileShown = tileNewest

\* fetch() returns a value for each of the oids that an item and its operations use, and none is older than the time
\* to live of an item that uses it.
ValuesFresh ==
  snmpFetch.at = "returned" =>
    \A i \in DOMAIN snmpConfig : \A o \in {<<FALSE, snmpConfig[i].oid[2]>>} \cup {<<FALSE, p[2]>> : p \in snmpConfig[i].ops} :
      o \in DOMAIN snmpFetch.values /\ snmpFetch.began - snmpFetch.values[o] <= TtlOf(snmpConfig[i])


-----------------------------------------------------------------------------
\* A value is published or every remote was asked, with the time of the server; the graph follows the
\* values without a gap and with one poller; the dashboard shows what it fetched.
NodeClientsSafe ==
  /\ PublishedOrAllAsked
  /\ TimestampExact
  /\ ReadBackExact
  /\ NoGap
  /\ OnePoller
  /\ ClosestSelected
  /\ DrawnInside
  /\ TileNeverOlder
  /\ ValuesFresh
=============================================================================
