--------------------------- MODULE ProjectsService ---------------------------
(* The service behind the projects page (src/projects/projects_service.cpp).  A refresh lists the  *)
(* owner's repositories page by page, asks each for its workflow runs and then shows them all at   *)
(* once; after it come the runners of every project and the jobs and artifacts of the selected     *)
(* one.  All requests go through one queue with a few in flight, are answered in any order, and    *)
(* those of one refresh may still be under way when the next one begins.                           *)
(* Everything runs on the GUI thread: an event is one step, with all the calls it makes.  A        *)
(* repository is a number, its key's place in the alphabet; a run stands for its identifier and    *)
(* all that is read with it; a shown metric is represented by the run it was computed from.        *)
(* Bodies repeated by the ETag cache are covered because any answer is possible at any time.       *)
EXTENDS Integers, Sequences, FiniteSets, SequencesExt

CONSTANTS
    PublicRepos, PrivateRepos,  \* keys of the owner's repositories
    Runs,                       \* identifiers of workflow runs
    UpdatedAt,                  \* the time of a run, by identifier
    Runners,                    \* identifiers of self-hosted runners
    Tokens,                     \* a subset of BOOLEAN: whether GITHUB_TOKEN may be set
    MaxConcurrent,              \* kMaximumConcurrentRequests
    AuthenticatedPoll, AnonymousPoll, Hour, Budget,  \* in steps of the clock
    Delays,                     \* rate-limit delays a failed reply may ask for, 0 for none
    MaxPages,                   \* bound: pages of one listing
    MaxOutstanding,             \* bound: the user selects while at most this many requests are outstanding
    MaxCount                    \* bound: where the count of a refresh's requests saturates

Repos == PublicRepos \cup PrivateRepos
NoRepo == 0
NoRun == 0
Unknown == -1

ASSUME RepositoriesAreKeys == Repos \subseteq Nat \ {NoRepo} /\ IsFiniteSet(Repos)
ASSUME RunsAreNumbers == Runs \subseteq Nat \ {NoRun} /\ UpdatedAt \in [Runs -> Nat]
ASSUME TokensAreSettings == Tokens \subseteq BOOLEAN /\ Tokens # {}
ASSUME SizesAreNumbers ==
    /\ {MaxConcurrent, AuthenticatedPoll, AnonymousPoll, Hour, Budget, MaxPages} \subseteq Nat \ {0}
    /\ {MaxOutstanding, MaxCount} \subseteq Nat
    /\ Delays \subseteq Nat

VARIABLES
    service,    \* the members of ProjectsService
    observed    \* not in the program: what the properties need to remember
projectsVars == <<service, observed>>

-----------------------------------------------------------------------------
(* Requests and the rows they fill *)

(* The objects that the replies of one loadRuns() or loadRunners() share, by a number that is      *)
(* free when they are made: rows and failed.                                                       *)
EmptyCell == [rows |-> <<>>, failed |-> FALSE]
WithCell(cells, c) == [d \in DOMAIN cells \cup {c} |-> IF d = c THEN EmptyCell ELSE cells[d]]

Listing(kind, page, found) == [kind |-> kind, page |-> page, found |-> found]
AboutRepo(kind, repo, cell) == [kind |-> kind, repo |-> repo, cell |-> cell]
AboutRun(kind, repo, run) == [kind |-> kind, repo |-> repo, run |-> run]

(* The elements of S in the order R: each has its place after those that come before it. *)
Ordered(S, R) ==
    [n \in 1 .. Cardinality(S) |-> CHOOSE x \in S : Cardinality({y \in S : <<y, x>> \in R}) = n - 1]

Outstanding(s) == ToSet(s.active) \cup ToSet(s.queue)
InUse(s) == {r.cell : r \in {q \in Outstanding(s) : q.kind \in {"runs", "runners"}}}
Lowest(S) == CHOOSE i \in S : \A j \in S : i <= j
Highest(S) == CHOOSE i \in S : \A j \in S : j <= i
FreeCell(s) == Lowest((1 .. Cardinality(InUse(s)) + 1) \ InUse(s))

(* An object no closure refers to any more is gone. *)
Collected(s) == [s EXCEPT !.cells = [c \in InUse(s) |-> @[c]]]

(* startRequests(): as many of the waiting requests as there is room for, in order. *)
StartRequests(s) ==
    LET room == MaxConcurrent - Len(s.active)
        n == IF room < Len(s.queue) THEN room ELSE Len(s.queue)
        counted == IF s.count + n < MaxCount THEN s.count + n ELSE MaxCount
    IN  [s EXCEPT !.active = @ \o SubSeq(s.queue, 1, n),
                  !.queue = SubSeq(@, n + 1, Len(@)),
                  !.count = IF s.counting THEN counted ELSE @]

(* request(), for several requests in a row. *)
Request(s, requests) == StartRequests([s EXCEPT !.queue = @ \o requests])

-----------------------------------------------------------------------------
(* The end of a refresh *)

(* pollIntervalMs() *)
PollInterval(token, count) ==
    LET measured == IF count < 1 THEN 1 ELSE count
        budgeted == (measured * Hour + Budget - 1) \div Budget
    IN  IF token THEN AuthenticatedPoll ELSE IF budgeted > AnonymousPoll THEN budgeted ELSE AnonymousPoll

(* setInterval() on a running timer starts it anew. *)
SetInterval(s, interval) == [s EXCEPT !.interval = interval, !.pollLeft = interval]

\* Faulty: a failed refresh empties the list.
FailRefreshBlank(s) ==
    [s EXCEPT !.counting = FALSE, !.projects = <<>>, !.stale = FALSE, !.state = "error"]

FailRefresh(s) ==
    [s EXCEPT !.counting = FALSE,
              !.stale = s.projects # <<>>,
              !.state = IF s.projects # <<>> THEN "ready" ELSE "error"]

LoadRunners(s) ==
    LET c == FreeCell(s)
        cleared == [s EXCEPT !.online = Unknown, !.total = Unknown, !.runnerIds = {}, !.onlineIds = {}]
    IN  IF ~s.token \/ s.projects = <<>>
        THEN cleared
        ELSE Request([cleared EXCEPT !.pendingRunners = Len(s.projects), !.cells = WithCell(@, c),
                                     !.runnerCell = c],
                     [i \in 1 .. Len(s.projects) |-> AboutRepo("runners", s.projects[i].key, c)])

FinishRefresh(s) ==
    LET ended == [s EXCEPT !.stale = FALSE, !.counting = FALSE,
                           !.state = IF s.projects = <<>> THEN "empty" ELSE "ready"]
    IN  LoadRunners(SetInterval(ended, PollInterval(s.token, s.count)))

-----------------------------------------------------------------------------
(* The selected project *)

HasSelection(s) == s.selectedIndex \in 1 .. Len(s.projects)
SelectedRow(s) == s.projects[s.selectedIndex]
NothingShown == [key |-> NoRepo, run |-> NoRun]

LoadSelectedDetails(s) ==
    IF ~HasSelection(s)
    THEN [s EXCEPT !.stages = NothingShown, !.history = NothingShown]
    ELSE LET row == SelectedRow(s)
         IN  Request([s EXCEPT !.history = [key |-> row.key, run |-> row.run]],
                     <<AboutRun("jobs", row.key, row.run), AboutRun("artifacts", row.key, row.run)>>)

Earlier(left, right) ==
    IF UpdatedAt[left.run] = UpdatedAt[right.run] THEN left.key < right.key
    ELSE UpdatedAt[left.run] > UpdatedAt[right.run]

(* sortProjectsByLatestExecution(); rows of one repository and one time stay as they came. *)
Precedes(rows, i, k) ==
    Earlier(rows[i], rows[k]) \/ (~Earlier(rows[k], rows[i]) /\ i < k)
LatestFirst(rows) ==
    LET all == 1 .. Len(rows)
        places == Ordered(all, {p \in all \X all : Precedes(rows, p[1], p[2])})
    IN  [n \in all |-> rows[places[n]]]

RowsOf(rows, key) == {i \in 1 .. Len(rows) : rows[i].key = key}

(* retainLoadedProjectDetails(): what was loaded for the first row of the same key. *)
Retained(rows, previous) ==
    [i \in 1 .. Len(rows) |->
        LET before == RowsOf(previous, rows[i].key)
            old == previous[Lowest(before)]
            Kept(metric) == IF before # {} /\ old[metric] # NoRun THEN old[metric] ELSE rows[i][metric]
        IN  [key |-> rows[i].key, run |-> rows[i].run, jobs |-> Kept("jobs"), size |-> Kept("size")]]

\* Faulty: the index is kept although the order of the list has changed.
ShowRunsByIndex(s, rows) ==
    LET shown == Retained(LatestFirst(rows), s.projects)
        index == IF s.selectedIndex \in 1 .. Len(shown) THEN s.selectedIndex ELSE 1
        same == RowsOf(shown, s.selectedKey)
        key == IF same # {} THEN s.selectedKey ELSE IF shown = <<>> THEN NoRepo ELSE shown[index].key
    IN  LoadSelectedDetails(FinishRefresh(
            [s EXCEPT !.projects = shown, !.selectedIndex = index, !.selectedKey = key]))

\* Faulty: a refresh selects the first project.
ShowRunsFirst(s, rows) ==
    LET shown == Retained(LatestFirst(rows), s.projects)
    IN  LoadSelectedDetails(FinishRefresh(
            [s EXCEPT !.projects = shown, !.selectedIndex = 1,
                      !.selectedKey = IF shown = <<>> THEN NoRepo ELSE shown[1].key]))

(* The last reply of loadRuns(): the new list, the selection in it, and what is loaded for it. *)
ShowRuns(s, rows) ==
    LET shown == Retained(LatestFirst(rows), s.projects)
        same == RowsOf(shown, s.selectedKey)
        index == IF same = {} THEN 1 ELSE Highest(same)
        replaced == [s EXCEPT !.projects = shown, !.selectedIndex = index,
                              !.selectedKey = IF shown = <<>> THEN NoRepo ELSE shown[index].key]
    IN  LoadSelectedDetails(FinishRefresh(replaced))

-----------------------------------------------------------------------------
(* A refresh *)

LoadRuns(s, found) ==
    LET c == FreeCell(s)
    IN  IF Len(found) = 0
        THEN FinishRefresh([s EXCEPT !.projects = <<>>])
        ELSE Request([s EXCEPT !.pendingRuns = Len(found), !.cells = WithCell(@, c)],
                     [i \in 1 .. Len(found) |-> AboutRepo("runs", found[i], c)])

Discover(s, kind, page, found) == Request(s, <<Listing(kind, page, found)>>)

\* Faulty: a refresh starts while one is under way.
RefreshAnyway(s) ==
    Discover([s EXCEPT !.count = 0, !.counting = TRUE, !.state = "loading"], "repos", 1, <<>>)

Refresh(s) ==
    IF s.state = "loading" /\ Len(s.active) > 0
    THEN s
    ELSE Discover([s EXCEPT !.count = 0, !.counting = TRUE, !.state = "loading"], "repos", 1, <<>>)

(* The success handlers.  An answer that breaks the schema of its endpoint is "invalid".  Of a     *)
(* page of repositories only its set matters: listings are in the order of the keys.               *)
InKeyOrder(keys) == Ordered(keys, {p \in keys \X keys : p[1] < p[2]})

ReposFound(s, r, listed, full) ==
    LET found == r.found \o InKeyOrder(listed)
    IN  IF full THEN Discover(s, "repos", r.page + 1, found)
        ELSE IF s.token THEN Discover(s, "private", 1, found)
        ELSE LoadRuns(s, found)

PrivateReposFound(s, r, listed, full) ==
    LET found == r.found \o InKeyOrder(listed \ ToSet(r.found))
    IN  IF full THEN Discover(s, "private", r.page + 1, found) ELSE LoadRuns(s, found)

\* Faulty: only the last reply decides, earlier failures are forgotten.
RunsCountedBlind(s, c) ==
    LET counted == [s EXCEPT !.pendingRuns = @ - 1]
    IN  IF counted.pendingRuns # 0 THEN counted ELSE ShowRuns(counted, s.cells[c].rows)

(* One reply fewer to wait for; the last one ends the refresh. *)
RunsCounted(s, c) ==
    LET counted == [s EXCEPT !.pendingRuns = @ - 1]
    IN  IF counted.pendingRuns # 0 THEN counted
        ELSE IF s.cells[c].failed THEN FailRefresh(counted)
        ELSE ShowRuns(counted, s.cells[c].rows)

RunsFound(s, r, run) ==
    LET row == [key |-> r.repo, run |-> run, jobs |-> NoRun, size |-> NoRun]
    IN  RunsCounted(IF run = NoRun THEN s ELSE [s EXCEPT !.cells[r.cell].rows = Append(@, row)], r.cell)

\* Faulty: a failed reply is not counted.
RunsMissingUncounted(s, r) == [s EXCEPT !.cells[r.cell].failed = TRUE]

RunsMissing(s, r) == RunsCounted([s EXCEPT !.cells[r.cell].failed = TRUE], r.cell)

RunnersCounted(s, c) ==
    LET counted == [s EXCEPT !.pendingRunners = @ - 1]
    IN  IF counted.pendingRunners = 0 /\ ~s.cells[c].failed
        THEN [counted EXCEPT !.total = Cardinality(s.runnerIds), !.online = Cardinality(s.onlineIds)]
        ELSE counted

(* An entry that breaks the schema fails the reply, but the other entries are taken. *)
RunnersFound(s, r, ids, up, valid) ==
    RunnersCounted([s EXCEPT !.runnerIds = @ \cup ids, !.onlineIds = @ \cup up,
                             !.cells[r.cell].failed = @ \/ ~valid], r.cell)

RunnersMissing(s, r) == RunnersCounted([s EXCEPT !.cells[r.cell].failed = TRUE], r.cell)

(* Whether the page still shows the run that the reply is about. *)
StillSelected(s, r) == s.selectedKey = r.repo /\ HasSelection(s) /\ SelectedRow(s).run = r.run

\* Faulty: the run that the row has by now is not looked at.
WithMetricAnyRun(s, r, metric) ==
    LET rows == RowsOf(s.projects, r.repo)
    IN  IF rows # {} THEN [s EXCEPT !.projects[Lowest(rows)][metric] = r.run] ELSE s

(* The row that takes a loaded metric: the first of its key, if it still has the run asked for. *)
WithMetric(s, r, metric) ==
    LET rows == RowsOf(s.projects, r.repo)
    IN  IF rows # {} /\ s.projects[Lowest(rows)].run = r.run
        THEN [s EXCEPT !.projects[Lowest(rows)][metric] = r.run]
        ELSE s

\* Faulty: the cards are shown whatever is selected by now.
JobsFoundLate(s, r) == [WithMetric(s, r, "jobs") EXCEPT !.stages = [key |-> r.repo, run |-> r.run]]

JobsFound(s, r) ==
    LET merged == WithMetric(s, r, "jobs")
    IN  IF StillSelected(merged, r) THEN [merged EXCEPT !.stages = [key |-> r.repo, run |-> r.run]] ELSE merged

JobsInvalid(s, r) == IF s.selectedKey = r.repo THEN [s EXCEPT !.stages = NothingShown] ELSE s
JobsMissing(s, r) == IF StillSelected(s, r) THEN [s EXCEPT !.stages = NothingShown] ELSE s
ArtifactsFound(s, r) == WithMetric(s, r, "size")

(* The answer breaks the schema of its endpoint. *)
AnswerInvalid(s, r) ==
    CASE r.kind \in {"repos", "private"} -> FailRefresh(s)
      [] r.kind = "runs"                 -> RunsMissing(s, r)
      [] r.kind = "jobs"                 -> JobsInvalid(s, r)
      [] OTHER                           -> s

(* The failure handlers. *)
AnswerMissing(s, r) ==
    CASE r.kind = "repos"   -> FailRefresh(s)
      [] r.kind = "private" -> LoadRuns(s, r.found)
      [] r.kind = "runs"    -> RunsMissing(s, r)
      [] r.kind = "runners" -> RunnersMissing(s, r)
      [] r.kind = "jobs"    -> JobsMissing(s, r)
      [] OTHER              -> s

-----------------------------------------------------------------------------
(* The program *)

Constructed(token) ==
    [token |-> token, state |-> "loading", stale |-> FALSE,
     counting |-> FALSE, count |-> 0, interval |-> PollInterval(token, 0), pollLeft |-> PollInterval(token, 0),
     queue |-> <<>>, active |-> <<>>, cells |-> <<>>, pendingRuns |-> 0,
     projects |-> <<>>, selectedIndex |-> 0, selectedKey |-> NoRepo,
     stages |-> NothingShown, history |-> NothingShown,
     pendingRunners |-> 0, runnerCell |-> 1, runnerIds |-> {}, onlineIds |-> {}, total |-> Unknown, online |-> Unknown]

(* The constructor and the first refresh, which its zero-length timer starts before anything else. *)
ProjectsInit ==
    /\ \E token \in Tokens : service = Refresh(Constructed(token))
    /\ observed = [missed |-> {}, limitLeft |-> 0]

(* A reply has ended: its slot is free, its handler runs, and the next requests start. *)
Ended(i) == [service EXCEPT !.active = RemoveAt(@, i)]
\* Faulty: the freed slot is not used again.
HandledOnly(s) == service' = Collected(s)

Handled(s) == service' = Collected(StartRequests(s))

(* What a reply adds to what the properties remember: the parts of the current refresh that could  *)
(* not be had (a refusal to list private repositories aside), and how long polling has to wait,    *)
(* which a successful refresh cancels.  A private listing that breaks its schema is a listing as   *)
(* bad as a public one; "private" is one that could not be read at all.                            *)
Observed(missed, delay) ==
    LET longest == IF delay > observed.limitLeft THEN delay ELSE observed.limitLeft
        succeeded == service.state = "loading" /\ service'.state \in {"ready", "empty"} /\ ~service'.stale
    IN  observed' = [missed |-> observed.missed \cup missed, limitLeft |-> IF succeeded THEN 0 ELSE longest]
NothingMissed == Observed({}, 0)
Missed(i, delay) == Observed({service.active[i].kind} \cap {"repos", "private", "runs"}, delay)

(* If a listing changes between two pages, the last repository of one page may be the first of the *)
(* next.                                                                                           *)
Pages(found, keys) == SUBSET {k \in keys : found = <<>> \/ k >= Last(found)}

ReposAnswered(i) ==
    /\ service.active[i].kind = "repos"
    /\ \E listed \in Pages(service.active[i].found, PublicRepos), full \in BOOLEAN :
        /\ full => service.active[i].page < MaxPages
        /\ Handled(ReposFound(Ended(i), service.active[i], listed, full))
    /\ NothingMissed

PrivateReposAnswered(i) ==
    /\ service.active[i].kind = "private"
    /\ \E listed \in Pages(<<>>, Repos), full \in BOOLEAN :
        /\ full => service.active[i].page < MaxPages
        /\ Handled(PrivateReposFound(Ended(i), service.active[i], listed, full))
    /\ NothingMissed

RunsAnswered(i) ==
    /\ service.active[i].kind = "runs"
    /\ \E run \in Runs \cup {NoRun} : Handled(RunsFound(Ended(i), service.active[i], run))
    /\ NothingMissed

RunnersAnswered(i) ==
    /\ service.active[i].kind = "runners"
    /\ \E ids \in SUBSET Runners, valid \in BOOLEAN : \E up \in SUBSET ids :
        Handled(RunnersFound(Ended(i), service.active[i], ids, up, valid))
    /\ NothingMissed

JobsAnswered(i) ==
    /\ service.active[i].kind = "jobs"
    /\ Handled(JobsFound(Ended(i), service.active[i]))
    /\ NothingMissed

ArtifactsAnswered(i) ==
    /\ service.active[i].kind = "artifacts"
    /\ Handled(ArtifactsFound(Ended(i), service.active[i]))
    /\ NothingMissed

AnsweredInvalidly(i) ==
    /\ service.active[i].kind # "runners"
    /\ Handled(AnswerInvalid(Ended(i), service.active[i]))
    /\ IF service.active[i].kind = "private" THEN Observed({"repos"}, 0) ELSE Missed(i, 0)

(* A body that is too large or is not JSON. *)
AnsweredUnreadably(i) ==
    /\ Handled(AnswerMissing(Ended(i), service.active[i]))
    /\ Missed(i, 0)

\* Faulty: a delay does not concern the turn of the timer that has begun.
RequestFailedLater(i) ==
    \E delay \in Delays :
        LET longest == IF delay > service.interval THEN delay ELSE service.interval
        IN  /\ Handled(AnswerMissing([Ended(i) EXCEPT !.interval = longest], service.active[i]))
            /\ IF service.active[i].kind = "private" THEN Observed({}, delay) ELSE Missed(i, delay)

(* An error status or no reply at all; the headers may ask for a delay, which polling respects. *)
RequestFailed(i) ==
    \E delay \in Delays :
        LET longest == IF delay > service.interval THEN delay ELSE service.interval
            limited == IF delay > 0 THEN SetInterval(Ended(i), longest) ELSE Ended(i)
        IN  /\ Handled(AnswerMissing(limited, service.active[i]))
            /\ IF service.active[i].kind = "private" THEN Observed({}, delay) ELSE Missed(i, delay)

Answered(i) ==
    \/ ReposAnswered(i) \/ PrivateReposAnswered(i) \/ RunsAnswered(i) \/ RunnersAnswered(i)
    \/ JobsAnswered(i) \/ ArtifactsAnswered(i)
    \/ AnsweredInvalidly(i) \/ AnsweredUnreadably(i) \/ RequestFailed(i)

PollTimer ==
    /\ service.pollLeft = 0
    /\ service' = Refresh([service EXCEPT !.pollLeft = service.interval])
    /\ observed' = [observed EXCEPT !.missed = IF service.state = "loading" THEN @ ELSE {}]

SelectProject(index) ==
    /\ index \in 1 .. Len(service.projects) /\ index # service.selectedIndex
    /\ Len(service.active) + Len(service.queue) <= MaxOutstanding
    /\ service' = LoadSelectedDetails([service EXCEPT !.selectedIndex = index,
                                                     !.selectedKey = service.projects[index].key])
    /\ UNCHANGED observed

(* Time passes. *)
Clock ==
    /\ service.pollLeft > 0
    /\ service' = [service EXCEPT !.pollLeft = @ - 1]
    /\ observed' = [observed EXCEPT !.limitLeft = IF @ > 0 THEN @ - 1 ELSE 0]

ProjectsNext ==
    \/ \E i \in 1 .. Len(service.active) : Answered(i)
    \/ PollTimer
    \/ \E index \in 1 .. Cardinality(Repos) * MaxPages : SelectProject(index)
    \/ Clock

(* Every request ends: the transfer timeout aborts a silent one and the size limit a long one.     *)
(* This is weak fairness of answering the oldest request, which is possible while there is one.    *)
RequestsEnd ==
    \/ []<>(service.active = <<>>)
    \/ []<><<service.active # <<>> /\ Answered(1)>>_projectsVars

ProjectsSafety == ProjectsInit /\ [][ProjectsNext]_projectsVars
ProjectsSpec ==
    /\ ProjectsSafety
    /\ RequestsEnd
    /\ WF_projectsVars(Clock)
    /\ WF_projectsVars(PollTimer)

-----------------------------------------------------------------------------
(* Properties *)

Requests ==
    [kind : {"repos", "private"}, page : 1 .. MaxPages, found : Seq(Repos)]
        \cup [kind : {"runs", "runners"}, repo : Repos, cell : Nat \ {0}]
        \cup [kind : {"jobs", "artifacts"}, repo : Repos, run : Runs]
Rows == [key : Repos, run : Runs, jobs : Runs \cup {NoRun}, size : Runs \cup {NoRun}]
Shown == [key : Repos, run : Runs] \cup {NothingShown}

(* The members keep their types; in particular every request is one the program can make, and the  *)
(* counters of the runners are known or unknown together.                                          *)
ProjectsTypeOK ==
    /\ service.token \in BOOLEAN /\ service.stale \in BOOLEAN /\ service.counting \in BOOLEAN
    /\ service.state \in {"loading", "ready", "empty", "error"}
    /\ service.count \in 0 .. MaxCount /\ service.interval \in Nat \ {0} /\ service.pollLeft \in 0 .. service.interval
    /\ service.queue \in Seq(Requests) /\ service.active \in Seq(Requests)
    /\ service.cells \in [InUse(service) -> [rows : Seq(Rows), failed : BOOLEAN]]
    /\ service.pendingRuns \in Int /\ service.pendingRunners \in Int /\ service.runnerCell \in Nat \ {0}
    /\ service.projects \in Seq(Rows) /\ service.selectedIndex \in Nat /\ service.selectedKey \in Repos \cup {NoRepo}
    /\ service.stages \in Shown /\ service.history \in Shown
    /\ service.onlineIds \subseteq service.runnerIds /\ service.runnerIds \subseteq Runners
    /\ service.total \in Nat \cup {Unknown} /\ service.online \in Nat \cup {Unknown}
    /\ service.online = Unknown <=> service.total = Unknown
    /\ observed.limitLeft \in Nat
    /\ observed.missed \subseteq {"repos", "private", "runs"}

(* startRequests(): at most four requests in flight, and none waits while there is room, whatever  *)
(* the nesting of handlers that enqueue more: a slot that nobody refills would be lost for good.   *)
SlotsAreUsed ==
    /\ Len(service.active) <= MaxConcurrent
    /\ service.queue # <<>> => Len(service.active) = MaxConcurrent

OfKind(requests, kinds) == {i \in DOMAIN requests : requests[i].kind \in kinds}
HowMany(s, kinds) == Cardinality(OfKind(s.active, kinds)) + Cardinality(OfKind(s.queue, kinds))

(* refresh(): there is one refresh at a time.  While it is loading, either one listing or exactly  *)
(* pending_run_requests_ run requests of one list are outstanding; otherwise none of them is.      *)
OneRefresh ==
    LET listings == HowMany(service, {"repos", "private"})
    IN  /\ listings + service.pendingRuns = 0 <=> service.state # "loading"
        /\ listings <= 1
        /\ listings = 1 => service.pendingRuns = 0
        /\ HowMany(service, {"runs"}) = service.pendingRuns
        /\ \A q, r \in Outstanding(service) : q.kind = "runs" /\ r.kind = "runs" => q.cell = r.cell
        /\ service.counting <=> service.state = "loading"

(* The selected index and the selected key name the same project, also after the list has been     *)
(* sorted, shortened or emptied (selected_index_ and selected_key_ are kept apart).                *)
SelectionNamesOneProject ==
    service.projects # <<>> => HasSelection(service) /\ SelectedRow(service).key = service.selectedKey

(* "Reordering preserves the selected repository key": only the user, or the project's absence     *)
(* from a new list, moves the selection to another project.                                        *)
SelectionStays ==
    [][ service'.selectedKey # service.selectedKey =>
            \/ \E index \in 1 .. Len(service.projects) : SelectProject(index)
            \/ RowsOf(service'.projects, service.selectedKey) = {} ]_projectsVars

(* Replies arrive after the selection or the run has changed: the stage cards are those of the run *)
(* on the page, or its jobs are still being asked for; the history is always the selected one's.   *)
DetailsFollowSelection ==
    HasSelection(service) =>
        LET row == SelectedRow(service)
        IN  /\ service.history = [key |-> row.key, run |-> row.run]
            /\ \/ service.stages \in {NothingShown, service.history}
               \/ AboutRun("jobs", row.key, row.run) \in Outstanding(service)

(* A late reply never takes a metric back: while a project shows the same run, the metrics loaded  *)
(* for that run stay.                                                                              *)
MetricsStay ==
    [][ \A i \in 1 .. Len(service.projects), j \in 1 .. Len(service'.projects) :
            LET old == service.projects[i]
                new == service'.projects[j]
            IN  /\ old.key = new.key /\ old.run = new.run
                /\ Cardinality(RowsOf(service.projects, old.key)) = 1
                => /\ old.jobs = old.run => new.jobs = old.run
                   /\ old.size = old.run => new.size = old.run ]_projectsVars

(* A refresh of which the public listing or the runs of some repository are missing, or a listing, *)
(* public or private, breaks its schema, never passes for a good one: the old list stays and is    *)
(* marked stale, or the page shows an error.  It says nothing of a private listing that is refused *)
(* or cannot be read: loadRuns() then goes on without it (UnreadableMeansStale below).             *)
FailureNeverLooksFresh ==
    /\ service.state # "loading"
    /\ observed.missed \cap {"repos", "runs"} # {}
    => service.stale \/ service.state = "error"

(* While a refresh is under way and after one that failed, the list of projects is the one before  *)
(* it: requests that fail or are late only ever touch the metrics.                                 *)
ListChangesAtOnce ==
    [][ [i \in 1 .. Len(service.projects) |-> <<service.projects[i].key, service.projects[i].run>>]
            # [i \in 1 .. Len(service'.projects) |-> <<service'.projects[i].key, service'.projects[i].run>>]
        => service.state = "loading" /\ service'.state \in {"ready", "empty"} /\ ~service'.stale ]_projectsVars

(* "Retry-After delays polling": no refresh begins before the longest delay a reply has asked for  *)
(* is over, unless a refresh has succeeded since.                                                  *)
RateLimitDelaysPolling ==
    [][ service.state # "loading" /\ service'.state = "loading" => observed.limitLeft = 0 ]_projectsVars

(* The page never stays in "loading" and never stops refreshing: every refresh ends, however many  *)
(* of its requests fail or wait behind others, and another one follows, unless GitHub asks for     *)
(* delays for ever (each such reply restarts the poll timer).                                      *)
KeepsRefreshing ==
    /\ []<>(service.state # "loading")
    /\ []<>(service.state = "loading") \/ []<>(observed.limitLeft > 0)

-----------------------------------------------------------------------------
(* What the documentation says and the program does not do *)

(* The status rail "reports unique online/total self-hosted runners only when every required       *)
(* runner request succeeds".                                                                       *)
RunnersComplete ==
    service.total # Unknown =>
        \A r \in Outstanding(service) : r.kind = "runners" => r.cell # service.runnerCell

(* "Oversized or malformed successful responses follow the normal retained-stale-data path." *)
UnreadableMeansStale ==
    /\ service.state # "loading"
    /\ observed.missed # {}
    => service.stale \/ service.state = "error"

(* "Anonymous polling is calculated from the requests made during repository discovery and run     *)
(* loading to remain within 50 requests/hour".                                                     *)
PollingWithinBudget ==
    ~service.token /\ service.state # "loading" => service.interval * Budget >= service.count * Hour

(* The page "retains the selected project's loaded metrics while refreshed details are in flight", *)
(* and "missing values render as unavailable rather than fabricated metrics".                      *)
MetricsOfShownRun ==
    HasSelection(service) =>
        LET row == SelectedRow(service)
        IN  \/ row.jobs \in {NoRun, row.run}
            \/ AboutRun("jobs", row.key, row.run) \in Outstanding(service)

=============================================================================
