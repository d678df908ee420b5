# Verification of the virtual waiting room

TLA+ models of `simple-virtual-waiting-room`: a Go HTTP service that stands in
front of a target service and lets at most `TARGET_MAX_ACTIVE_SESSIONS` users
into it at a time, the others waiting in a queue kept in Valkey. The models are
checked on small instances with TLC, and the main safety results are proved for
all values of the constants with TLAPS. Paths below are relative to `src/`;
`WR` stands for `internal/waiting-room`.

## The system

### Components

| Component | State it keeps | Operations | Correct when |
|---|---|---|---|
| Admission use case (`WR/usecases/enter_waiting_room_usecase.go`) | none of its own: per-request copies of room, user, ticket and session | `Execute`, `KeepSessionAlive` | the limit is respected, users are served in order, records agree, sessions expire |
| Waiting-room entity (`WR/domain/entities/waiting_room.go`) | FIFO queue of user ids, capacity, TTL | `Enqueue`, `Peek`, `Remove`, `HasCapacity`, `Len` | nobody is in the queue twice |
| Ticket, session and user entities; ticket lifecycle; session policy (`WR/domain/entities`, `WR/services`) | status and times of one record | status changes, `IsExpired`, `ValidateAndUse`, `Create` | statuses follow the path the request is on |
| Session repository (`WR/infrastructure/repositories/valkey/session_repository.go`) | `session:<id>` and `session:active:<user>` with TTLs, the set `session:active` | `GetByID`, `GetActiveByUserID`, `Save`, `CountActive`, `RefreshTTL` | the set counts every live session; a live session can be found from its user |
| Ticket repository | `ticket:<id>`, `ticket:active:<user>` | `GetByID`, `GetActiveByUserID`, `Save` | a pointer leads to a stored ticket of that user |
| User and waiting-room repositories | `user:<id>`, `waiting_room:<id>` | `GetByID`, `Save` | whole records are read and written; lifetimes survive the conversion |
| Web controller and waiting page (`WR/controllers`) | the browser's cookie | enter by cookie, redirect, page that asks again every 5 s | who is told to wait has a place and is let in some day |
| JSON controllers (`WR/controllers`) | none | enter, heartbeat | one call of the use case per valid request; heartbeats keep the session |
| Presenter (`WR/presenters`) | none | outcome or error to JSON | an API client learns its session id |
| Configuration (`internal/config/config.go`) | the settings | `Load` | the lifetimes are those asked for; what cannot be served is refused |
| Start-up (`internal/app/deps.go`) | the Valkey client | connects, seeds an empty room, wires the use case **without** a `RoomLocker` | a restart leaves usable records |
| Server and `main` (`internal/app/server.go`, `cmd/waiting-room/main.go`) | listener, error channel, connections | serving, graceful shutdown | status 0 means that nobody was cut off; a signal ends the process |
| Router, logging | none | - | - |

### How they interact

Handlers run concurrently, one goroutine per HTTP request. Both controllers call
the use case, which talks to the repositories; each repository method is one to
a few Valkey commands. Valkey executes commands one at a time, so a command is
the atomic unit; there are no transactions and no scripts. A request loads the
room, the user, the session and the ticket at the beginning (`Execute` lines
83-117), decides, and writes whole records back at the end. `withRoomLock` would
put counting and writing into one critical section, but `deps.go:64` passes
`nil`, and then it just calls its argument.

Time enters through the TTLs of sessions (Valkey expires the keys), through
`ExpiresAt` of tickets (compared to the `now` that `Execute` reads once) and
through the waiting page, which asks again when its refresh timer has run down.

### What is hard

* **Interleaving.** Every two commands of a request may be separated by commands
  of others. Copies are stale when they are used and when they are written back.
* **Check and act.** `ensureCapacity` counts with SMEMBERS and one EXISTS per
  member, removing dead members on the way; the session is created later.
* **Several keys for one fact.** Session, pointer and counted set; ticket and
  pointer; queue, ticket and user record. A request may fail after any of them.
* **Time.** A key may vanish between two commands; a heartbeat may race the
  deadline; a ticket may expire while it is being used.
* **Restart.** Start-up overwrites the stored queue, not the other records.
* **Visitors.** The server never calls anybody: who waits is let in by his own
  next request, and the first in the queue is promoted by his own next request
  or not at all. A browser's id comes with the answer to its first request.
* **Shutdown.** A signal, the listener's error, the answers of the handlers and
  the timeout come in any order.

The hazards this gives rise to are listed line by line in `PROJECT.json`, each
with the properties that cover it or the reason why none does.

## The modules

| Module | Extends | Content |
|---|---|---|
| `WaitingRoom` | | the queue as a value, the entity's methods as operators |
| `EnterWaitingRoom` | `WaitingRoom` | the core: concurrent requests over the Valkey keys, failures, restart, time |
| `AdmissionProperties` | `EnterWaitingRoom` | type invariant, safety invariants, action properties, two refinement mappings |
| `SessionPool` | | abstract: a pool of at most `Max` sessions, what the target service is promised |
| `Turnstile` | | abstract: a line in front of a turnstile, what the visitors are promised |
| `Visitors` | `EnterWaitingRoom` | browsers and API clients composed with the requests that serve them; fairness |
| `VisitorProperties` | `Visitors`, `AdmissionProperties` | what a visitor may rely on, safety and liveness |
| `Server`, `ServerProperties` | | the life of the process; its promises |
| `Settings` | | from environment variables to lifetimes, with overflow and truncation; its properties |
| `MCEnterWaitingRoom`, `MCSettings` | | symmetry and sample numbers for TLC |
| `EnterWaitingRoomProofs` | `AdmissionProperties` | lemmas about the queue; type correctness, no duplicates |
| `CapacityProofs` | `EnterWaitingRoomProofs` | counting, the limit and how far it is exceeded without a lock, refinement of `SessionPool` |
| `RecordProofs` | `CapacityProofs` | ticket pointers resolve, sessions get their TTL, when a pointer may expire before its session |
| `QueueProofs` | `RecordProofs` | order of arrival, places, refinement of `Turnstile` |
| `AgreementProofs` | `QueueProofs` | queue, tickets, users and sessions agree between requests |
| `VisitorProofs` | `VisitorProperties`, `AgreementProofs` | `Visitors` refines `EnterWaitingRoom`; what a visitor may rely on, but for liveness |
| `ServerProofs` | `ServerProperties` | the process |
| `SettingsProofs` | `Settings` | lifetimes, for any width of the integers |

### `EnterWaitingRoom`

| Variable | Code |
|---|---|
| `queue` | the `Queue` of the record `waiting_room:<id>`; ID, capacity and TTL never change (`NoDrift` in `Settings`) |
| `userStatus` | the status of `user:<id>`; a missing record is loaded as a new waiting user |
| `ticket` | `ticket:<id>`: its status and the ticks left until `ExpiresAt` |
| `activeTicket` | `ticket:active:<user>` |
| `session` | `session:<id>`, reduced to its TTL: `Gone`, `Persistent` or ticks |
| `activeSession` | `session:active:<user>`: the id and the TTL of the key |
| `activeSet` | the set `session:active` |
| `holder` | who holds the `RoomLocker`, if there is one (`HasLocker`) |
| `req` | the local variables of every handler in flight: `pc` (the command it sends next), `path` (why), its copies, `CountActive`'s progress, and `lag`, the age of its `now` while that still matters |

A request starts with `Start` (`Execute`) or `Heartbeat` (`KeepSessionAlive`).

| Actions | Code in `Execute` and below |
|---|---|
| `Start`, `GetUser`, `GetActiveSession`, `GetSession`, `GetActiveTicket` | the loads, one Valkey GET each (83-121) |
| `ExpireTicket`, `TryPromote`, `StayQueued`, `TryUse`, `TryDirect`, `TryIssue` | the second GET of the ticket with the decision on it, and the decision without a ticket (121-260) |
| `Lock`, `Exists`, `Srem` | `withRoomLock`, `ensureCapacity`, `CountActive` |
| `PromoteAdmitted`, `PromoteRefused`, `UseAdmitted`, `UseRefused`, `DirectAdmitted`, `DirectRefused` | what each critical section does with the count |
| `SetTicket`, `SetActiveTicket`, `SetRoom`, `SetUser`, `SetSession`, `SetActiveSession`, `AddActive`, `ExpireSession`, `ExpireActive`, `RefreshActive` | the writes; which one follows which depends on the path |
| `Abort` | a command returns an error (before or after taking effect) and the handler returns it (83-119 and all later error returns) |
| `Restart` | the process dies, `NewDependencies` seeds the room again |
| `Tick` | a unit of time passes: keys expire, tickets come nearer to `ExpiresAt` |

What is abstracted: ids are pairs of an owner and a number, and a number is used
again once no key and no request refers to the id, so that a run is not limited
to a few arrivals; a heartbeat can only name a session whose creation has been
answered or is well under way (it is in the counted set); a command that changes
nothing any other request can see is merged with the decision that follows it;
the record of a ticket nothing refers to is forgotten, for it is never read
again. `Init` is start-up with nothing stored, `Restart` start-up over existing
data.

The repository has the interface of a `RoomLocker` and no implementation of it.
`HasLocker` supposes one that keeps the contract of `WithLock`: one caller at a
time, released when its function returns. What becomes of a lock when its holder
dies is not in the code, so a locker goes with `~CanFail` (`ConstantsAssumption`);
the deployed program is `HasLocker = FALSE`.

### `Visitors`

| Variable | Code |
|---|---|
| `userId` | the cookie `waiting_room_user_id` of a browser; the id an API client has made up |
| `page` | what a tab shows, its timer, the session id it has been told, the cookie the awaited answer carries, how often it has been opened |
| `conn` | which page awaits the answer of which handler |
| `known` | ids given out |

Every action that concerns a handler is joined with the handler's own:
`Visit` and `Refresh` (a GET of `/`, by hand or by the waiting page's timer, or
a POST of an API client) with `Start`, `Beat` with `Heartbeat`, `Serve` with
`Step`, `Fail` with `Abort` or with the last `Step` of a request, `Crash` with
`Restart`, `Pass` with `Tick`. When a step ends a request the answer arrives in
the same step: the page shows the target or the waiting page, the cookie is
stored, an API client learns its session. `LastReplyLost` is a request that has
done everything, whose last command returns an error or whose answer is lost:
the page shows an error, and the cookie is stored or not. `ClosePage` is a user
who leaves.

### `Server`

| Variable | Code |
|---|---|
| `main`, `result` | where `main` is: loading, connecting, seeding, in `Run`'s select, in `Shutdown`, receiving, closing, exited, with which status |
| `signalled` | the context of `signal.NotifyContext` is cancelled |
| `redis` | the Valkey client |
| `listener`, `reported`, `errCh` | `ListenAndServe`, its goroutine, the channel of capacity 1 |
| `stopping` | `Shutdown` was called |
| `conns`, `inFlight`, `killed` | the open connections, which `Shutdown` waits for; those whose handler runs; handlers the exit has cut off |

One action per return of a blocking call: `Load`, `Connect`, `Seed`, `Listen`,
`ServeReturns`, `Report`, `Receive`, `Stop`, `Drained`, `Deadline`, `Close`, and
`Signal`, `Accept`, `Request`, `Answer`, `Disconnect` of the environment. What
`net/http` does is external: connections stay open between requests, so that a
handler may start after `Shutdown` was called; `Shutdown` waits for the listener
to return, then looks for open connections now and then (`Drained`, `Busy`,
`Again`), and returns the error of its context when that is done between two
looks, even if the last handler has returned since (`Deadline`). Two races inside
`net/http` are left out: an idle connection that `Shutdown` closes while a
request is arriving on it, and an error of closing the listener.

### `Settings`

`Load` is `config.Load`, `Seed` is `NewDependencies` up to the stored record and
`Visit` a request that reads the room, gives a ticket its TTL and writes it back.
The greatest `time.Duration` is `MaxInt` and a second has `Second` units, so that
`* time.Second` wraps and `/ time.Second` truncates exactly as with 2^63 - 1 and
10^9, on numbers small enough to try all of them; the proofs hold for any.
`MaxQueue` is the greatest capacity for which `make` finds memory: beyond it, and
below zero, `NewWaitingRoom` ends the process (`died`).

### Abstract specifications

`SessionPool` is refined by the set of live sessions (`PoolSpec`). `Turnstile`
is refined by the queue and the owners of live sessions (`TurnstileSpec`); the
code stores a session and the queue without its owner by separate commands, so
the mapping takes the queue a request is about to store as soon as its session
is there (`Line`).

## The runs

Passing runs:

| Run | Instance | Shows |
|---|---|---|
| `Locked` | 2 users, 2 handlers, limit 1, with a locker, no failures | `CapacityRespected`; the handlers implement `SessionPool` (`PoolSpec`); every session is counted (`LiveSessionsCounted`) and gets a TTL (`SessionsExpire`); a live session loses its pointer only while a request has still to extend it (`PointerLostOnlyWhileExtending`) |
| `Crowd` | 4 users, 2 handlers, limit 1, no locker, sessions without a TTL | `BoundedOvershoot`: the limit is exceeded by less than the number of handlers, however many users come; `QueueHasNoDuplicates`, whatever stale copies newcomers and waiters write back (nobody is promoted from the queue here; the theorem covers that) |
| `OneAtATime` | 3 users, 1 handler, limit 1, tickets and sessions expire between the requests | `RecordsAgree`, `FirstComeFirstServed`, `PlaceKept`; the program implements `Turnstile` (`TurnstileSpec`) |
| `Failures` | 1 user in 2 tabs, 2 handlers, no locker, every command may fail, restarts | `TypeOK`, `TicketPointersResolve` |
| `Visits` | 2 browsers and an API client, 1 handler, limit 2, no failures | `WaitingPageHasPlace`, `EveryPlaceHasAVisitor`, `HeartbeatsKeepPlace`, `LiveSessionFindable`, `VisitorsTypeOK`; who keeps the waiting page open is let in (`WaitingEnters`) |
| `Churn` | a browser with 2 tabs, 2 handlers, no locker, failures, lost answers, restarts, pages that are closed, slow requests | every request is answered, by the target, the waiting page or an error (`EveryVisitAnswered`) |
| `Shutdown` | 3 connections, signal and listener error at any time, requests after `Shutdown` was called, handlers may hang | `OkMeansDrained`, `ListenErrorReported`, `SignalEndsProcess`, `TypeOK` |
| `Lifetimes` | every combination of unset, malformed, boundary and overflowing settings | `LifetimeAsAsked`, `NoDrift`, `SettingsTypeOK` (whatever the settings, `Shutdown` gets a timeout that is not over yet) |

`Shutdown` and `Lifetimes` have `CHECK_DEADLOCK FALSE` because a process ends; in
the others a new request can always start or time pass.

Runs that end in a counterexample; each is a finding of `PROJECT.json`, where the
line of the repository that says otherwise is quoted:

| Run | Property refuted | What happens |
|---|---|---|
| `OverCapacity` | `CapacityRespected` | no locker: two users count the same free place and both enter |
| `ImmortalSession` | `SessionsExpire` | a handler fails between storing a session and giving it a TTL; the session stays for ever, uncounted if it failed before SADD, with a counted place if after |
| `LostPointer` | `LiveSessionFindable` | the pointer expires between the two EXPIREs of `RefreshTTL`; the session lives on, and its user's next visit does not find it |
| `StuckHead` | `FreeSlotFilled` | a stale copy of the queue puts a user who has entered back to its front; he does not ask again, and everybody behind him waits for ever in front of an empty target |

### What the passing runs do not say

The instances of the passing runs are not chosen for convenience: each of these
properties depends on a condition, and TLC refutes it without that condition.

* `CapacityRespected` and `PoolSpec` need the locker that the deployed program
  has not (`OverCapacity`), and requests that do not fail. When one fails between
  the pointer and SADD (`session_repository.go:82`) its user is let in on every
  visit and nobody counts him. The run has one tab per user, so that two tabs
  that use one admitted ticket, each on its own copy (line 218), are covered by
  the theorems only: every session so made still needs a place.
* `FirstComeFirstServed`, `PlaceKept` and `TurnstileSpec` need one handler at a
  time. With two, even with a locker, a newcomer passes who queued meanwhile,
  because the test under the lock (line 260) looks at the copy loaded before it;
  and a stale copy, loaded at line 83 and written back at 182 or 314, drops him
  or puts somebody back in front of him (`StuckHead`). With one handler no
  admitted ticket is ever found by another request, so `TryUse` does not happen
  in `OneAtATime`; it does in `Failures`.
* `LiveSessionsCounted` and `SessionsExpire` need requests that do not fail
  (`ImmortalSession`, whose session is not counted either).
* `LiveSessionFindable` needs requests that take less than a tick (`Prompt`), as
  `LostPointer` shows. `PointerLostOnlyWhileExtending` does not: it says that
  this window, between the two EXPIREs, is the only one. Two sessions of a user,
  where a heartbeat for the older one extends the pointer to the newer, need two
  tabs and are covered by the theorem.
* `HeartbeatsKeepPlace` is about API clients. A browser is never told the id of
  its session (`enter_waiting_room_web_controller.go:69`; the sample page looks
  for a cookie that nobody sets), so that it cannot send heartbeats and loses
  its place while it is in the target.
* `WaitingEnters` needs one handler (`StuckHead`); a limit greater than the
  number of API clients, since those may send heartbeats for ever; and tickets
  that live for a while. With a lifetime of zero (`WAITING_ROOM_TTL_SECONDS=0`,
  or less than a second, cut to whole seconds) they are born expired and nobody
  who queues is ever promoted.
* Even with one handler the target stays empty (`FreeSlotFilled` fails) when the
  first in the queue has closed his page: only the first is promoted and
  nothing removes him (line 144).
* `EveryPlaceHasAVisitor` needs answers that arrive: when the first one is lost
  the browser comes back under a new id and the old one's place belongs to
  nobody.
* `EveryVisitAnswered` is about requests, not about being let in, and relies on
  a Valkey that answers or a client library that gives up.
* `LifetimeAsAsked` is silent on numbers of seconds that overflow a Duration.
  `SESSION_TTL_SECONDS` wraps in the same way (`config.go:99`); a negative
  result means that sessions have no TTL at all.

A locker would cure `OverCapacity` only: the loads are outside the critical
section, and neither failures nor expiry ask for the lock.

### Bounds

* **Users and handlers.** Races are between two handlers, of one user
  (`Failures`, `Churn`) or of two; `MaxTabs` and `TabsPerBrowser` fix which. A
  queue with somebody in the middle needs three users and is checked with one
  handler. The proofs do not depend on these numbers.
* **Limit 1** is the least that can be reached, refused, exceeded and freed.
  `Visits` has limit 2, so that sessions of different age share the target.
* **Four users in `Crowd`** are more than limit and overshoot together, or the
  bound would hold for lack of users. Sessions do not end there
  (`SESSION_TTL_SECONDS=0`), so that nobody is promoted from the queue; with
  sessions that end the instance is beyond TLC, and the proofs take over.
* **`TicketsPerUser`, `SessionsPerUser`** bound the ids something refers to *at
  the same time*: the pointer, and one or two copies in requests. Where they are
  smaller than that (`Failures`, `Churn`) a request that would need another id
  waits for one to be free, or fails, as it may in these runs anyway. `Churn`
  would not pass if a request waited for ever for an id.
* **TTLs of 1 or 2 ticks.** With 1 tick a key may expire between any two
  commands. With 2 the remaining times of two keys can differ, and a heartbeat
  or refresh every tick comes in time, as 60 s and 5 s do for 5 minutes.
* **`MaxLag`** bounds the age of a request's `now` while it is still to be
  compared. 1 makes a ticket expire under a request that has not; 0 means that
  time stands still during the loads (not during the writes).
* **`MaxVisits`** bounds how often a page is opened or reloaded by hand; the
  waiting page asks again by itself without bound.
* **Three connections** in `Shutdown`: one handler that hangs, one that returns,
  and one connection that is idle or new at the same time.
* **`MaxQueue` 20** has capacities on both sides of it in `MCSettings`.
* **`MaxInt` 63, `Second` 5** in `Lifetimes`: a duration is less than 13 seconds,
  and `MCSettings` gives it numbers at, below and beyond that, which wrap to a
  negative and to a positive duration.
* **Symmetry** in users and handlers is used where no liveness property is
  checked: no definition names a user or a handler.

### Fairness

`Spec` of `EnterWaitingRoom` is a safety specification. `VisitorsSpec` adds weak
fairness of `Serve(r)` (a goroutine that can run does run, and Valkey answers a
command or the client library reports an error), of `Pass` (time passes) and of
`Refresh(p)` and `Beat(p)` (timers of open pages fire, since the browser or the
client runs them). It assumes nothing of `Visit`, `ClosePage`, `Fail` or
`Crash`: nobody has to come, to leave, or to fail. That an API client that waits
asks again after `RefreshTicks`, like the page, is an assumption about clients;
the repository has none. Liveness is checked without a locker, as deployed: no
handler waits for another.

`Server` has weak fairness of `main`'s steps and of the listener's goroutine,
and strong fairness of `Deadline`: `Shutdown` looks for connections again and
again, and its timer, which runs all the time, ends that. A listener returns
only once it has been asked to (`stopping`). Nothing is assumed of handlers,
which may hang, of clients, nor of signals.

## The proofs

All theorems hold for any users, handlers, ids, limits and TTLs, under
`ConstantsAssumption` (numbers are numbers, `None` is no id, and a locker is
supposed only where nothing fails); TLC evaluates this assumption in every run that uses the module.

Most properties need something besides, which the theorem states as a
hypothesis; "What the passing runs do not say" tells which are needed:

| Hypothesis | Meaning | Theorems |
|---|---|---|
| `~CanFail` | no command fails, the server does not restart | all but `TypeCorrect`, `NobodyQueuedTwice`, `PointersResolve`, `VisitorsTypeCorrect`, `VisitorsRefine`, and those about `Server` and `Settings` |
| `Exclusive` | a locker, or a single handler | `CapacityIsRespected`, `ImplementsPool` |
| `Solo` | a single handler | `QueueProofs`, `AgreementProofs`, `WaitersHavePlaces` |
| `IsFiniteSet(Requests)` | finitely many handlers | `OvershootIsBounded` |
| `TabsPerBrowser = 1` | a browser has one page open | `PlacesHaveVisitors`, `WaitersHavePlaces`, `LiveSessionsAreFound` |
| `~MayClose` | no page is closed for good | `PlacesHaveVisitors` |
| `Prompt` | requests take less than a tick | `LiveSessionsAreFound`, `HeartbeatsKeepSessions` |
| `HeartbeatTicks < SessionTTL` | heartbeats are more frequent than the TTL | `HeartbeatsKeepSessions` |

**`EnterWaitingRoomProofs`** - with or without locker and failures:
`TypeCorrect` (`TypeOK`), `NobodyQueuedTwice` (`QueueHasNoDuplicates`). Neither
is inductive. What is written to `queue` is a copy that a request has carried for a while, so the
invariant must say that the copies have no duplicates; which command is inside a
critical section depends on the path, so it must say which `pc` goes with which
`path`. `IInv` is `StoreOK` (the keys), `RequestsOK` (every request record is
`Consistent` by itself) and `LockHeldExactlyInside`, the contract of a locker (it
is held by the request inside a critical section and by nobody else), which the
proofs about the limit need. The step lemmas follow that
split: `RequestsStep`, `StoreStep` and `LockStep` for the steps of a request, one
case per action, and a lemma for each of the other disjuncts of `Next`. That
the queue stays free of duplicates rests on `EnsureQueuedLemma` and `RemoveLemma`
about the queue operations, that is, about `Append` and `RemoveFirst` of
sequences of any length.

**`RecordProofs`** - `PointersResolve`: `TicketPointersResolve` holds with
failures after any command and with restarts. `TicketInv` adds that a request's
ticket is its user's and that between the two commands of `Save` the record is
there; a tick forgets no ticket that something leads to. `EverySessionExpires`:
without failures every session without a TTL has a creator about to set it
(`SessionsExpire`); `ImmortalSession` shows that the assumption is needed.
`PointersAreLostOnlyWhileExtending`: without failures
`PointerLostOnlyWhileExtending`, for any number of handlers and tabs, with or
without a locker. `PointerInv` says that pointers and sessions in a request
belong to their user, that the first EXPIRE comes before the second, and that a
pointer lives as long as its session or a request is going to extend it. The
last is stated of pointers without a TTL too: another tab may turn the pointer
to its own session between the two EXPIREs. A tick takes as much from one key as
from the other, so it takes the pointer first only where a request has extended
the session and not yet the pointer.

**`CapacityProofs`** - `SInv` adds to `IInv` that a session about to be stored is
known to nobody else and that a session between EXISTS and SREM stays dead; it
is inductive with or without locker and failures (`SessionInvariance`). From it:

* `EverySessionCounted`: without failures, `LiveSessionsCounted`, even without a
  locker. SREM never removes a live session, although EXISTS and SREM are apart.
* `CapacityIsRespected`: with a locker *or with a single handler* (`Exclusive`),
  and without failures, `CapacityRespected`. `CapacityInv` says that while
  somebody counts, what he has counted and has still to look at covers every
  live session, and that from his decision until he stores the session there is
  room for one more. Nobody else creates a session meanwhile.
* `ImplementsPool`: under the same assumptions every step is a step of
  `SessionPool` or leaves the set of live sessions alone (`PoolSpec`).

**`QueueProofs`** - with a single handler and no failures, for any number of
users: `ServedInOrder` (`FirstComeFirstServed`), `PlacesAreKept` (`PlaceKept`) and
`ImplementsTurnstile` (`TurnstileSpec`). An admitted ticket is used without
looking at the queue, so it is not enough to know the queue. `QueueInv` has two
parts: `Orderly` says what a request knows, on each path, of the queue that it
has loaded and nobody has changed since; `NoStray` says that no admitted ticket
is found by anybody but the request that admitted it, which has seen its user at
the front. It follows that `TryUse` never happens with a single handler
(`NothingToUse`): without failures, an admission is used or taken back by the
request that made it. `OrderlyStep` and `NoStrayStep` preserve the two parts, one
case per action. The refinement goes through `EnterStep` (`SetSession` is the
step through the turnstile), `JoinStep` (`SetRoom` of a newcomer) and `LeaveStep`
(keys that expire); the room inside comes from `CapacityInv`, as there are no
more owners than sessions.

**`AgreementProofs`** - with a single handler and no failures, for any number of
users: `RecordsStayInAgreement` (`RecordsAgree`). The records are written one
after the other, so `AgreementInv` says which of them may be out of step while
the handler is at a given command (`TicketsWait`, `TicketsQueued`, `QueueAgrees`),
and what the handler has learnt of its user that nobody has changed since
(`Knowledge`: no session could be found, the status it loaded is the stored one,
whoever is about to enter has left the queue). The step `TryUse` is excluded by
`NothingToUse` of `QueueProofs`.

**`ServerProofs`** - `ServerTypeCorrect`, `OkIsDrained`, `ListenErrorNotLost`, for
any number of connections. The invariant says where `main`
can be while the server is stopping and what a `nil` in the channel means: the
listener was closed, hence `Shutdown` was called, hence `main` takes the `nil`
only after `Shutdown` has seen that no connection is open and the listener, which
could have brought another, has returned.

**`SettingsProofs`** - `SettingsTypeCorrect`, `LifetimesAreAsAsked`,
`LifetimesDoNotDrift`, for any `MaxInt`, any length of a second and any settings.
`SettingsInv` says that the stored number of seconds goes to a duration and back
unchanged, which makes a visit a fixed point. It rests on two lemmas about the conversions: rounding towards zero loses less than
a second and never makes the way back overflow (`SecondsRound`), and a number
that has come from a duration comes from it again (`SecondsStable`).

**`VisitorProofs`** - the composition, for any number of browsers and API
clients. `VisitorsRefine`: every step of `Visitors` is a step of
`EnterWaitingRoom` or leaves it alone, so what is proved of `Spec` holds of
`VisitorsSpec`. `VisitorsTypeCorrect`: `VisitorsTypeOK`, with failures and
restarts. The rest is without failures, and is a matter of who knows what:

* `VisitorsInv` (`VisitorsInvariance`): an id is used by one visitor only,
  the page a request answers to acts under the request's user, and a session a
  client has been told is its own. Where a page is the only one of its owner its
  request is therefore the only one of its user (`OnlyRequest`), however many
  handlers there are. API clients always have one page.
* `PlacesHaveVisitors` (`EveryPlaceHasAVisitor`): the queue and the copies that
  requests have of it hold only ids that were given out, and every id given out
  is that of a page that is open, or of a cookie on its way (`PlacesInv`).
* `WaitersHavePlaces` (`WaitingPageHasPlace`): a request that ends with the
  waiting page has stored the queue with its user in it, and nobody else drops
  him (`WaitingInv`, `PlaceStep` of `QueueProofs`).
* `LiveSessionsAreFound` (`LiveSessionFindable`), for any number of handlers: a
  live session has a pointer or a creator about to store it, and whoever is
  about to create a session has seen that its user has none, which stays true
  because nobody else acts for him (`FindInv`). At a tick nobody is in flight,
  and by `PointerInv` the pointer does not expire before the session.
* `HeartbeatsKeepSessions` (`HeartbeatsKeepPlace`), for any number of handlers,
  with several pages per browser: an API client in the target knows its session,
  the pointer leads to it, and while no heartbeat is on its way both keys live
  longer than the client's timer (`KeepInv`). `KeysInv` says what a request
  knows of the two keys between its commands, up to their full lifetime after
  the last EXPIRE.

The step lemmas say once what a step of a handler may do to one part of the
state (`Proceeds`, `Rooms`, `Ends`, `Turns`, `Touches`), one case per action; the
invariants are proved from those and not from the actions.

Only model-checked: liveness (`WaitingEnters`, `EveryVisitAnswered`,
`SignalEndsProcess`). Out of the prover's reach: liveness under fairness, ENABLED,
and induction over data.

## Not modelled

* `Dequeue`, ending a session (`End`, `MarkExited`, `Save` of an ended session),
  `Delete` of a ticket, `Has*` queries: implemented, never called. Domain services
  and repository interfaces without an implementation.
* Set members that are not UUIDs, records that do not decode: the program writes
  neither.
* Requests that are refused for their method, path, body or id; which status and
  error code the presenter gives an error; `/healthz`; logging: no state.
* The parameters `ticketId` and `newTicket` of the waiting page, which only change
  what it says.
* The sample target application: a static page. It reads a session id from a
  cookie nobody sets.
* A room record that vanishes while the server runs (a Valkey that loses its
  data): every request fails until the next start-up.
* Retries inside the Valkey client: not this repository's code; every command is
  sent at most once.
* Growth of `session:active` without a limit, and of records without a TTL: ids
  are used again in the model.

## Plan

Every safety property of a passing run is now a theorem. What is left, in order
of value: runs for what "What the passing runs do not say" describes in words (a
newcomer who passes a queued user under the lock; a user inside whom nobody
counts; a browser that loses its place); two tabs with a locker on an instance
TLC can finish; what failures leave intact beyond `TypeCorrect` and
`PointersResolve` (the limit and the places are lost when a request fails
half-way, but by how much can be bounded by the number of failures); the order
of service with several handlers, for users who are queued before and after a
request of each other has loaded the room; `PlacesHaveVisitors` for a browser
with several pages that has its cookie already.
