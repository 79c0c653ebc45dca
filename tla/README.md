# A formal model of Mesh-Spy

Mesh-Spy is a dashboard for LoRa mesh networks. One Python process opens one or more radios
(Meshtastic, MeshCore, or a simulated mesh), folds what they hear into SQLite and into in-memory
caches, and pushes it to browsers over server-sent events; an operator may also transmit.
This directory holds TLA+ models of the parts of it where order, failure and concurrency matter,
the TLC configurations that check them on small instances, and TLAPS proofs of the results that
matter most for every size. Paths below are relative to the repository; modules of the package are
named without `app/core/mesh/`.

## 1. Inventory

| Component | State it keeps | Operations | Module |
|---|---|---|---|
| Registry and supervisors, `registry.py` | tasks, `_down` events, `_events` queue, `_stopping` | `start`, `_supervise`, `_emit`, `stop` | `Supervision` |
| Meshtastic adapter, `meshtastic_adapter.py` | `_iface`, subscriptions, `LinkStatus` | `start`, `stop`, pubsub callbacks, `send_message`; packet handlers | `Supervision`, `Console`; packet contents in none |
| MeshCore adapter, `meshcore_adapter.py` | `_mesh`, subscriptions, contacts | `start` with its suspensions, `stop`, `send_message`; event handlers | as above |
| Simulated mesh, `registry.py:58-188` | its task | `start`, `stop`, `_run` | `Supervision` |
| Dispatcher, `registry.py:344-386` | the event in hand | `_dispatch_loop`, `_apply`, `_fanout` | `Supervision` (links), `Stream` (fanout), `MessageStore`, `NodeStore`, `Readings` (writes) |
| Store: messages and retention, `store.py` | `messages` table, `_messages` cache, one shared transaction | `record_message`, `trim`, warm start | `MessageStore` |
| Store: nodes, `store.py`, `base.py` | `nodes` table, `_nodes` cache | `record_node`, `NodeRecord.merge`, warm start | `NodeStore` |
| Store: telemetry | `telemetry` table, one series per node and metric | `record_telemetry`, trimming, warm start | `Readings` |
| REST reads, `app/api/routes.py` | none; pool threads that read the caches | `nodes`, `telemetry`; others like them | `Readings` |
| Live updates, `routes.py:270-331`, `static/js/app.js` | subscriber queues, what the page shows | `subscribe`, `_snapshot`, generator, `applySnapshot`, `apply*` | `Stream` |
| Send limiter, `security.py:109-133` | `_hits` | `allow`, `reset` | `Airtime` |
| Sign-in, `auth.py`, `security.py:85-106`, `main.py` | `_sessions`, one bucket of attempts per client address | `login_submit`, `create_session`, `session_valid`, `drop_session` | `Sessions` |
| Transmitting, `routes.py:192-252`, `registry.py:469-487` | messages that are with a radio library | `send`, `_pick_adapter`, `send_message` | `Console` |
| Bootstrap, `bootstrap.py` | `.venv`, its stamp, `config/config.yaml` | `create_venv`, `sync_dependencies`, `ensure_config`, `launch` | `Bootstrap` |
| Configuration, ports, validation, rendering, installers | none that changes at run time | | none, see section 8 |

How they interact. Everything runs on one asyncio loop except the Meshtastic library's reader thread,
the worker threads its constructor, its `close` and its `sendText` run in, and the thread-pool threads of
synchronous HTTP handlers. An adapter turns what its library calls back with into events and puts them on the
registry's one bounded queue, from which the dispatcher takes them one by one. A node, message or
telemetry event is written to the store and then fanned out to every subscriber queue; a link event
is not written, and is also the only thing that wakes the supervisor of a lost radio. The dispatcher
and the hourly trimmer share one SQLite connection, hence one transaction. A browser's
request subscribes a queue, is sent a snapshot of the caches and then whatever the queue gets. A request
to send passes the session check, the limiter and the registry's choice of a link before it suspends in a
radio library.

What is hard, and what makes each part correct:

* **Supervision.** A supervisor can be cancelled at any await; worker threads are not cancelled with
  it; a device may die at any time, also half-way through `start()`; link events refer to the live
  status and are judged late; the queue drops. Correct: a port is never opened twice, no loss is slept
  through, no stale event ends a new session, the backoff is the one the panel's counter suggests,
  failure reasons stay on show, shutdown ends and leaves little behind.
* **Store.** Each statement and each commit is an await at which the other task may run, fail, commit
  or roll back, and the process may end. Caches change before the write (nodes, telemetry) or after
  it (messages). Correct: no packet id twice, nothing shown that is not durable, retention keeps what
  it promises, cache and row tell one story, no sighting blanks what an earlier one said, every point
  of a series has its row.
* **REST reads.** Threads iterate over dictionaries and deques that the loop changes, and read a record
  attribute by attribute. Correct: an answer has nothing older than its request.
* **Live updates.** A snapshot and a queue overlap, and a client may be slow or leave at any await.
  Correct: nothing is missed between the two, nothing goes back, one slow client costs no other.
* **Limiters.** Pruning at every request, boundaries, threads that read the clock before they have the
  lock. Correct: the cap holds for every window, and is not stricter than that.
* **Sign-in.** The same lateness where a session is created and the table pruned. Correct: a session is
  honoured exactly while it is good.
* **Transmitting.** A message waits in a library after it was counted; links come and go. Correct: what
  goes on the air is capped too, and callers are told what became of their message.
* **Bootstrap.** A run may be stopped between any two steps, and the tree may change between runs and
  under one. Correct: a trace that lets a run skip work is true, and there is always a way back.

`PROJECT.json` lists every hazard at its line, with the property that covers it or why none does.

## 2. Modules

| Module | Models | Checked by |
|---|---|---|
| `Supervision` | supervisors, adapters' start/stop, event queue, link branch of the dispatcher, shutdown | `supervision_*.cfg`, through `MCSupervision` |
| `PortLease` | abstract: who has the lease of a port | `LeaseKept` of `Supervision` |
| `MessageStore` | messages: table, cache, dedupe, trim, shared transaction, restart | `messages*.cfg`, through `MCMessageStore` |
| `MessageLog` | abstract: a durable log of messages | `LogKept` of `MessageStore` |
| `NodeStore` | nodes: merge, upsert, shared transaction, warm start | as part of `Readings` |
| `Readings` | `NodeStore` and telemetry on its connection, and the requests that read both | `readings.cfg`, through `MCReadings` |
| `Stream` | dispatcher fanout, SSE endpoint, browser | `stream*.cfg`, through `MCStream` |
| `Clock` | the time that `Airtime` and `Sessions` share | with them |
| `Airtime` | send limiter | as part of `Console` |
| `Quota` | abstract: a limiter that remembers every use | `QuotaKept` of `Airtime` |
| `Sessions` | login threads, login limiter, session table | as part of `Console` |
| `Console` | `Airtime` and `Sessions` composed, with `POST /api/send` up to the radio libraries | `console.cfg`, through `MCConsole` |
| `Bootstrap` | runs of `bootstrap.py` | `bootstrap.cfg`, through `MCBootstrap` |
| `*_proofs` | theorems about the module they are named after, `Limits_proofs` about `Airtime` and `Sessions` | the TLA+ proof system |

Definitions whose name begins with `Wrong` are faulty variants of the definition that follows them.
Nothing refers to them. Put in its place, each makes TLC refute the property it is paired with in
`PROJECT.json`, which shows that the property depends on the code being right.

### 2.1 Supervision, and PortLease

An action is the code between two suspension points. `pc[a]` is where the supervisor of radio `a` is
suspended:

| `pc` | Suspended in |
|---|---|
| `begin` | created, not yet run |
| `opening` | the library constructor (`to_thread(self._factory)`, or `create_serial` and its siblings) |
| `opened` | the constructor has finished, the coroutine has not resumed |
| `contacts`, `fetching` | MeshCore only: `ensure_contacts`, `start_auto_message_fetching` |
| `waiting` | `down.wait()` |
| `closing`, `backoff` | the close inside `adapter.stop()`; `asyncio.sleep(delay)` |
| `closed` | a close that went on in its thread after the cancellation has ended |

`link` is the adapter's `LinkStatus`, `pipe` the registry's queue with the fact that it has dropped
something, `posted` the library announcements waiting to run on the loop, `dev` how many
devices are open, `shut` the progress of `MeshRegistry.stop()`'s own calls of `adapter.stop()`. A link
event in the queue is just the key of the radio: in the code it holds a reference to the status, and
`DispatchLink` reads that status at dispatch. Every other event is one value, `Traffic`, since all
that supervision feels of it is a slot in the queue and a suspended dispatcher. `Kind` says which
adapter class serves a radio; the three differ in how `start()` suspends, in whether a thread survives
a cancellation, and in MeshCore's `stop()` returning early when there is nothing to close. Assumed of
MeshCore: it holds its connection in the coroutine that opens it, so that a cancelled open leaves none.

`PortLease` says what the registry promises of ports, with three variables and no supervisors: one
holder at a time, and a shutdown that takes the running sessions over and ends when it has given all of them
back. The mapping reads a port's holder off `dev`, `pc` and `shut`; a device that a
cancelled open or close left is `abandoned`, the one state in which the abstraction lets a shutdown end.

### 2.2 MessageStore, and MessageLog

`working` is the tables as the connection sees them, `durable` as of the last commit. `job` is the
message the dispatcher is at: `InsertMessage` (INSERT OR IGNORE), `CommitMessage`, `DeliverMessage`
(cache and fanout). `trim` steps through expiry, cap and commit. A failure may, as SQLite may, roll the
shared transaction back. `Restart` covers an orderly stop and a crash at any point. Rows carry
their AUTOINCREMENT id, so "the row was deleted" can be told from "the row never was". `trim.had` is a history:
the rows there were when the trim began.

`MessageLog` forgets the transaction, the cache and both tasks: recorded messages with a highest row id,
and what was shown. `MessageStore` implements it with `rows` and `last` mapped to the durable table; a
commit of either task, with whatever the other one had open, is one `Record`.

### 2.3 NodeStore

A record says for each field which sighting it was learnt from, 0 for None, and which keys its raw
payload has. `Merge` is `NodeRecord.merge`, `Upsert` the INSERT with its ON CONFLICT clause; both come to `Fold`
but for the raw payload, which the cache merges key by key and the row replaces as a whole. `RecordNode`
changes the cache, `UpsertNode` and `CommitNode` the row, `Return` hands the merged record to the
fanout. `Warm` loads at most `WarmLimit` nodes, the most recent ones, as `_warm_cache` does.

### 2.4 Readings

Extends `NodeStore` by what shares its connection and its caches. `RecordSample`, `InsertSample` and
`CommitSample` are `record_telemetry`: the series has the sample first. A commit saves both tables
(`CommitBoth`), a rollback undoes both (`RollbackToo`), whoever caused it; the actions of `NodeStore` are
conjoined with what they do to telemetry. `RestartBoth` reads the series back in the order of timestamps, from
any point in time on. A request for nodes is `AskNodes`, `List` (the iteration, which fails if a
node has been added meanwhile) and one `Show` per attribute, since `merge` changes the record in place; one
for a series is `AskSeries`, which reads the value, and `Sum`, which reads the points. One request at a time
stands for all, as requests change nothing. The sort inside `List` is one step.

### 2.5 Stream

Events are numbered as they are emitted, and a link, node, series or list holds the numbers of the
events it reflects, so that "older" is a comparison. `TakeLink`, `TakeWritten`, `Written` and
`WriteFails` are the dispatcher, with the caches changed where the code changes them. `Subscribe`,
`Snapshot`, `Deliver`, `Close` and `Unsubscribe` are one request. `Abandon` is a request that ends before its
generator has started: its queue stays registered, and `left` counts such queues by how full they
are, so that the fanout offers them every later event as the code does. `Fold` is what the page
makes of an event. One radio stands for all, as links do not influence each other here. The event queue has room for
`QueueMax`: `Enqueue` drops what finds it full, a link event too, of which the live status has changed all the same.
`unheard` is a history of that; the next link event that is taken carries the status as it then is.

### 2.6 Airtime and Quota

`hits` is what the limiter remembers, `accepted` what it let through, `answer` what it last said. `Quota`
is a limiter that never forgets a use; that the pruned list decides as it would, both ways, is a refinement with
`uses` mapped to `accepted`.

### 2.7 Sessions

`login[p]` is where pool thread `p` is in `login_submit`: it has read the time for the limiter and not got its
lock (`stamped`), was let through (`allowed`), or has read the time for a new session and not got the table's lock
(`minting`). So both tables are pruned by times that other threads have left behind. `Honoured` and `After` are
`session_valid`, which reads the clock under its lock. Nothing is persisted: `Restart` empties everything.
`attempts`, `issued` and `dropped` are histories. Checking the password is a choice between `Match` and `Mismatch`.

### 2.8 Console

Composes `Airtime` and `Sessions`, which share the clock: each step is a step of both or leaves one alone. The
endpoint does not suspend from the session check to the library call, so `NotSignedIn`, `TooMany` and
`Submit` are whole requests up to there. Which links are up and which adapters have an interface is any combination, as
`Supervision` lets them come and go at any time; `Reachable` is `_pick_adapter` with the adapter's own
check. `SendText` is Meshtastic's library, whose every exception becomes a `SendError`. `Command` is MeshCore's: it may report an
error, which becomes one, or raise, which nothing on the way catches, and the radio may have got the message in either
case. `Answer` resumes the endpoint: 200, 409 for a `SendError`, 500 for any other exception. With `mesh.read_only` or without authentication a request takes
the same way with fewer guards or stops before it, and is left out.

### 2.9 Bootstrap

`run` is a run of `bootstrap.py` with its options and its place in `main`; one action per step that leaves a trace on
disk. `venv` is `bare` while it has an interpreter and no pip: `create_venv` takes that for a whole one. `installed`
says per Python what is in `site-packages`; `stamp` is the fingerprint in `.venv`. `Stop` ends a run at any step with
what an interrupted pip, venv or write leaves, `RemovePart` is an `rmtree` that did not finish (it runs with
`ignore_errors`). `Pull`, `Upgrade` and `Edit` are the world. Requirements are a number, as each revision is told from the
others by its hash; revisions only move forward. `Upgrade` leaves a virtualenv without pip, since the new Python has
`site-packages` of its own: runs fail at pip until `--recreate`. One run at a time, and no upgrade during one.

## 3. Runs

| Run | Question | Result |
|---|---|---|
| `supervision_mixed` | Do supervision's safety properties hold with a Meshtastic and a MeshCore radio sharing a queue that fills up, and a shutdown at any point? Are the ports leased as `PortLease` says? | holds, 1.0 million states |
| `supervision_live` | Are lost links reopened and failed opens retried, does shutdown end, does the delay follow the attempts? A MeshCore and a simulated link | holds, 57 thousand states |
| `messages` | Dedupe, screen behind disk, retention, with two tasks, failures and restarts; is it the log of `MessageLog`? | holds, 2.5 million states |
| `readings` | Do rows, cached records and series agree, is nothing ever forgotten, is an answer as new as its request? | holds, 1.0 million states |
| `stream` | Does a browser that connects, leaves and reconnects miss nothing and show nothing old, but for a link event that the event queue dropped? | holds, 154 thousand states |
| `console` | Do both caps hold, also of what is on the air; do sessions live as long as they should; are callers told the truth? Does the limiter decide as `Quota`? | holds, 473 thousand states |
| `bootstrap` | What are the traces worth that interrupted runs leave, and is there always a way back? | holds, 119 thousand states |
| `supervision_full_queue` | Does a link that reports down always wake its supervisor (`registry.py:214-215`)? | **violated** |
| `supervision_overwritten` | Is a handled loss always followed by a reopening (`registry.py:3-4`)? | **violated** |
| `supervision_shutdown_leak` | Does shutdown close every device (`main.py:51-52`)? | **violated** |
| `messages_unshown` | Is a dropped duplicate always on screen already (`registry.py:365`)? | **violated** |
| `stream_twice` | Is the message list free of duplicates (`README.md:25`)? | **violated** |

What the properties of the passing runs say:

* `NoLostWakeup`: while a supervisor waits, its link shows down and nothing was dropped, the wake-up is
  set or the event that sets it is queued. `Reopens` is what follows under fairness.
* `OneDevice`: at most one open device per radio, through failed starts, closes and shutdown.
* `FreshSession`: a session ends only by a loss reported during that session. That the `stopped` of the
  previous close cannot end it rests on `down.clear()`, `set_state` and dispatch coming in order.
* `ErrorOnShow`: during the backoff after a failed start the panel shows the reason.
* `OnlyCancelledLeak`: a shutdown leaves a device open only if it cancelled an open or a close.
* `LeaseKept`: step by step, the ports are leased as `PortLease` says.
* `BackoffFollowsAttempts`: the private `delay` and the public `attempts`, kept apart in the code, agree.
* `Retries`, `ShutdownEnds`: a failed open is tried again; `stop()` ends.
* `NoIdTwice`, `ShownSurvives`, `OnceUnlessTrimmed`: no packet id on two rows; nothing
  shown that a crash would take back; a message is listed twice only if the trim deleted the row it
  would be recognised by.
* `TrimKeepsNewest`: of the rows there were when it began, a trim leaves none that has expired, at most `MaxMessages`,
  and none older than one that is gone; and none is gone that had not expired and was among the newest, whatever the
  dispatcher wrote meanwhile.
* `LogKept`: whatever the two tasks commit for each other, the durable table grows at its end only and a
  deleted row never comes back.
* `RowCovers`, `ViewComplete`, `DurableKeeps`: the row holds what the cached record says, also what came
  with a sighting whose own write failed; the record sent to browsers blanks nothing the row knows;
  a durable field never becomes unknown, even for a node the cache had lost.
* `SeriesBacked`: each point of a series has its row, unless its own write failed or is under way, or the
  trimmer deleted it; in particular a warm start brings back nothing else.
* `AnswersCurrent`: an answer that is given has nothing older than its request, although records and fields in it
  may be of different times.
* `NothingMissed`, `Current`, `CatchesUp`: a client that has caught up shows what a new snapshot would,
  and nothing older; a client that stays catches up unless its own queue overflowed. Of the link the last two exempt
  the time from a drop of a link event at the full event queue to the next link event that is taken (`unheard`): then
  every open page may show an old state. Of nodes and readings, `Current` exempts failed writes (`unsaid`);
  an event dropped there changes no cache.
* `AirtimeCapped`, `QuotaKept`: no stretch of the window's length has more than `Max` accepted calls, and no
  call is turned away that a limiter with full memory would grant.
* `OnAirCapped`: of what radios were passed, the same holds in a stretch shorter by the time a library may keep a
  message.
* `AnswersTrue`: a call is answered once, with 200 only if a radio was passed its message; a message that is on the air
  and not answered so is still in flight, or MeshCore reported an error or raised an exception.
* `AttemptsCapped`: the cap on login attempts, in a stretch shorter by the time a thread may be late.
* `HonouredWhileGood`: a session is honoured until it expires or is signed out of, and not after.
* `StampSound`, `LaunchSound`: a stamp that lets a run skip pip is true, whatever runs were stopped or mixed; a
  run that has passed the dependencies has what its requirements ask for, and a configuration.
* `ConfigKept`, `RecreateRepairs`: an edited configuration stays (`docs/INSTALL.md:366-367`); `--recreate` leads back
  to a running console.

`ShownSurvives`, `OnceUnlessTrimmed`, `TrimKeepsNewest`, `RowCovers` and `SeriesBacked` exempt runs in which a failure has
rolled back work of the *other* task (`undone`, `lost`): there the code's bookkeeping really is off, by
SQLite's choice. `ViewComplete`, and `DurableKeeps` for the raw payload, exempt the nodes that the last start had no
room for (`cold`). `StampSound` and `LaunchSound` exempt what a partial `rmtree` left (`torn`).

### The five findings

1. **A dropped loss is never noticed** (`supervision_full_queue`). `_emit` treats a link's loss like any
   packet. If the queue is full it is counted and gone, nobody sets the wake-up, and as `set_state` is
   silent when nothing changes, a second report of the same loss emits nothing. The radio stays down.
2. **A loss during MeshCore's start is overwritten** (`supervision_overwritten`). The disconnect handler
   runs while `start()` awaits contacts or message fetching, and sets the link down. `start()` continues
   and sets it up. The dispatcher reads the live status, finds it up, and wakes nobody.
3. **Shutdown during a Meshtastic open leaks the device** (`supervision_shutdown_leak`). Cancelling
   `to_thread` does not cancel the thread. The interface it opens is assigned to nothing.
4. **A message can be dropped as a duplicate that nobody saw** (`messages_unshown`). The INSERT succeeds and
   the commit fails; a later commit of any writer makes the row durable; the next delivery is ignored. (After a
   crash between commit and delivery the warm start shows the row, as long as it is among the newest.)
5. **A message can be listed twice** (`stream_twice`). It is cached and queued between `subscribe()` and
   the snapshot, hence in both, and `applyMessage` does not look for it.

Met while modelling, and not runs: they follow from a finding, concern one function, or nothing a property here
speaks of:

* the drop of finding 1 also leaves every open page with the link's old state, as `set_state` has changed the live
  status by then, until another event of that link is dispatched (`README.md:21-22` promises that a radio "that quietly
  stopped talking is visible"); it is what `unheard` exempts in `Current` and `CatchesUp`;
* MeshCore's `send_msg` and `send_chan_msg` are awaited outside any `try` and the endpoint catches `SendError` only: an
  exception of the library is an uncaught 500 without a reason (`base.py:331-332` and `base.py:407` promise a
  `SendError`); `Console` has it, as the status 500;
* a link that came up and never heard anything is never stale (`registry.py:428-430`, against
  `config/config.example.yaml:36`);
* the send limit is global (`README.md:169` says per client), and a send refused with 409 costs a slot (against the
  intent of `tests/test_api.py:397-398`);
* MeshCore's `stop()` leaves the state as it is when there is nothing to close (`tests/test_registry.py:308-319`
  expects down, of a scripted adapter);
* an SSE request abandoned before its generator starts leaves its queue registered; telemetry points of the gap are
  drawn twice;
* a node beyond the 2000 of the warm start is shown with the fields of its newest sighting only, until it has sent the
  others again (`store.py:257-258` does not say so), and its stored raw payload is replaced by the new one
  (`store.py:298`; `base.py:125-126` promises that a field not normalized "is still recoverable");
* a series is in the order of arrival until a restart and in the order of timestamps after it (`store.py:249`), so the
  "Latest value" of `store.py:446` may change with a restart;
* `store.py:7-9` explains the caches by a single loop, while the REST handlers read them from pool threads, and may
  find a dictionary changed under their iteration (a 500);
* an interrupted creation of `.venv` leaves an interpreter without pip; every later run fails at pip until
  `--recreate` is used, against `bootstrap.py:7`, "Safe to run repeatedly"; a partial removal may leave a stamp that
  matches and packages that are gone.

## 4. Bounds, and why they are enough

* **Supervision.** Two radios are the least that share a queue, and the two hardware kinds cover each
  other's interference; the simulated link joins in `supervision_live`. `QueueMax` 2 or 3 lets the queue
  be empty, partly full with a link event before and behind traffic, and full, since bursts (`SeedMax`)
  and losses overflow it. `PostedMax` 1: one announcement outstanding per radio (a second one for
  the same interface would set the same state). `AttemptsCap` 1 where attempts do not matter;
  `DelayMin`, `DelayMax`, `AttemptsCap` = 1, 3, 4 in the live run: `BackoffFollowsAttempts` is checked below the cap
  of the counter, hence at delays 1, 2 and 3, the last of which is the clipped doubling of 2. The theorems remove all these bounds but the saturating attempts counter.
* **MessageStore.** One packet id and id-less messages, two timestamps (hence ties and reversed order),
  two rows in the table's life (`RowCap`), `MaxMessages` 1 so that the cap cuts, `CacheMax` 2. A third row gives no
  new relation: the properties speak of pairs of rows.
* **Readings.** Two nodes with room for one in the cache (`WarmLimit`) and in an answer (`NodeLimit`), so that a node
  is cold, is heard again, and pushes the other out; three sightings (`SightingCap`), so that one can fail, one restart
  come between and one follow; four kinds of sightings (`SomeSightings`): with and without the field, with either or
  no payload key, at two times in both orders. Two samples (`SampleCap`) against a series of one (`SparkPoints`), so
  that the series drops its head while a value is read; three events altogether (`EventCap`), so that sightings
  and samples mix, and a request may be overtaken by two of them. No request is made after the last event: it would
  find nothing moving.
* **Stream.** Queues of two (`SubscriberMax`, `QueueMax`) overflow with three events (`EventCap`); two connections (`VisitCap`),
  so that a page with old content gets a snapshot, and the first may be abandoned; `NodeLimit` 1 of two nodes;
  `SnapshotMax` 1 and `ListMax` 2 keep the ratio of 100 and 200; three events can fall before, into and after the gap.
  The theorems remove the bounds of `MessageStore`, `Readings` and `Stream`.
* **Console.** Two login threads of one client, which is the least that can overtake each other, with one attempt, one
  second of lateness (`Stale`) and a window of three: four ticks (`TimeCap`) let a window pass and a second one
  begin at every offset. `Max` 1 and two calls (`CallCap`) with a lag of one: a message delayed and one that is not are
  the least that could bunch up. Two tokens with a lifetime (`Ttl`) of one: one expires while the other is created.
  One link of each kind. The theorems remove the bounds.
* **Bootstrap.** Two revisions of the requirements, two Pythons, two stops: a stop of a run that repairs what
  an earlier stop left. The theorems remove the bounds.

Every bound is a guard on an action, named in the CONSTANTS it comes from. `CHECK_DEADLOCK FALSE` stands
only in the runs of `Supervision` and `Stream`: a system that has shut down, and one whose bounded
visits and events are used up, do stop.

Two constants are assumptions, not bounds: `Stale`, how long a login thread may be kept between reading the clock and
getting its lock, and `Lag`, how long a radio library may keep a message. The code sets neither; both appear
in the properties, which say the less the longer they are. In `Sessions` only the limiter's lock has such a limit: a
thread that creates a session may be late by any time.

## 5. Fairness

`Supervision!Fairness`: weak fairness for the dispatcher, for each supervisor (with the end of the library's
open, by success or failure), for the loop running what was posted to it, for the library announcing a
loss it has noticed, and for each step of the shutdown. One asyncio loop runs ready callbacks in FIFO
order, so a step that stays enabled is taken; library calls have time-outs of their own. Nothing is
assumed of radios dying or talking, or that an open ever succeeds. `Reopens` excludes dropped
events, because the code does (finding 1).

`Stream!Fairness`: weak fairness for the dispatcher and for each served request, which its server
continues until the browser leaves. Browsers need not connect, stay or leave.

`Bootstrap!Fairness`: weak fairness for the steps of a run, which is a sequential program. The rest is assumed of
the operator, and is what `RecreateRepairs` is conditional on: who has no console tries `--recreate` again and
again (strong fairness of that `Start`, since runs with other options may come between), and does not for ever
ask for `--setup-only` (strong fairness of `Launch`). Stops are bounded, hence finitely many.

## 6. Proofs

Checked by TLAPS for every value of the constants that satisfies the named assumptions: kinds are among
the three, traffic is not a radio, `QueueMax` and `AttemptsCap` are positive naturals (`Supervision`);
packet ids exclude "no id", times are integers, the cache has room for one (`MessageStore`); times are
positive naturals (`NodeStore`); sightings are of the declared fields, keys and times, a series has room for one
(`Readings`); the caps are naturals and the windows positive ones (`Airtime`, `Sessions`); the radios' kinds are
disjoint (`Console`); the stamp's "none" is no fingerprint (`Bootstrap`); queues and series have room for one and a
page's list has room for two snapshots, as 200 messages (`app.js`) are two times 100 (`Stream`). `PowersAssumption`
(`Supervision`) is no restriction but arithmetic that the provers do not know, `2^(n+1) = 2 * 2^n`; TLC
evaluates it like the others.
In particular no relation between the backoff bounds is assumed, as `config.py` checks none.

**Supervision_proofs.** `TypeCorrect` rests on lemmas about the queue: `Emit`, `SetState` and `Burst` keep
it within its capacity, lose no event and forget no drop (`Grows`). `AtMostOneDevice` and
`ShutdownReleases`: `OneDevice` is not inductive, because nothing in it says who will close. `DeviceInv`
does: a device is open exactly where `pc` is in `opened` or `closing`, or in a session the shutdown
has not finished; `held` iff in a session that the shutdown has not reached. `NothingSleepsThroughLoss`
and `OnlyFreshLossEndsSession` come from `WakeInv`: in a session, a link that shows down has set the
wake-up, has an event queued or fell victim to a drop (`Noticed`), and whatever shows down or wakes in a
session was reported lost in it (`Deserved`). The second holds because a session starts by clearing the
wake-up and setting the link to connecting; the events of the last close that are still queued then read
`connecting`. `ImplementsLease` is the refinement: under `DeviceInv` each action is an `Acquire`,
a `Release`, the `TakeOver`, the `End` or a stutter of `PortLease`. `FailureStaysOnShow`: that closing does not
overwrite the error follows from nothing else being on its way (`Explained`): after a failed start only a loss can be
waiting to be announced, because a connection is announced only of a session that came up, and a Meshtastic start
that fails has none. `DelayFollowsAttempts`: outside the backoff the private delay is already the one of the next
attempt (`Paced`), and what `_supervise` does to it is the doubling of `2^n` clipped at the maximum (`BackoffDoubles`).
It is stated below the saturation of the counter and for any two bounds, also with the minimum above the maximum.

**MessageStore_proofs.** `TypeCorrect` needs that the durable row counter is not ahead of the working one
(`Ordered`), since a rollback goes back to it. `DuplicatesDropped`: `NoIdTwice` is inductive with the type;
INSERT OR IGNORE looks at the working table, of which both a commit and a rollback make copies.
`ScreenBehindDisk`: strengthened by `JobDrawn` (what a job is about to show has been committed) and
`RowsDrawn` (row ids are below their table's counter, for the warm start). `ImplementsLog` adds that the rows of the
working table below the durable counter are durable rows (`Extends`), so that no commit brings a deleted one back.
`TrimLeavesTheNewest`: each statement of the trim is remembered in what it has left, and deleted, of the rows there were
when it began (`Trimmed`); the dispatcher's inserts have higher ids and its commits change no row, so they cannot disturb it. That
keeping the newest `MaxMessages` leaves at most so many is a fact about finite sets and needs both tables finite.
`TwiceOnlyAfterATrim`: a cached row with an id the table still has is that very row (`CacheDrawn`, from `IdsDistinct`),
so the INSERT OR IGNORE that let a second one with its packet id through has looked and not found it (`JobOnce`).

**NodeStore_proofs.** `RowsNeverForget` needs that the open transaction never says less than the last
commit (`Ahead`), since any task's commit makes all of it durable. `RowsCoverCache` needs that the
record being written is the whole cached one (`ViewIsCache`) and is in the row once the statement has run
(`WrittenHolds`): that is why a write also repairs what an earlier failed one left out. `ViewsComplete` and the raw
payload need in addition that the cached record of a node that is not cold has all that its row has (`CacheInv`).

**Readings_proofs.** `NodesKept`: every behaviour of the composition is one of `NodeStore`, so the theorems above hold in
it although the telemetry shares the transaction. `SeriesOnDisk`: `SeriesBacked` is inductive with the type and the
finiteness of both tables, without which a warm start has no order to read them in. `ReadingsTypeCorrect` and
`AnswersNotStale` rest on `Past`: whatever the store remembers, in memory or on disk, is of the past, of finitely many
nodes, each with a time. `AnswersCurrent` itself is not inductive: what a request has read of the nodes it chose stays
current because a sighting only makes a record newer (`ListInv`), and a summary of a series stays current because
the series loses only its head (`SumInv`).

**Limits_proofs** (of `Airtime` and `Sessions`). `CapHolds`: the limiter has forgotten only calls that have left
the window (`Remembered`); an accepted call can only add to windows that contain now, and those hold at
most what `Recent` does. `ImplementsQuota` uses the same fact in both directions. `LoginsCapped`: with threads that
prune by old and new times, a bucket still has every attempt of the window that ends now (`AttemptsRemembered`), and
the time of an attempt is at most `Stale` before the moment it was let through; hence the stretch that is `Stale`
shorter. `SessionsSound`: a time that a thread has read is never ahead of the clock (`StampsRecent`), so pruning by it
removes only what has expired (`Tabled`).

**Console_proofs.** `ComponentsKept`: a behaviour of the console is one of `Airtime` and one of `Sessions`, whence
`ConsoleCapHolds` and `ConsoleSignInHolds`. `CallersTold` and `OnAirCapHolds` need that a message is in one place and
passed on at most once (`Once`), at most `Lag` after its call (`Timely`), and that the library's result fits
(`Result`: "passed" only of what a radio has got, an error or an exception about such a message only from MeshCore). The cap on the air is then a counting argument: messages of a short stretch inject into the calls of a
full window. `ConsoleTypeCorrect` combines the types of the two components with that of the messages.

**Stream_proofs.** `TypeCorrect` bounds the queues, and needs that a link event is not ahead of the live status
(`LinkSet`) and that what the dispatcher writes is what its cache has (`JobCached`). `NothingOutdated`: what a page
shows says nothing of what its queue still holds. `Follows` does: of each node, and of the link, the last event
waiting in the queue carries the current number, or none is waiting and the page shows it. The dispatcher is allowed
for: a link event not yet taken, or the node it is writing. So is the event queue: a link event in it stands for the live
status, and with none in it the page is current unless one was dropped (`unheard`). `NoMessageMissed`: the message events waiting are the `d`
newest of the list, oldest first (`Waits`); the page starts with the `a` messages delivered since its snapshot, under
which lies that snapshot, `b` messages old (`Paged`). A message that came between subscription and snapshot is in
both, and so `b` may be smaller than `a + d`, never greater: no gap. What is listed twice pushes the snapshot towards
the end of the page, and `ListMax >= 2 * SnapshotMax` keeps what is needed of it from falling off: with fewer than
`SnapshotMax` messages delivered there is room below them for all of it.

**Bootstrap_proofs.** `StampsTrue` needs that no fingerprint, stamped or about to be, and no package is ahead of the
tree (`NotAhead`), that a run past pip has what it wanted (`Synced`), and that it still has its interpreter (`Built`)
and looked for the options it was given (`Asked`). Since requirements only move forward, what pip installed later than
the fingerprint was taken satisfies it. `LaunchesHaveAll` adds `Configured`; `EditsKept` follows.

## 7. Model-checked only

The liveness properties, which are out of the prover's reach: `Reopens`, `Retries`, `ShutdownEnds` (`Supervision`),
`CatchesUp` (`Stream`) and `RecreateRepairs` (`Bootstrap`). Every other property of a passing run is stated by a theorem.
The disagreements of section 3 are counterexamples, found by TLC on small instances.

## 8. Not modelled

* The two steps of Meshtastic's crossing from the reader thread, `_mine` and `_to_loop`: one step in `Supervision`.
* `MeshRegistry.start` failing after it has started tasks: the application then does not start.
* REST requests for messages, one node, one series and its history: reads like the two modelled, or of one step.
* The record of a transmitted message on its way to the panel: an event like any other, of which `Supervision` has the
  queue and `Stream` the rest.
* Conversion of packets into records, validation, port discovery, response headers: functions without
  state over strings and floats, covered by the repository's tests.
* `time.time()` stepping back: the limiters would then remember longer, and delay; sessions would live longer.
* Configuration, rendering, installers, service files: nothing in them runs concurrently.
* Two runs of `bootstrap.py` at a time, and requirements that go back to an earlier revision.

The limits of a single process stay: a restart empties the limiters and the session table, so the caps and sessions
are per process, in the code as in the model.

## 9. Plan

Done: Supervision, MessageStore, Stream, Airtime, NodeStore; Sessions, Console, Readings, Bootstrap; the abstract
specifications PortLease, MessageLog and Quota with the proofs that they are implemented; theorems for all safety properties.
Left, in this order:

1. The reader thread's crossing in two steps, in `Supervision`, with its invariants proved anew.
2. An abstract page that is updated at once, implemented by `Stream` with what its queue still holds folded into
   the page. That is for TLC: the provers cannot reason about the fold.
