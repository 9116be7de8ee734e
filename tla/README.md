# Torrentine in TLA+

Torrentine is a BitTorrent client without a window: a C++ program around
libtorrent 1.1 that is driven by a REST API and a web interface over it. This
directory holds TLA+ modules that model the program, TLC configurations that
check them on small instances, and proofs, checked by TLAPS, of what matters
most. Paths and lines below are relative to the repository; `PROJECT.json` maps
every definition to the lines it models.

- [The system](#the-system)
- [Hard behaviours](#hard-behaviours)
- [Modules](#modules)
- [Runs](#runs)
- [Fairness](#fairness)
- [Proofs](#proofs)
- [Where code and comments disagree](#where-code-and-comments-disagree)
- [What is not modelled](#what-is-not-modelled)
- [Plan](#plan)

## The system

Four actors share one process:

| actor | runs | touches |
|---|---|---|
| main thread | `main` (`src/torrentine.cpp:16-87`): load everything, start the server, loop, save everything, stop the server | `torrents`, `session_status`, the configuration, all saved files |
| HTTP thread | `SimpleWeb::Server` with `thread_pool_size` 1: handlers and callbacks of all connections, one after the other | `torrents`, `session_status`, the configuration, uploaded files |
| libtorrent | its own thread: works off asynchronous calls, queues alerts | the session, the files of torrents |
| signal handler | `shutdown_program` | `shutdown_flag` |

A fifth runs in the browser: the web interface (`webUI/index.3042b6ee.js`, one
line of built JavaScript), which polls the REST API and keeps a store of what
it was told.

There is no mutex anywhere. A handler that throws is caught by the server and
the client gets an empty response (`server_http.hpp:669-676`); nothing catches
an exception of the main thread.

The components, the state each keeps, and what makes it correct:

**Registry of torrents** (`TorrentManager`, `torrentManager.cpp`): the vector
`torrents` of shared pointers and the counter `greatest_id`. The main thread
appends when it meets an `add_torrent_alert` and walks the vector for the
console view; handlers list ids, look ids up in two passes (do all exist? then
act), and erase. Correct when ids are unique and never given out again, a
request acts on all of its ids or on none, each answer belongs to its id, every
torrent of the session can be named, and the process survives.

**Fastresume** (`save_fastresume`, `load_fastresume`): the counter
`outstanding_resume_data` and one file per torrent. Correct when a save that
claims to be complete is on disk, files never go back, a crash costs little,
and the save ends.

**REST API** (`RestAPI`, `restAPI.cpp`): one handler per route; it keeps copies
of two paths of the configuration. Correct when the status of an answer says
what was done, settings end up as asked, and what is uploaded can be added.

**Program** (`torrentine.cpp`, `config.cpp`): the configuration, read at the
start and written at the end; the session's settings; the server's thread.
Correct when a configuration survives stops and starts, an unreadable one does
not lock the user out, and a stop ends.

**File serving** (`stream_get`, `webUI_get`): each handler has one static buffer
for all of its responses and goes on in callbacks. Correct when responses do
not mix, are as long as announced, and end.

**Session statistics** (`check_alerts`, `post_session_stats`,
`program_status_get`): the struct `session_status` and the time it was last
filled. The main thread fills it member by member while the HTTP thread copies
it. Correct when rates are divided by a time that passed, and no client sees a
total become smaller.

**Web interface** (the dva model "torrents" and the dashboard): the list of
torrents with a field per kind of data, the rows of the table, the selected row,
the panes below it, and the page that is shown. Correct when what is shown
becomes what the server has, whatever order answers come in, when the selection
stays with its torrent, and when a client that was logged out asks nothing more.

**Logs, directory listing, login, helpers, logging, console output**: see [What is not modelled](#what-is-not-modelled).

Components interact through the calls of handlers into `TorrentManager`,
through libtorrent's alert queue, which `check_alerts` and `save_fastresume`
both empty, through the vector, through `session_status`, and through the
configuration; the web interface through the REST API alone.

## Hard behaviours

`PROJECT.json` lists the hazards with their lines. In short:

- two threads in one `std::vector`: an erase under a walk, an append under an
  erase, a reallocation under a look-up;
- ids that were checked and are looked up again; a list that is made and used
  later; an empty list that means "all";
- alerts: answers to a save that come after its timeout, or in the next save, or
  for a torrent that was removed;
- crashes between the truncation of a file and its write; writes that fall
  short and files that cannot be opened, which nobody notices;
- results that use 0 for "all well" where 0 may be an id, and a check whose
  branch is empty;
- a shutdown that saves while requests are still served, or that comes before
  the server has started;
- requests of many parts, one of which fails;
- files that grow while they are sent;
- a struct that is copied while it is filled, and two alerts in one batch;
- requests of a page that overlap, are answered out of order, or fail after the
  page is gone.

## Modules

| module | models | composed with |
|---|---|---|
| `IdTable` | what clients are promised about ids, as an abstract table | implemented by `TorrentRegistry` |
| `TorrentRegistry` | the vector, slot by slot, with the three threads | refines `IdTable` |
| `TorrentRegistryProofs` | proofs: ids, the causes of death, the refinement | `TorrentRegistry` |
| `TorrentRegistryLookupProofs` | proofs: look-ups, answers, the session | `TorrentRegistryProofs` |
| `Fastresume`, `FastresumeProofs` | saving and loading resume data, alerts, crashes, starts; proofs | |
| `RestApi`, `RestApiProofs` | the fourteen handlers about torrents; proofs | refines `IdTable` |
| `Program`, `ProgramProofs` | life cycle, configuration, settings, server thread; proofs | |
| `FileServer`, `FileServerProofs` | streaming; proofs | |
| `ProgramStatus`, `ProgramStatusProofs` | the statistics of the session; proofs | |
| `WebUI`, `WebUIProofs` | the web interface; proofs | `IdTable`, as the server it asks |
| `MC...` | constants for TLC | |

The modules cut the program at different depths. `TorrentRegistry` sees the
memory of the vector and nothing of what a call does; `RestApi` and `Fastresume`
see a table that changes in one step, and what calls do. The first shows that the
table abstraction is justified: `ImplementsIdTable` is exactly the statement
that, until two threads collide in the vector, it behaves as a table whose
entries come and go one at a time. After a collision nothing is claimed; the
model has the empty pointers, lost entries and freed buffers, and the history
variable `overlap` records that it happened.

### TorrentRegistry

`slots`, `size`, `cap` are the vector's memory; `gen` counts reallocations, so
that `hgen # gen` says that an iterator is into a freed buffer. Reading one is a
choice between dying and seeing what the slots hold now; in the code it may also
give anything else, old elements or garbage, and what follows from that is not
modelled. A reallocation is one step (`PushRealloc`), although the code copies
element by element. `push_back` with room is two steps
(`PushConstruct`, `PushPublish`), as libstdc++ does it: construct, then move the
end. `erase` is `EraseReset` (the `reset()` before it), one `EraseShift` per
moved element, and `ErasePop`. A handler is a program counter `hpc` with the
locals of the function it is in: `collect` is `get_all_ids`, `check` and `act` are
the two passes over `ids`, `sweep` the loop when no ids are given. `op` is one of
`remove`, `apply` (stop, start, recheck, set), `get`, `status`. A null pointer
that is read, a `status()` on a removed torrent in the main thread, and an id
iterator that runs past its end finish the process (`fate`).

A torrent that is added twice gets an alert with the handle it has, and so a
second id. `aliased` records that a torrent left the session under one of two
ids.

### Fastresume

Resume data is a version: how many changes the torrent has seen, 0 while there is
no metadata. `files[t]` is the version on disk or `Torn`, the state between the
truncation and the write. The main thread's program counter `mpc` follows the
loop: `check`, `handle` (`check_alerts`), `turn`, then perhaps `scan`, `wait`,
`drain`, `write` (`save_fastresume`). Requests for data (`asked`) are answered in
any order between torrents, by data or by a failure. `leaked` counts answers
that `check_alerts` dropped. The range-for of the
scan keeps the end there was when it began; an erase meanwhile leaves a null
pointer in the last slot, and the scan, when it gets there, dies (`nulled`, `Dies`).
`status()` of a torrent that left the session may throw, in the scan and for an
answer, and that ends the process, too. A write whose file opened may still fall
short, of which nobody looks: the file is left torn and counts as saved
(`WriteFile`; the torrent is then in `spoilt`, until a later write begins, and in
`refused`, the torrents this save could not save). Bound: a torrent that was
removed is not added again by a client (`fresh`), only by the file it left. `path` says whether the
configuration has the key at all: without it nothing is saved or loaded.

### RestApi

Each route is a record: what it does, what an empty list of ids means, whether
it validates a query parameter, its status and its error. A request walks
`check`/`act`, `list`, `sweep`, `parse`/`send` or `write`, with one call into
libtorrent per step, while the main thread registers torrents, metadata arrives,
and the session answers. `before`, `reached`, `sent`, `wrote` and `told` remember
what properties compare: the settings when the request came, the torrents its
calls reached, the additions it passed on, the files it wrote, and the names
clients were told. Requests may name id 0, which nothing has: the manager's
functions return the unknown id and 0 for success, so that `ResultOf` makes of a
missing 0 a success without effect. An upload entry of unknown type is passed on
without a torrent, and, unless it names a path, without one (`AtpOf`, `PathOf`).
`blank` is set when an info whose metadata is missing was fetched, and the reply
then dereferences it. Bound: a torrent that left the session is an error when it is
added again (`SessionAnswers`). `folder` says whether `torrent_file_path` can be written: the
code does not look (see below).

### Program

The configuration is the set of keys the program looks up, and the value of the
one key a request can set. The file may be absent, malformed, or a table; a
truncated one is the empty table, which parses. A write may fall short
(`CutShort`: some of the keys, or text that does not parse), and the file may not open
for writing, which `save_config` only logs: it keeps what an earlier run wrote, and
the program stops as usual. A start may follow a crash
at any step. `writable` says whether main may create and rename files next to
the configuration. The acceptor is `starting` until the server thread has made
it: `start_server` returns before. Requests set settings or add a torrent; the
history variables `last` (the path last set), `late` (set after the
configuration was saved), `unsaved` (the run did not write the configuration: the
file did not open, or a crash came first), `torn` (which writes of it were cut short)
and `configured` are what the properties need.

### FileServer

A file is a sequence of units, each data or a hole; libtorrent writes pieces in
any order. `stream_get` looks whether a path is a regular file and goes on either
way, so `Dirs` are opened like files: the file system refuses the seek, or
its answer becomes the announced length (`Lengths`), and reads yield nothing.
`webUI_get` goes to the `index.html` of a directory, which is a page or no file. A response goes through `read` (into the static buffer) and `write`
(copy to the response's stream), is sent, and continues in a callback, all on the
threads of the pool.

### ProgramStatus

A clock that ticks on its own (`now`), libtorrent's counters (`bytes`), the
requests it has not answered (`posted`) and its queue. The main thread's program
counter follows `main`: `check`, `handle` with `total` and `rate` for each metric,
`post`, `wait`. While it waits, `SaveFastresume` may hand the alerts it meets to
`check_alerts`, over and over. A metric stands for a pair such as
`total_upload`, `upload_rate`; values without a rate are copied like totals. The
clock counts ticks, `Ms` of them in a millisecond, so that `span` is rounded
down as `duration_cast` does it. `pc = "dead"` is the integer division by zero.
The HTTP thread reads one member per step, in any order (a struct copy may be in
any order), and `answer` is what it told its client last. `slow` remembers
that some statistics were worked in more than two seconds, less a millisecond,
after they were asked for.

### WebUI

The server is the table of `IdTable`, which the registry implements until two
threads collide, and a number, `version`, that counts its changes. An answer
carries the ids and the version of the moment it was made, so that staleness is
visible without any data. `slot[k]` holds the requests for one kind of data:
`asked` until the server answers, `answered` until the effect takes it in.
`torrentsList` maps ids to the version of each field. `Apply` is an effect
from its answer on: the reducer `saveAllTorrents...`, the rows if the kind is
`status`, and the pane of its kind (`changeSelectedTorrent...`). These are one
step, because JavaScript runs an effect up to its next request without
interruption. `Fail` is the same with the answer `undefined`: the first reducer throws,
redux-saga's `put` logs that and goes on, and the pane is drawn from the store
as it is. An index of a row that does not exist makes the pane's
reducer throw, and the pane stays. `page`, `interval` and `authority` are the
router, the dashboard's timer, and what `localStorage` keeps.

## Runs

| run | expects | shows | bounds |
|---|---|---|---|
| `registry` | pass | ids are unique, what can end the process, all or nothing, answers belong to ids, session and vector agree, refinement of `IdTable`, accepted torrents are registered, requests are answered | three additions, four id lists |
| `registry_status` | violation | the status request without ids in an empty registry | two additions |
| `fastresume` | pass | the counter is exact; a crash costs one file | two torrents, two starts |
| `fastresume_one` | pass | saved means on disk, files never go back, the save returns | one torrent, three versions, two saves |
| `fastresume_removed` | violation | a removed torrent is back after a restart | as `fastresume` |
| `fastresume_final` | violation | the last save misses torrents | as `fastresume` |
| `rest_api` | pass | an answer says what the request did | two torrents, 29 requests |
| `program` | pass | the configuration over four starts, with crashes, files that do not open and writes cut short; a stop ends | four starts, four requests |
| `program_shutdown` | violation | a shutdown before the acceptor never ends | one start |
| `file_server` | pass | responses do not mix, are as announced, and end | two connections, files of three units, a directory, buffer of two |
| `program_status` | pass | what a division by zero takes; totals never go back | two metrics, eight ticks, two requests |
| `web_ui` | pass | nothing is asked after a logout; answers move the selection only when older rows change; the dashboard converges | two ids, two kinds, two requests of each, one change |

Why the bounds are enough:

- Registry: three torrents let the vector grow 0, 1, 2, 4, so both the
  reallocating and the roomy `push_back` happen, an erase shifts at least one
  element, and an append can fall into an erase. The id lists have no ids, one,
  several with a repetition, and the id 0. A fourth torrent adds a second shift
  of the same kind. `MaxAdds` counts additions in flight plus ids given out.
- Fastresume: a counter error needs a save, a timeout and a second save
  (the periodic and the final one), with an alert queue that holds an answer and
  something else; two starts let files be loaded. With one torrent, three
  versions and two periodic saves three saves overlap in the queue, which is
  what two answers in the wrong order need.
- RestApi: two torrents and up to three ids, so two ids of one torrent, a
  missing id after one that exists, id 0 between two that exist, and a registration
  between list and look-up all occur; bodies have up to two members with up to two settings.
- Program: four starts are a malformed file, the default one, a setting, and a
  look at what became of it. `KeysLostOnlyByTornWrite` and the others are proved for
  any number.
- FileServer: a file longer than a buffer and not a multiple of it, and the
  empty one, and a directory, which `stream_get` opens like a file.
  Two connections interleave; `FileServerProofs` has any number.
- ProgramStatus: with two ticks in a millisecond and three in the period, two
  requests fit into eight ticks, and their alerts may be handled each in its
  time, or in one batch, where the division by zero happens. Two metrics let a
  client read between the writes of one and of the other. More is proved.
- WebUI: two torrents are a row and another one before or after it; two requests
  of a kind are a late answer and one that overtakes it; one change is enough
  for both to differ, and `Init` starts with any table, so that it is
  an addition, a removal or progress. `"settings"` is the kind whose pane
  reads its data without looking; the other kinds are like `"status"` without
  its rows. What overlaps more is proved (`NothingAsked`) or only more of the same.

CHECK_DEADLOCK is left on in every run; the one-line actions `Dead`, `Stopped`
and `Over` stand for a program that has ended.

Symmetry is used for the torrents of `fastresume` only, in runs without liveness.

## Fairness

- `TorrentRegistry`: weak fairness of libtorrent's answers, of the main loop and
  of a running handler: the operating system runs the threads, and
  `async_add_torrent` is always answered by an alert. Requests need not come.
- `Fastresume`: weak fairness of the main thread, strong fairness of `Answer`:
  every request for resume data is answered, even when the alert queue
  is full now and then (the queue's bound is the model's). Nothing says that
  alerts ever stop, so `SaveReturns` must not rely on the timeout.
- `Program`: weak fairness of main, of the server thread's start, and of a
  running handler. The next start, requests, signals and crashes need not
  come.
- `FileServer`: weak fairness of the threads' steps and of the end of a send
  (`timeout_content` ends it if the client does not), strong fairness of each
  connection's turn: asio works its queue off in order, so that an event that is
  ready is not overtaken for ever.
- `WebUI`: weak fairness of the timer while it is set, and of an effect whose
  answer is there: the browser runs them. Strong fairness of each answer: a
  program that is asked every three seconds answers now and then, while single
  requests may fail for ever. `Converges` also assumes that the dashboard stays
  open, since other pages do not poll.
- `ProgramStatus`: none; it has no liveness property.

## Proofs

TLAPS proves for every value of the constants:

| theorem | property |
|---|---|
| `TorrentRegistryProofs!TypeCorrect` | `TypeOK` |
| `TorrentRegistryProofs!IdsUnique` | `IdsNeverClash` |
| `TorrentRegistryProofs!DeathNeedsCollision` | `DeathCauses` |
| `TorrentRegistryProofs!RegistryImplementsIdTable` | `ImplementsIdTable` |
| `TorrentRegistryLookupProofs!MissesDoNothing` | `NothingDoneOnMiss` |
| `TorrentRegistryLookupProofs!AnswersInOrder` | `AnswersAligned` |
| `TorrentRegistryLookupProofs!MissedIdsAreAbsent` | `MissingIsAbsent` |
| `TorrentRegistryLookupProofs!SessionAndTableAgree` | `SessionMatchesTable` |
| `FastresumeProofs!TypeCorrect` | `TypeOK` |
| `FastresumeProofs!CounterExact` | `CounterIsExact` |
| `FastresumeProofs!FilesGrow` | `FilesNeverGoBack` |
| `FastresumeProofs!CrashesCostLittle` | `CrashCostsOneFile` |
| `FastresumeProofs!SavesReachTheDisk` | `SavedMeansOnDisk` |
| `RestApiProofs!TypeCorrect` | `TypeOK` |
| `RestApiProofs!ErrorsChangeNothing` | `ErrorChangesNothing` |
| `RestApiProofs!SettingsApplied` | `SettingsAsAsked` |
| `RestApiProofs!AddsPassedOn` | `AddsAsAsked` |
| `RestApiProofs!ListingsFind` | `ListingNeverMisses` |
| `RestApiProofs!DeletesAllOrNothing` | `DeleteIsAllOrNothing` |
| `RestApiProofs!UploadsFound` | `UploadsCanBeAdded` |
| `RestApiProofs!RestApiKeepsIdTable` | `Spec => IdTable!Spec` |
| `ProgramProofs!TypeCorrect` | `TypeOK` |
| `ProgramProofs!KeysKept` | `KeysLostOnlyByTornWrite` |
| `ProgramProofs!PathKept` | `PathSurvivesRestarts` |
| `ProgramProofs!TableFound` | `SetConfigFindsTheTable` |
| `ProgramProofs!FailsOnce` | `OneFailedStart` |
| `FileServerProofs!TypeCorrect` | `TypeOK` |
| `FileServerProofs!OneThreadDoesNotMix` | `StreamsDoNotMix` |
| `FileServerProofs!AsAnnounced` | `BodyAsAnnounced` |
| `ProgramStatusProofs!TypeCorrect` | `TypeOK` |
| `ProgramStatusProofs!TotalsKept` | `TotalsNeverGoBack` |
| `ProgramStatusProofs!DividesSafely` | `DividesByTimePassed` |
| `WebUIProofs!TypeCorrect` | `TypeOK` |
| `WebUIProofs!NothingAsked` | `NothingAskedAfterLogout` |
| `WebUIProofs!SelectionKept` | `SelectionMovesWithOlderRows` |

These are all the safety properties of the runs that pass, and one refinement that has
no run: `RestApi`'s table is the abstract `IdTable`.

The assumptions are those the modules name: `MaxAdds` is a natural number, the
requests are sequences of naturals, `Null` is no torrent; in `Fastresume`, that
there is a version and a first start (`MaxVersion`, `MaxStarts` positive); in
`RestApi`, that a request has the members its handler reads (`AllRequests`), lists ids or
settings as its route does, and that the settings of a body come entry by entry, as a
loop over its entries meets them; in `Program`, that
the requests have the members the handler reads, and that there is a default
path; in `FileServer`, that a buffer is not empty and that no file belongs to both
handlers or is a directory; in `ProgramStatus`, that the period is longer than a millisecond; in
`WebUI`, that `"status"` is among the kinds and that some request may be on the way.

**Registry.** `TypeOK` is not inductive: that a new torrent fits into the slots
needs `Budget` (additions in flight and ids given out together stay within
`MaxAdds`), and that a handler's `ids[k]` exists needs `IndexOK`. `IdsNeverClash`
is inductive on top of that: only `NewTorrent` makes an id, from the counter, and
`EraseShift` moves an element and empties the slot it came from.
`DeathCauses` needs three more invariants, each of which says something until the
threads collide: `Layout` (the filled slots are exactly those below `size`, apart
from the element being erased, and every iterator is within its bounds),
`HandlesLive` (every handle in the vector, in an alert or in the batch has its
torrent) and `AnswerBound` (a look-up appends at most one answer per id, because
ids are unique). `DeathNeedsCollision` then follows from the step that changed
`fate`: while the process lives `fate` is `"alive"`, and a dead process stays
as it is. The refinement adds that every step of the vector adds one entry,
takes one away, or leaves the table as it is, or comes with a collision.

**Registry, look-ups.** These hold with collisions, so nothing may be said of
elements that an erase moves. They rest on what the HTTP thread's own walk has passed:
only the main thread writes while a look-up walks, and it writes behind the end
(`Above`: above `size` there is at most the entry that is being published, and a
walk in the current buffer ends at the end of the vector; one in a freed buffer never
ends, so it reports nothing). `LookUps` says that, in the current buffer, an id was
found exactly if a slot below the iterator has it (`Seen`), and that in the second
pass every id of the request has a slot: an id that is reported missing was
compared with every published slot (`MissedIdsAreAbsent`). `Aligned` says that the answers are those of a
prefix of the ids, in order, and `Untouched` that no torrent was used before the
last id was found. For `SessionAndTableAgree`, `Accounted` follows each torrent
of the session through libtorrent's queue, the batch and the vector (`Held`), and
`Parting` the one whose removal has begun; an erase keeps all
handles but that of the entry it removes, as long as the threads do not collide.

**Fastresume.** The exact counter is an equation over four places (requests
asked, answers in the queue, in the batch, and dropped) and so inductive with the
types; `TypeInv` adds that the batch is empty between two turns and that alerts name torrents.
Files do not go back because data for one torrent is answered, queued, drained and written
in one order: `InOrder` states it for the queue and the batch together, since
moving one into the other changes neither, `WriteInOrder` for the data being
written, and `Grows` relates file, session and the data saved last. The argument covers data
of a save that timed out. `TornInv` counts: one torn file per start that is
over, and the one that is being written. `SaveInv` says that what a save asked for is on
its way (`Due`: asked for, answered, being written, or on disk) until it is on disk or refused;
when nothing is outstanding, the exact counter leaves only the disk.

**REST API.** Up to the step that changes something nothing has changed (`Clean`),
and an error is only answered until then: ids that were looked up stay in the table
(`Found`), since only the HTTP thread erases. This is why `ErrorsChangeNothing` and
`ListingsFind` hold here; `TorrentRegistry` has the collisions. `Erased` says that the ids a delete has passed are gone
and stay so, because ids are below `greatest_id` and new ones are not. `Configured` is
the loop invariant of `torrents_settings_set`: after `m` calls a torrent has the last of
the first `m` values it is given for each setting, `ts` being what it gets of the
current entry (`LastOfEntry`); that the settings of an entry stand together is used there. `Parsed`
compares what was parsed with the request, one by one. `NoZero` is where the
requests that name id 0 part from the others: a handler that got past its look-ups
has none, and `Spared` says that one which is answered because of a 0 has changed
nothing, and that the ids before it exist. `Checked` is the lemma about the
look-ups that both rest on. `FilesInv` says that a
name stands for a file from the write on. `AddBudget` and `FileBudget` count what a request
may still add and write: the types need them, since ids and files are bounded.
`RestApiKeepsIdTable` joins the two depths: what `RestApi` takes for granted of
its table is what `RegistryImplementsIdTable` shows of the vector, up to a collision.

**Program.** `TypeInv` adds that a handler which runs has a request. `Served`
says that there is no request before main has started the server, and that
one which is being worked off was authorized, for which `database_path` is needed;
that is why the table `directory` is there for `set_config`. `KeysOnDisk` and
`PathOnDisk` tie the file to the memory: the file is complete except between
the truncation and the write, so only a write that is cut short can lose it.
`FoundOnDisk` is about a run that does not write the file: until the save, and
after one that could not open it, the file has the path that the run copied when it
started. `FailedOnce` says that after a failed start the file is gone, or
was made anew and not parsed yet.

**FileServer.** The invariant follows the position in the file. `Filled` says
what the shared buffer holds between the read that fills it and the copy: the next
units of the file of the connection the thread works for. `Busy` says that this
connection stays `"running"` until then, since nothing but the thread moves a
running response: this is where the single thread is used (`OneThread`). `Placed`
accounts for every unit read: those sent, to be sent and in the buffer add up to
`pos`; a response that ends did so after a short read, which reached the announced
length because files only grow (`Grown`); of a directory nothing is ever read, so
that its body is empty. `Ordered` is what `StreamsDoNotMix` says
of the two parts of a body, and `InOrder` puts them together.

**ProgramStatus.** A rate is a difference, so even the types need the order of
the counts: `Order` follows them from `bytes` through the queue and the batch to
`session_status`, the copy and the answer, each at least the next. A read can
only take a larger total into the copy, which gives `TotalsKept`. For
`DividesSafely`, `Timing` says that the requests, wherever they are, lie more
than a period apart, and that, as long as nothing was late,
`interval_last_point` lies at least a millisecond before the next of them. The
step that matters is the end of an alert: it moves `interval_last_point` to
`now`, and an alert in time leaves a millisecond to the next request.

**WebUI.** Types are proved in the groups that actions change together
(`Parts`); `PaneDrawn` is the lemma about the panes, for whichever row is
selected. `GuestsLogIn` (the timer runs on the dashboard only, and a guest
sees only the login page) is inductive, and a step of a guest that adds a
request would be `Poll`. For `SelectionKept`, `RowExists` shows
that a table with more than n rows has an n-th one, without induction: it comes
before the least id that has more than n rows below it (`LeastElement`, from the
well-foundedness of `<`). Tables that agree up to that row have the same one
(`SameRow`).

Only model-checked are the liveness properties (`AcceptedIsRegistered`,
`RequestsAreAnswered`, `SaveReturns`, `StopReturns`, `ResponsesEnd`, `Converges`): they follow from
fairness, whose meaning is in terms of `ENABLED`, which the provers at hand cannot
reason about.

## Where code and comments disagree

Each has a run, listed under "findings" in `PROJECT.json`:

1. `torrents_status_get` reads past its ids when the first torrent is registered
   between its two calls (`registry_status`).
2. Resume files of removed torrents are never deleted (`fastresume_removed`).
3. The last save does not cover torrents that are registered while it works off
   its answers (`fastresume_final`).
4. A signal that is handled before the acceptor exists leaves main waiting for
   a server nobody stops (`program_shutdown`).

Others were met while modelling and are in the models, but have no run:

- `restAPI.cpp:2489` says of a request that sets `default_download_path` that "no
  restart is needed". `torrents_add` uses the copy that the constructor of
  `RestAPI` made (`restAPI.cpp:23`, 1179), so a new path is shown by
  `program_settings_get` and used by nobody until the next start (`download_path`
  and `torrents_add` in `Program`).
- `README.md:16` says "Watch movies while they are downloading". `stream_get` sends
  what the file holds up to its end without asking which pieces are there, so
  a film contains holes, which read as zeros (`WritePiece` and `read` in `FileServer`).
- `README.md:18` says "Manage your torrents from anywhere". The built web
  interface asks `http://localhost:8040`, as `test_user`, whatever page it is.
- A 401 stores the authority "guest" in the browser. The login page asks for
  `/api/login/account`, which the server does not have, and the effect
  throws on its undefined answer: one refused request locks the user out of the
  web interface until the browser's storage is cleared (`logout` in `WebUI`).
- The selection of the dashboard is a row, not a torrent. When an older torrent
  goes, another torrent is selected and the buttons act on it; when the last row
  goes, the panes keep showing a torrent that is gone. The settings pane keeps
  those of the torrent before until the settings of the new one have come.
- `remove_torrent` and its like return the unknown id, and 0 for success. The URL
  patterns `[0-9,]*` and `[0-9,]+` admit 0: `DELETE /torrents/0,5` is answered with
  202 and "An attempt to remove the torrents will be made asynchronously"
  (`restAPI.cpp:1090`), and torrent 5 stays; a body of `torrents_settings_set` with an
  entry for id 0 is answered with 200 and changes no setting. The comment at
  `torrentManager.cpp:238` says "Check if all torrents in ids in fact exist".
  `DeleteIsAllOrNothing` and `SettingsAsAsked` say just this much: all, or, with
  id 0, nothing.
- `restAPI.cpp:151-152` is not sure of the pattern of deletes: "I make a request to
  delete 1,2,3 and it did not work. Test it." The pattern is right; in the model such
  a request removes all three if they exist, nothing and with 404 if one does
  not, and nothing with 202 if the first missing id of the list is 0.
- A `torrents_add` entry of unknown type is not refused: it is passed on as an
  empty `add_torrent_params`, without the default path, and answered with 202
  (`restAPI.cpp:1153-1243`); libtorrent then posts an error that no client sees.
- `stream_get` asks whether the path is a regular file, and the branch that should
  refuse it is empty but for "Is not file. Needs to be a file." (`restAPI.cpp:2869`).
  A directory is announced with the length its file system reports, and the client
  waits for a body that never comes (`Open`, `Lengths`, and the first part of
  `BodyAsAnnounced`).
- `save_config` and `save_session_state` only log a file they cannot open
  (`config.cpp:14-16`, `torrentManager.cpp:487-490`), and neither they nor
  `save_fastresume` look whether a write succeeded: a path that was answered with
  200 may be gone after a normal exit. `set_config` says nothing of it.
- The comment at `torrentine.cpp:67` asks not to remove a torrent before its
  resume data has come; nothing keeps the HTTP thread from it, and `status()` of
  the removed torrent then throws on the main thread (`Dies` in `Fastresume`).
- `download_file` returns true always (`utility.cpp:162`), so error 3230,
  "server could not download torrent file from HTTP URL", is never sent: the
  client is told 3240 instead.
- Nothing checks whether a file under `torrent_file_path` could be opened for
  writing. An upload is then answered with names that do not exist, and a
  download passes a null `FILE` to `fclose`. The default configuration's `./temp/`
  is not created by the program.
- `torrents_info_get` dereferences a null `torrent_info` for a magnet without
  metadata (`restAPI.cpp:2140`); `torrent.cpp:26` guards against just that.
- `save_session_state` prints the entry with `<<`, which in libtorrent 1.1 is
  its readable form and not its bencoding. `load_session_state` cannot decode it, so
  session settings do not survive a stop, although the log says "Session state
  was saved at" (`torrentManager.cpp:482-484`).
- The default configuration lacks `database_path`, `session_state_path` and
  `fastresume_path`: with it every request is answered with 401, and nothing is
  saved.
- An empty configuration parses, so that one truncated by a crash is never
  renamed to `.old`; nor is one whose write fell short between two lines.
- A file that grows while it is sent gives a body longer than its
  `Content-Length`, which is why `BodyAsAnnounced` says "at least" of files.

## What is not modelled

- `get_logs` and `server_directory_get`: read-only, over the file system.
- Passwords in SQLite: a request has valid credentials or not.
- JSON that is malformed or lacks members: `RestApi`'s bodies are well-formed.
  Gzip, headers and CORS do not influence state.
- A download that decodes but is not a torrent makes `torrent_info` throw; it is
  not told apart from one that does not decode.
- `set_queue_position` and the other calls of libtorrent are one kind of call;
  only settings are remembered, since only they are read back.
- What a look-up finds in a freed buffer beyond death and the present elements, and
  the moments inside a reallocation (`TorrentRegistry`).
- A torrent that a client adds again after removing it (`Fastresume`: never;
  `RestApi`: an error).
- The address already in use: the server thread then logs and ends.
- Data races on the configuration and on `on_error` beyond the choice of old or
  new value.
- Of the web interface: the filters of the table (no other state depends on
  them), the forms that add torrents and change settings (one request each, whose
  answer only makes a message), the footer of `program/status` and the settings
  page (an answer replaces its own part of the store), the login form. Of
  `request`, retries do not exist and timeouts are the browser's.
- `num_peers_connected` and `num_peers_half_open` of `SessionStatus` are never
  written, and so always answered as 0.
- The test in `test/` checks a factorial function; `third_party` is vendored.

## Plan

In this order:

1. Done: `IdTable`, `TorrentRegistry`, `Fastresume`, `RestApi`, `Program`,
   `FileServer`, `ProgramStatus` and `WebUI`.
2. Done: proofs of the refinement and of every safety property of the runs that pass.
3. `Torrentine`: `RestApi` and `Fastresume` over one table, to check that what a
   client was told was added is there after a clean stop; its abstract
   specification is the set of torrents a client believes in.
