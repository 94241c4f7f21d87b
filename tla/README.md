# Formal models of yuke

yuke is a coding agent: a server that runs turns of a language model with tools, saves each session in a shared SQLite
store, and shows it to clients over a line protocol. This directory holds TLA+ models of its core, the TLC
configurations that check them, and TLAPS proofs about the engine of a turn, the stored session, its files, loads and
forks, its open session, what its listeners show, its background jobs and MCP servers, the connections, the logins,
the plugin manager, the scopes of plugins and the facts that they hear. Every definition translates the code under
`src/crates/`; the lines are in `PROJECT.json`, `map`.

Run `tlc -config MCTurn.cfg MCTurn.tla` to check an instance, and `tlapm TurnProofs.tla` to check the proofs.

## The system

```
 clients (RPC, TUI, print)              plugins (JavaScript)        other yuke processes
        |  lines    ^ updates, requests     | tools, hooks, jobs           |
        v           |                       v                              v
  Connection --> SessionService ---- LiveSession: task, Output, Jobs, Servers   Logins,    crates yuke, js, mcp
                    |                   |       Scopes, Facts of the plugins    PluginFiles
                    |              SessionTurn (inbox, journal, lease)                     crate agent
                    |                   |
                    |              Driver + TurnState --> Encode, Reply <-- decoders <-- Sse       crates engine, ai
                    v                   v
                 Store: rows in SQLite, session folders with a lock and blobs              crates agent, store
```

One process runs everything above the store on one thread: a step is the code between two awaits, and two tasks
interleave at each await. The store runs each call on its own thread, in order. Several processes share one store and
one `auth.json`.

| Component | State | Operations | Hard parts | What makes it correct |
|---|---|---|---|---|
| Turn (`engine/src/drive.rs`, `turn_state.rs`) | context, mark of the saved blocks, answer, calls, results | send input, replace the context, request with retries, take an answer, run tool groups, commit, ask the inbox, end | a cancel at any await; partial answers; groups of parallel and serial tools; a crash after any commit | the journal replays to the context; nothing acts on an unsaved block; each call gets one true result; a cancel ends the turn |
| Model replies (`ai/src/reply.rs`, `stream.rs`, `stream/*.rs`) | block table of the draft, open blocks by index, events not yet read, the parts of the reader; bytes of a line and of an event | decode a payload of each provider, hand out its events, keep them, end, cancel; feed a chunk, read a line, end an event | blocks that interleave, stop late or use an index again; a payload with text and a failure; a cut payload; line endings split over chunks | the reader keeps what the provider said, block by block; the reason of the end fits the blocks; the events are those of the body, however it is cut into chunks |
| Model requests (`ai/src/encoder.rs`, `wire/*.rs`) | the elements of the last request in one buffer, a hash of each block | encode a request of each protocol | a context that a hook replaced, a moved cache marker, another model, an attachment that fails half way | a body is what a new encoder would write |
| Session (`agent/src/session.rs`) | context and settings in memory, lease, taken inputs | open, recover, turn, take, commit, settings | dropped futures with a queued write; failed writes; two processes; crash inside a turn; a client that removes a taken input | memory is the store while the lease is held; an input is consumed once and in order; the model hears of an interrupted turn |
| Store files (`store/src/store.rs`, `files.rs`) | rows, folders, lock files, blobs | create, fork, open, delete, put, sweep at a start | the rows and the folders change apart; each step of a call meets steps of other processes; errors half way | one owner; no file of a saved session goes; no delete under an owner |
| Store queries (`store/src/context.rs`, `queries.rs`) | the events of a session | load a context, fork at a cut | replacements that keep blocks of earlier replacements; a fork in the middle of a turn | a load is the replay of every commit; a fork starts between turns |
| Session service (`yuke/src/app/sessions.rs`, task in `live.rs`) | slot per session, attachments, countdown, phase, wake, counts of inputs | create, open, attach, detach, load, input, idle, settings, close, remove, reload, shutdown, expire | each call has several awaits; a cancelled countdown still fires; an old attachment drops late; shutdown during an open | only an unheld idle session closes by itself; no lost wake; a closed slot has no task; idle tells the truth |
| Output (`live.rs`, client in `transcript.ts`) | events, listeners, kept updates, questions | publish, load, view, ask, answer, close | snapshots read beside live updates; answers of the store that arrive late or overtaken; failed reads and writes | every event once; what a listener shows is what the session is |
| Jobs (`js/src/jobs.rs`, `processes.rs`, `runJob` of `hooks.ts`) | list of jobs, tokens, process groups | start, move to the background, stop, reload, close, end | a move against an end; a stop against an exit; a close beside a start | one end in one place; the close leaves nothing |
| MCP servers (`mcp/src/servers.rs`) | slot, task and program of each server, the count of those that start, the stops | start, trust, agree, ready, take the tools, call, stop, close | a start that fails, is refused or is aborted; trust during the close; a program that exits at any time | a turn takes every server that could start; the close leaves none and ends |
| Connections (`yuke/src/rpc.rs`) | the active client, its queue and writer, the requests that wait for an answer | accept, retire, handle a line, notify, ask, cancel, answer, shut down | a client that leaves, falls behind or never reads; late and double answers; a stop of a job that outlives its client | a request gets its own answer or ends; no gap in what a client gets; each connection ends |
| Logins (`yuke/src/auth.rs`, login methods of `app.rs`) | `auth.json`, its lock, the spent tokens, the login in progress | read, refresh, save, device login, cancel, logout | a refresh token works once; crashes and failed saves after it went out; a login or a logout of another process meanwhile | a token goes out once, unless its save was lost, its process crashed, or the provider refused it only for now; a save replaces the login that it refreshed; everything ends |
| Plugin scopes (`internal/hooks.ts`, `js/src/session.rs`, `js/src/tools.rs`) | scope of each open and plugin: setup, hooks, tools, jobs, cleanup; runs of a hook point | open, set up, define, start a job, run a point, plan a round, close, drop | a setup that fails, late or after the close; abort listeners inside a close; a reload beside the old open; plans that build on each other | the turn gets tools only of scopes that are set up and open; a close leaves no hook, tool or job; a plan keeps what its last handler kept |
| Facts (`yuke/src/app/facts.rs`, `js/src/native/delivery.rs`, `internal/facts.ts`) | known sessions, the queue of the engine, listeners | watch, announce, deliver, add and remove a listener | listeners that come, go and throw inside each other's callbacks; facts of an old watch in the queue | a listener hears of each open session once, and knows the state of each |
| Plugin manager (`yuke/src/plugins/manager.rs`, `lock.rs`) | `config.json`, `plugins.lock`, the installs, a file lock | add, remove, sync, check, apply | stops between two writes; other processes; hand edits; refs that move | nothing in the data folder is half an install; the lock names what is installed; what a client is told is what the check found |
| Not modelled | | sessions that plugins hold, drafts of the updates, terminal | see "Not modelled" | |

`PROJECT.json` lists every component with its status. The hazards there name the line where each can bite and the
property that would catch it.

## Modules and runs

| Module | Models | Part of the run |
|---|---|---|
| `Turn` | one turn, action by action | `turn` (parts `rounds` and `tools`) |
| `Draft` | the block table that the decoders share | `turn` (part `reply`), `reply_text` |
| `MessagesReply`, `ChatReply`, `ResponsesReply` | the decoder of each provider, as functions of a reducer and a payload | as `Draft` |
| `Reply` | one attempt: payloads, events, the reader, its end and cancel | as `Draft` |
| `Sse` | the parser of server-sent events | `turn` (part `sse`) |
| `Wire` | the groups that each protocol makes of blocks, as functions of a writer | `turn` (part `encode`) |
| `Encode` | the encoder of one turn over its requests | as `Wire` |
| `TurnProofs` | the theorems about `Turn`: its journal, its calls and its cancel | proofs |
| `SessionProofs`, `SessionServiceProofs`, `OutputProofs` | the theorems about the module of that name | proofs |
| `StoreFilesProofs` | the theorems about `StoreFiles`, and about the loads and forks of `ContextLoad` | proofs |
| `EdgesProofs` | the theorems about `Logins` and `Connection` | proofs |
| `LiveProofs` | the theorems about `Jobs` and `Servers` | proofs |
| `PluginProofs` | the theorems about `PluginFiles`, `Scopes` and `Facts` | proofs |
| `InputQueue` | what a session promises about its inputs (abstract) | the property `ImplementsQueue` of `store` |
| `Session` | one stored session and the processes that open it | `store` (part `session`), `session_inbox_fails` |
| `StoreFiles` | rows, folders and locks of many sessions and processes | `store` (part `files`), `files_fork_sweep`, `files_create_open` |
| `ContextLoad` | the events of one session, its loads and its forks | `store` (part `context`) |
| `SessionService` | the registry and the task of one session id | `service`, `live` |
| `Output` | updates, loads and views of one open session | `service` |
| `Jobs` | the jobs of one session | `service`, `live`, `jobs_move` |
| `Scopes` | the plugins of the opens of one session | `service` |
| `Facts` | what the listeners of the plugins hear of the sessions | `service` |
| `PluginFiles` | the files of the plugin manager | `service` |
| `ConnectionBounds` | the bounds of `Connection` and their assumptions | `edges` |
| `Connection` | the clients of the server and the requests of the plugins | `service`, `edges` |
| `Servers` | the MCP servers of one session | `live` |
| `Logins` | the stored login of one provider | `edges`, `logins_spent`, `logins_logout` |

`MCTurn`, `MCStore`, `MCService`, `MCLive` and `MCEdges` each put several modules into one instance with their
bounds. Each behaviour runs one part, which `part` names, and the others stay in a first or an end state: the state
graph is the disjoint union of the parts, and a property of a part is checked on that part alone. `MCSession`,
`MCStoreFiles`, `MCJobs`, `MCReply` and `MCLogins` are the instances of the violation runs.

The modules compose by their boundaries: `Session` reduces a turn to the order of its commits, which `Turn` has in
detail; `Turn` reduces a reply to the parts that `Reply` gives it, and `Reply` the body to the payloads of `Sse`;
`SessionService` reduces the store to "saved" and "leased", which `StoreFiles` has in detail; `ContextLoad` reads what
`Session` writes; `Output` reduces a turn to its commits and looks only at what is published; `Jobs` and `Servers` keep
of the close only its order, which `Scopes` has in detail; `Facts` sees of a session its state and its questions.

An operator with a suffix after `_`, or with the comment "Mutant", is a changed form of the definition after it. It
belongs to no specification: `PROJECT.json`, `mutants`, names the property that it would break.

### Turn

`pc` is the await where the driver waits. `AfterSave` maps each save to the step after it. The blocks of the context
have a kind, the id of their call, and a tag (how a call runs, how a result came). The provider, hooks, tools and the
inbox answer with anything their type allows; `cancelled` can become true between any two steps, and `race` gives a
result only while it is false, as the code polls the token first. Left out: text, encoding, search results, usage
numbers, the order of text and calls inside an answer.

Bounds: 2 rounds, 2 attempts and answers of 1 block give every pair of answer and next request, with a replacement
before each, one retry and one refusal; 1 round with answers of up to 3 blocks gives each mix of parallel, serial and
refused calls with a group before and after a serial one. The first context is empty or holds a call of an earlier turn.

### Draft, MessagesReply, ChatReply, ResponsesReply, Reply

A draft is a record: the blocks in start order, the events of the last payload, the reason of the end. A decoder is a
function from its state and a payload to its next state, and a frame that it rejects leaves an error. Text counts in
deltas and arguments in fragments, so a delta in a wrong block, a lost one or a repeated one changes a number. `Payloads`
gives the frames that a provider may send in a state, also those that a decoder must reject: a block index that was
used, a delta of another kind, a stop of a closed block, text after the finish. `said` is a history of what the provider
said about each of its own blocks under its own address, and `ReplyTrue` compares the reader with it. Left out: usage,
the typed and the tree path of a payload (they decode the same frames), the limits in bytes but those on blocks and
arguments. A cut payload that decodes counts; one that does not is a truncation. A reasoning item of the Responses
protocol whose part stopped before its done item brings encrypted content is a protocol error, as in the code.

Bounds: 3 blocks and 2 argument fragments, so that each limit is met; 4 payloads for Messages and Responses and 3 for
Chat, whose payloads hold several parts. Two blocks that interleave and a third that reuses an index need four.

### Sse

One action per turn of the loop in `read_line` and `next`. A body grows by chunks of 1 or 2 symbols, up to 6, from
line endings, the mark, the field `data:` and another symbol; the limit of an event is 2. `Frames` is the reference: it
splits the whole body into lines and events as the format says, without chunks. `FramesTrue` compares the payloads.

### Wire, Encode

A request is a sequence of tokens: the opening and the close of what holds parts, a part, a comma. A block is its kind,
because no content decides where an element ends; a `missing` attachment fails its write. The hashes are what they hash.
`Next` encodes any request of the workload, so a behaviour grows, cuts and edits the context, moves the cache marker,
changes the target and fails in any order. `BodiesTrue` compares each body with that of a new encoder, checks its commas
and its blocks, and that a retry reads no blob. The checks before the first write change no element and are left out.

Bounds: contexts of up to 3 or 4 blocks of 2 to 4 kinds, seven workloads that put together the kinds that share an
element: an element with a block before it and one after it, and a second one that is kept.

### Session

The database is shared; each process has a connection that runs its calls in order. A caller can drop the future of a
turn: the write that it waited for stays `queued`, and it holds a clone of the owner lock. A process without lease is
"stale" or closed. `Recover` is the open of a stale session and of a new one: it repairs an open turn with a commit of
results and a failed end. Faults are dropped futures, crashes, failed writes and failed hooks.

Bounds: 2 processes, 3 inputs, 1 answer, 2 faults: a crash or a drop in one process, the repair in the other, and a
second fault meanwhile. Three inputs give one consumed, one taken and one that arrives late.

### StoreFiles

Each SQL transaction and each file operation is one step, and the calls of other processes run between the steps. A
lock belongs to its lock file: a removed folder leaves its holder with a lock that guards nothing. `take_lock` opens
and tries in one step. `Workloads` picks the calls of a behaviour, its processes and faults; the workloads of the run
`store` leave out the combinations that break its properties, which the two violation runs show (fork beside sweep,
create beside open, and a fork with a fault beside an open).

Bounds: 3 processes, 2 sessions, 1 blob, 1 fault. The second session is the one that is created or forked; three
processes give an owner, a deleter and a newcomer.

### ContextLoad

`events` is the table; `running` is what a session has in memory after it applies each commit. `Load` follows the code:
the newest replacement, the walk back for the blocks that it keeps, the commits from there, the newest tokens. Each
block is a block of its own (`<<event, part, index>>`), so a load that takes a wrong one, one twice or none differs.

Bounds: 7 events with commits of 2 blocks and heads of 0 or 2, which nest three replacements; 6 events with settings,
tokens, ends and forks.

### SessionService

One session id. At most one `Session` object exists, because the store refuses a second owner, so the task, its token,
its wake and its counters are scalars; attachments name the number of their open, as the code compares pointers.
`Leased` follows the holders of the session object, in-flight calls included. Countdowns have no duration: one that is
armed may fire, and one that was cancelled fires without effect.

Bounds of `service`: 2 callers, 2 inputs, three workloads: the slot; the turns beside what they exclude; inputs between
the steps of the task. Bounds of `live`: 2 callers, two workloads: the countdown beside attachments, reloads and the
shutdown; idle calls beside a turn. Every hazard here is a race of two calls, or of one with the task or a countdown.

### Output

The store answers in order, and the tasks resume in the order of the answers. Only the request of the RPC client runs
outside that queue (its future is the root of the runtime), so its answer may come earlier. A listener is off, waits
for its snapshot and keeps updates, or is on. `client` is what the listener shows after it applies the updates, by the
rules of `transcript.ts` for a view and of the protocol for the client. A client of the protocol drops a repeated event
by its number (`protocol/README.md:111`), so the claim that none repeats is about views. Its parts about events and
settings are stated without failed writes: a failed write may have saved its event, and nobody publishes that one
before the next load. The host takes the settings of the session at the start of a turn (`live.rs:809`), which is how it
learns of such settings. `ShowAll` gives what a listener shows after many updates at once, field by field, from their
places in the sequence; its `New` follows the transcript, where each event can hide later ones.

Bounds: one client, one view, pages of 1 event, 3 saved events, four workloads. A failed write is in the workload
without settings: a lost settings event reaches a view only with the event of the recover, which the transcript takes
as a plain event; the live settings come from the snapshot.

### Jobs

The kinds are a command in its call, a command that starts as a job, and the work of a plugin in either way. A client
may load at any time and starts from the running jobs. The close follows the code: cancel of the turn and its calls,
the scopes of the plugins and the wait for their work, then each job. `late` allows a background request while a call
ends, which is the disagreement `jobs_move`. Bounds: 2 jobs of any kinds. Jobs share only the list and the close, so
two show the close that waits for one while the other ends.

### Servers

One action per await of the task of a server, of the trust and of the close. The program and the connection of the
library are external: a program exits at any time, and a connection whose program exited or that was told to stop ends.
As in the code, `agree` has no timeout, so a turn may wait until its cancel; a server that connects while the close
waits for it has no stop that the close took, so its task is aborted and its program ends in the background. Bounds: two
configurations of 3 or 4 entries, with a server of the user, a project server in its place, one that is off and one that
does not parse.

### Connection

The loop of `serve`, one line or client at a time, with the writer task of each connection and the requests that the
plugins wait for. A message is a line, a request or a cancel. `lost` and `answers` are histories: the clients with a
message that they do not get, and how often each request was answered. A retired connection may lose its last messages
when the server ends, and a plugin request ends with the signal of its session, so no method of the app waits for one.
Bounds: 2 clients, 2 plugin requests or one beside a request of each client, a queue of 1, so that one unread message
fills it.

### Scopes

A step is the script between two awaits, and `aborting` orders the abort listeners that run inside the step of a close or
of a failed setup. A tool is the scope that defined it. A run of a hook point copies the lists of its handlers first and
then calls one after another; a plan keeps the context of its round as a head and a count of kept blocks. Bounds: two
opens of one plugin; the setups, tools and jobs of two plugins; a run of two plugins beside the close; and the plans of
three handlers, over 2 blocks, with heads of 0 to 2.

### Facts

The app and the engine share one thread, so the script runs to its end before the app goes on; `frames` is the stack of
the loops and callbacks that are inside one another. A fact carries the key of its watch, and the script drops those of
an older one. Bounds: two sessions with two listeners, and one session with a third listener; 2 changes of a session and
a stack of 4. The hard case is a listener that is added by the callback of another for the same fact.

### PluginFiles

Each write of a file is one rename and one step, and a call stops after any of them. Calls of several processes take
turns under the file lock; the user does not wait for it. `brought` are the commits that the dotfiles of another machine
locked, `gone` the plugins that left `config.json` by hand or by a removal that stopped. Bounds: 2 processes, 2 plugins,
2 commits, up to 2 edits, three workloads: a plugin of another machine, two plugins of one name, and a commit that does
not load.

### Logins

Each attempt of a model request is a task; a refresh runs in a task of its own, so only a crash cuts it. `used` are the
tokens that can be used up at the provider: an exchange went out and did not fail before its send, and no later grant
kept the token. `repeats` are those whose last exchange lets another one go out: its new login was not saved, its
process crashed, or the provider answered with a refusal that may pass. Such a refusal is any status outside 2xx but
401, with no code that ends the grant, such as a 503 (`ai/src/oauth.rs:377-386`). The code keeps the login then and
sends the same token again later, because a wrong end costs the whole grant (`oauth.rs:384`); its tests expect it
(`auth/tests.rs:348`, `oauth/tests.rs:193`). A fault after the send has no answer, and ends the login. So `RefreshOnce`
trusts the word of the provider and nothing else: it says nothing of a 504 of a gateway behind which the token was
spent. Every closure that writes can fail. The clock and the provider are external: an access token ages, and an
exchange is granted with or without a new refresh token, refused for now or for good, or lost on either side. A token
that can be used up may still be granted, since nobody knows. Bounds: 2 attempts, 2 grants, 2 logins, in one process or
two.

## Properties

| Property | Run | Says |
|---|---|---|
| `ReplayIsContext` | `turn` | at every await, who replays the commits gets the context, through replacements and failed saves |
| `SavedBeforeActs` | `turn` | requests, hooks and tools act only on saved blocks |
| `CallsAnswered` | `turn` | a request or an ended turn has one result per call; in the journal only calls at the end lack one |
| `ResultsTruthful` | `turn` | "not executed" stands exactly for tools that never started; a display names its own result |
| `SerialAlone` | `turn` | a serial tool runs beside no other call |
| `CancelEnds` | `turn` | after a cancel nothing new starts, and the turn ends though nobody answers |
| `ReplyTrue` | `turn` | the reader keeps what the provider said, block by block; an attempt has one end, and its reason fits its blocks |
| `FramesTrue` | `turn` | the events of a body do not depend on its chunks |
| `BodiesTrue` | `turn` | a body is what a new encoder writes, with each block once and in order; a retry reads no blob |
| `MemoryIsStore`, `WritesContinue` | `store` | the owner's memory is the store; a queued write of an old owner meets no newer owner |
| `RecordsMatchBlocks`, `ImplementsQueue` | `store` | consumed records name the saved blocks; inputs leave once and in order |
| `InterruptionTold` | `store` | the model hears of an interrupted turn |
| `OneOwner`, `BlobsKept`, `LiveSessionsKept` | `store` | one owner; each named blob is there; no file of a saved session goes, and no delete under an owner |
| `LoadIsReplay`, `ForksAtEnd` | `store` | a load is the replay of every event; a fork starts between turns |
| `SlotTrue` | `service` | the slot agrees with its holders, its countdown, the store and the task |
| `NoLostWake`, `IdleTells` | `service` | an accepted input is run or refused; idle returns at the right time |
| `ListenersTrue` | `service` | a listener has each event, in a view once, and shows the true inputs, settings, state and questions |
| `JobsTold` | `service` | a client shows the running jobs, and each end goes to its call or to one update and one report; a close leaves no job and no process |
| `RequestsTrue`, `NothingLost` | `service` | a plugin request gets its own answer; a client has no gap, and each request one answer |
| `ScopesTrue` | `service` | a turn gets tools only of plugins that are set up and open, a failed or closed plugin runs no handler and gives no answer, and a close runs each cleanup and leaves no job |
| `PlanTrue` | `service` | the head and the kept blocks of a round are what the answers of its handlers give one after another |
| `FactsTrue` | `service` | a listener hears of each open session once, and the script knows the state of each, whatever listeners come, go and throw meanwhile |
| `PluginsTrue` | `service` | a reload finds whole installs of the locked commits whatever stops a call, a sync repairs the rest, and a locked plugin moves only when a client applies a change or adds it again |
| `CloseLeavesNoServer`, `TakesAll`, `ServersEnd` | `live` | no server outlives the close; a turn takes each server that connected; ready and the close end |
| `StopEnds`, `SessionsClose`, `IdleReturns` | `live` | stopped commands end; an unheld session closes, also in a shutdown that starts while it opens; idle returns |
| `ConnectionsEnd` | `edges` | a request ends when its client is gone, a connection that left or fell behind closes, and a shutdown ends |
| `RefreshOnce`, `SaveReplacesOwn`, `LoginsEnd` | `edges` | a token that can be used up goes out again only when its new login was lost, its process crashed, or the provider refused it for now; a save never replaces a login that it did not refresh; attempts and methods end |

`Turn` has a type invariant too; it is proved for every bound and is in no run.

## Fairness

Safety holds without fairness. The liveness properties assume what the executor and the code give:

- `Turn`: the executor resumes a driver whose save, inbox read or cancelled race is ready, and a tool returns after its
  cancel, as its contract says (`engine/src/tool.rs:45`). No hook, provider, credential or timer is assumed to answer;
  `CancelEnds` holds without them.
- `SessionService`: the executor runs each ready step of calls and task, timers fire, and a turn ends after its token is
  cancelled (`CancelEnds` of `Turn`). Callers need not call, reloads need not end, and a turn that nobody cancels may go
  on; `SessionsClose` and `IdleReturns` state these as premises.
- `Jobs`: the executor runs the ready steps of the tasks, and a killed process group ends. Nothing makes a process exit,
  a timeout fire or the work of a plugin end; the close needs the last one as its premise.
- `Servers`: the executor runs the ready steps, and a connection that was told to stop ends. Nothing makes a program
  start, agree or exit, or a user answer.
- `Connection`: the methods of the app end, the close of the sessions drops the waits of their plugins, and the drain
  limit passes. A client need not read or write. `select!` polls in a random order, so the end of the writer of the
  active client is taken although lines come (strong fairness).
- `Logins`: the wait for the lock and the exchange have limits, closures of the blocking threads end, and the polls of
  a login that was told to stop end. The user need not approve.

`CHECK_DEADLOCK FALSE` stands where the system may rest: a stopped app, a closed session, a server that ended.

## Disagreements of the code with its documentation

1. `session_inbox_fails`: an input hook that fails for a later input of one read should end the turn with a failed
   round. The earlier inputs of that read stay taken, so the commit of the end names inputs without blocks and the
   store rejects it. The turn stays open in the store until the next recover.
2. `files_fork_sweep`: "the lock of the new folder keeps the sweep away" until the rows exist. The sweep reads the
   missing row and frees the lock before the removal, and the fork can come in between: the new session loses its
   folder.
3. `files_create_open`: "nothing else can open or delete" a failed creation. Another process can find its rows before
   the creator has the lock, and the failed creation then deletes the session under its owner.
4. `jobs_move`: "nothing else can win" after an accepted move. The list accepts a move until the entry is gone, also
   while the call already ends: the job shows as running, and ends without its update.
5. `logins_spent`: "none goes out again" of the tokens that a refresh can have spent. A failed save frees the lock
   before its task notes the token, and another attempt of the process can send it in between.
6. `logins_logout`: "the removal comes after its task". A login that a newer one replaced while it was saving is in no
   entry, so a logout does not wait for it, and its save writes the login back.
7. `reply_text`: the test of a chunk with text and an interrupted finish reason expects the text before the failure. The
   stream returns the failure with the events of the chunk still unread, so the reader and the partial output lack it.

Also met, without a run: a removal of the input of a turn after its interruption note was saved lets the next turn
start with the note alone (`agent/src/session.rs:486`); the model then still hears the truth. And in Chat Completions a
run of reasoning alone (the kept part of a cancelled answer) is not written, so the user messages before and after it
stand in a row, although `ai/src/wire/openai_chat.rs:113` says that a strict host refuses that. In the plugin manager, a
`sync --locked` with no Git plugin in `config.json` accepts any lock, although the lock must match
(`yuke/src/plugins/manager.rs:150`); an add that stops between its two writes leaves a plugin whose name the clash check
of a second add does not see; and a sync writes from the lock that it read before its fetches, so a `plugins.lock` that
the user brings meanwhile is overwritten (the model lets the user bring one only while no call runs).

## Proofs

Each theorem holds for every value of the constants; an assumption is named where one is used. Every proof has the same
form: an inductive invariant, a lemma that the first states satisfy it, one step for each action, and the last step,
which combines them with temporal logic. TLC checked each invariant before its proof.

| Theorem | States | From |
|---|---|---|
| `TurnProofs!TypeCorrect` | `Spec => []TypeOK` | `BoundsAssumption`, `ContextAssumption` |
| `TurnProofs!CommitsReplay` | `Spec => []ReplayIsContext` | the same |
| `TurnProofs!SavesBeforeActs` | `Spec => []SavedBeforeActs` | the same |
| `TurnProofs!CallsGetOneResult` | `Spec => []CallsAnswered` | the same |
| `TurnProofs!ResultsTellTruth` | `Spec => []ResultsTruthful` | the same |
| `TurnProofs!SerialToolsAlone` | `Spec => []SerialAlone` | the same |
| `TurnProofs!CancelStartsNothing` | `Spec => [][NoNewWork]_vars`, the safety part of `CancelEnds` | nothing |
| `SessionProofs!MemoryIsStoreHolds` | `Spec => []MemoryIsStore` | `SessionAssumption` |
| `SessionProofs!WritesContinueHolds` | `Spec => []WritesContinue` | the same |
| `SessionProofs!RecordsHold` | `Spec => []RecordsMatchBlocks` | the same |
| `SessionProofs!InterruptionToldHolds` | `Spec => InterruptionTold` | the same |
| `SessionProofs!QueueImplemented` | `Spec => ImplementsQueue`, the refinement of `InputQueue` | the same |
| `SessionProofs!OneHolderHolds`, `TypeCorrect` | at most one process has the lease; the types | the same |
| `StoreFilesProofs!OneOwnerHolds` | `Spec => [](NoForkSweep => OneOwner)` | `Existing \subseteq Sessions` |
| `StoreFilesProofs!BlobsHold` | `Spec => [](NoForkSweep => BlobsKept)` | the same |
| `StoreFilesProofs!FoldersLive` | `Spec => [][NoForkSweep => FolderLives]_vars` | the same |
| `StoreFilesProofs!OwnedRowsStay` | `Spec => [][NoForkSweep /\ NoCreateOpen => DeletesOnlyFree]_vars` | the same |
| `StoreFilesProofs!ForksStartAtEnd` | `Spec => ForksAtEnd` (of `ContextLoad`) | nothing |
| `StoreFilesProofs!LoadsReplay` | `Spec => []LoadIsReplay` (of `ContextLoad`) | `SaneHistories` |
| `SessionServiceProofs!SlotsTrue` | `Spec => []SlotTrue` | `CallersAssumption`, `WorkloadsAssumption` |
| `SessionServiceProofs!NoWakeIsLost` | `Spec => []NoLostWake` | the same |
| `SessionServiceProofs!IdleTellsTruth` | `Spec => IdleTells` | the same |
| `OutputProofs!ListenersTrueHolds` | `Spec => []ListenersTrue` | `OutSane` |
| `LiveProofs!EndsTold` | `Spec => []EndTold` | nothing |
| `LiveProofs!ClosesLeaveNone` | `Spec => []CloseLeavesNone` | nothing |
| `LiveProofs!JobsToldHolds` | `Spec => [](NoLateMove => JobsTold)` | nothing |
| `LiveProofs!ServersLeaveNone` | `Spec => []CloseLeavesNoServer` (of `Servers`) | `FiniteConfigs` |
| `LiveProofs!TurnsTakeAll` | `Spec => TakesAll` (of `Servers`) | the same |
| `EdgesProofs!RequestsStayTrue` | `Spec => []RequestsTrue` (of `Connection`) | `ClientsAssumption`, `AskersAssumption` |
| `EdgesProofs!MessagesStay` | `Spec => []NothingLost` (of `Connection`) | the same |
| `EdgesProofs!RefreshesOnce` | `Spec => RefreshOnce` | nothing |
| `EdgesProofs!SavesReplaceOwn` | `Spec => SaveReplacesOwn` | nothing |
| `PluginProofs!PluginsTrueHolds` | `Spec => []PluginsTrue` | `Sane` |
| `PluginProofs!ScopesTrueHolds` | `Spec => []ScopesTrue` (of `Scopes`) | `SaneScopes` |
| `PluginProofs!PlanTrueHolds` | `Spec => []PlanTrue` (of `Scopes`) | the same |
| `PluginProofs!FactsTrueHolds` | `Spec => []FactsTrue` (of `Facts`) | `SaneFacts` |

**TurnProofs, the journal.** For every bound on rounds, attempts and answers, and every set of first contexts whose calls are
answered, which the session repairs before a turn. `ReplayIsContext` is
not inductive alone. `Quiet` adds that no commit waits outside a save, so a step outside a save changes the context and
the commits together or neither; `Counters` has the bounds at each await; `GroupInv` keeps the group that runs inside
the calls that wait; and `CallsInContext` says that the calls that run are in the saved context, which is what
`SavedBeforeActs` needs when a tool starts. The lemmas `TakeUnsavedReplays` and `ReplaceReplays` say what a commit and a
replacement do to the replay, and rest on the facts about splices in `SpliceProperties`. `PlanStep`, `AppendStep` and
`DoneStep` each serve several actions of one shape.

**TurnProofs, the calls.** On the invariant of the journal, `CInv` follows a call from the answer that brings it to its result.
`NewIds` gives each call of an answer an id of its own, above those of the first context; `CallsLast` says that the calls
without a result are the last blocks of the context and are the calls that the turn still has to run, in their order;
`StartsShow` reads from the status of a call whether its tool started, and `GroupAlone` the calls that run to the
plan. `Truth` and `ShownTrue` carry "not executed" and the displays. The work is in the lemmas about the context:
`AnswerJoins` and `ResultsJoin` say which calls a commit leaves open, `SpliceAnswered` that a replacement leaves
none, since a result comes after its call, and `UnansweredIff` turns the count of results into "exactly one".
`CancelStartsNothing` needs no invariant: from every state in which the turn is cancelled, each action either cannot run
or keeps the started tools and the reply and opens nothing (`CancelledRests`).

**SessionProofs.** For every set of processes and every bound. What a process remembers of the store stays true only
because nobody else writes: the lock has one holder (`LockInv`), and a write that its caller dropped keeps the lock while
its process has no lease (`Waits`). A commit continues the saved context because each step of a turn knows it
(`Remembers`). The order of the inputs needs what the turn took, what its read still holds and what came later, in this
order (`Takes`); the records need that a commit adds the blocks of all inputs that it consumes, or consumes none
(`Consumed`). The refinement maps the pending and the consumed inputs to `InputQueue`: a commit is its consume, an accept
and a removal are themselves, and crashes, dropped futures and repairs change nothing in it.

**StoreFilesProofs.** For every number of processes, sessions, blobs and faults and every mix of calls. Two hypotheses
stand for the disagreements 2 and 3: `NoForkSweep` says that the workload has no sweep beside a fork, and `NoCreateOpen`
no open beside a creation that can fail; the violation runs show that neither can go. `NewInv`: before a creation saves
its rows, nothing names its session and no other call works on it, which is what the sweep of a fork's folder breaks.
`RemoveInv`: what is being removed has no row and gets none. `LockInv`: two locks never guard one session, an owner and
each call at work under the lock hold it, and no call works on an owned session. `BlobInv`: the blobs of a fork's cut are
in the folder of the source until they are in its own, and a blob that a put returned stays. A step that saves no rows
and begins no call is a `Frame`, which keeps these four by the lemmas `FrameNew`, `FrameRemove`, `FrameLock` and
`FrameBlobs`; the steps that are no frame (`Births`, `Begins`, `OwnStep`, `BeginSweepStep`) are proved one by one.
`OwnerInv` adds for the deletes that creations never share an id and that a failed one has no owner.

**StoreFilesProofs, the forks.** For every history. A copy that is cut at a completed commit has that commit as its
newest one, whatever replacement its load starts at (`CompletedCopy`); the only other cut comes before each commit
(`CutOf`), so its copy has none (`EmptyCopy`). `NewestOf` and `OldestOf` say that the queries find a greatest and a least
number, from the well-foundedness of the order of the numbers.

**StoreFilesProofs, the loads.** For every history and every number of events, replacements and blocks. `SaneHistories`
says that the bounds of a history are natural numbers. The loops of `Load` and of the replay are recursive functions of
the number of rounds; `EachRound` (from the least number of a set, which well-foundedness gives) carries a fact over the
rounds, and `LoopExists` and `LoopTyped` say that a loop has a value of its type after each. The core is the walk back
(`KeptIsLast`): the load makes the same blocks of a walk and the context before it after each event (`WalkStep`), also at
a replacement, whose head waits on the list while the walk goes on in what the replacement kept (`HeadStep`, from
`LastOfJoin` and `LastOfLast`). So at the first event the walk has the last blocks of the context that the replacement
saw; the count of blocks from a head is then never negative. `ContextIs` adds the commits from the replacement on, and
`LastWritten` gives the newest turn, tokens and settings. `LoadInv` is inductive: the events start with the settings, the
memory is the replay of them, and the row has its settings; a fork keeps the first event, since no commit comes before
it.

**SessionServiceProofs.** For every finite set of callers and every workload. `Counts` says that the number of
attachments is the number of callers that hold one, across every open and close between two awaits; `Transitions` that a
slot which opens or closes belongs to exactly one call, countdown or shutdown; `LeaseKeeps` that the store refuses a
second open while any holder of the session object is left; `TaskInv` ties the task to the slot. `WakeInv` is the
argument for the inputs: an input that waits has a permit, a run that has not read the inbox yet, or a run that refused it.

**OutputProofs.** For every set of views and questions, every page size and every workload. `OutSane` says that the client
of the protocol is no view, and that a page has events. The difficulty is that nothing arrives at once: the store
answers later than it serves, and a listener that waits for its snapshot only keeps its updates. So each part of the
invariant says where a fact is while a listener does not show it. An event: a listener shows it, keeps it, or it is in
the answer of the one write that nobody saw (`LastUnseen`, `EventOf`), since the session lock allows one writer (`Alone`);
the settings of the host lack at most that event (`HostOK`). An input: it is in the queue, pending, or gone for ever
(`InputInv`), and its acceptance is published before a commit can consume it, since the turn takes it after its own
answer (`TakeInv`). A listener that shows an input which does not wait any more lacks an event or a removal that takes
it away (`PendingOf`), and keeps no acceptance that comes after its end (`KeptOf`). `ReadOf` is about a read that the
store answered after `m` events: its listener keeps what came since, or that is on its way, so the snapshot and the
updates that `after` leaves give what the session is (the lemmas `Flush...` and `Gets...`). The lemma `ShowAllFields`
says what a listener shows after a sequence of updates; it holds for every sequence because `ShowAll` is not a fold: it
reads each field off the places of the updates.

**LiveProofs, the jobs.** For every set of jobs and every workload. A step changes the record of one job, or one token of several,
so the invariant is about one record: `JobOK` ties the place of a task to the answer of its call, the process, what was
told and the reports, and `CloseInv` says that a close which took the jobs took each job of the list. `OneJob` and
`EachJob` carry a step over the other records. `ShownInv` says what a client shows; it needs that no background request
comes while a call ends (`NoLateMove`), which is disagreement 4. The end of a job (`EndTold`) and the close hold without.

**LiveProofs, the servers.** For every config that is finite. `StartInv` gives the count its meaning: until the close took
the tasks it is the number of the servers that connect, or that wait for a trust which is still open. A start that ends
and a trust that is refused each take out of the set what they take from the count; a start after the trust keeps both.
The abort of a task breaks this, but no turn waits then. `EndInv` says that each task which did not end is one that the
close waits for, or will take, also one that starts between the stop of the session and the close.

**EdgesProofs, the connections.** For every number of clients, requests of plugins and lines, and every length of the queue. `RInv`
carries `RequestsTrue`: who the server reads is active and open (`ReadsActive`), ids only count up and no two requests
have the same one (`IdsCount`), and the ids that wait are those of the unanswered requests of the active client
(`PendingInv`). The second matters for a late answer: its id may be gone, but it never names a newer request. `QInv` and
`AnswerInv` carry `NothingLost`: what a writer lost is gone with its task, and a task that ended wrote its whole queue
(`QueueInv`); a task ends only when no sender is left, background stops of jobs included (`SendersGone`); a cancel names
a request that went to the same client (`CancelInv`); and each line has one answer, except the last one while its method
runs and those that a background stop still holds, which are never the same line (`AnswerInv`).

**EdgesProofs, the logins.** For every set of processes and attempts and every place of the attempts. The invariant is
about tokens. `LockInv`: between its read and its save an attempt is alone in the lock, and the file keeps the login
that it sent. `FileUnused`: the stored token can be used up only while an attempt is about to save what its exchange
brought, or when it may go out again (`repeats`). `NextUnused` and `GrantsNew`: what an attempt saves and the token of a
device login are not used up, and nobody else has the latter. `Known` and `NoToken`: grants are counted, so a new one
has a number that nobody has, and the number 0 is no login. The crash is the hard case: it frees the lock of an attempt
that already sent its token, which is why crashes are part of the statement. A token that was refused for now goes out
again, and its next exchange decides anew: one without an answer takes it out of `repeats`.

**PluginProofs, the installs.** For every set of processes, plugins and commits, every number of edits and every workload. `Sane`
says that the workloads have calls and plugins that there are, that a ref is at a commit, and that no process has the
name of the free lock. The file lock makes a call alone (`Alone`), so `plugins.lock` is at each write what the call read
at its start (`ReadOK`); `config.json` is not, and what an edit took out of it is in `gone`. `AddOK`, `RemoveOK`, `ApplyOK`
and `SyncOK` say what each kind of call knows at each of its awaits, and `FilesInv` what every reader finds, so a stop
after any of them leaves it: an install is only renamed whole, and a commit comes into the lock, or to a client, only
after its install. Each of the three parts of `PluginsTrue` then follows from the invariant at the write.

**PluginProofs, the scopes.** For every number of opens and every set of plugins, jobs and runs. `SaneScopes` says that a
workload loads plugins that there are, by their number, and counts in natural numbers. A setup goes on and never back,
so what a run knows of the scopes whose lists it copied stays (`RunsStay`). `ScopeOK` ties the steps of a scope: what
its setup returned is its cleanup until the close runs it, a failed one is closed, and a close reaches each scope of its
open, so a scope that is not closed belongs to a session that is open (`ScopesInv`); `ToolsInv` says the same of the
tools. For the plan, `PlanOK` keeps the head and the kept blocks equal to what the answers give one after another:
`LastOfBoth` says which of the blocks an end of the joined context takes from the head and which from the context
before, for each place that a `keep` can cut.

**PluginProofs, the facts.** For every finite set of sessions, every number of listeners and every workload. `SaneFacts`
says that a workload adds no more listeners than there are numbers for. The difficulty is the queue: facts of older
watches wait beside those of the watch now, and the script is behind the app by the latter. `Trace` is a history
of the sessions of the script after each waiting fact, and `QueueInv` that one leads from those of the script to those
that the app told; then each step of the app extends the history at its end, and each delivery takes its first fact. An
open comes only for a session that the script does not have at that place, so no open counts twice, and with
no fact of the watch left the two ends are one (`TraceQuiet`). `TraceOpens` does a new watch, which announces all
sessions at once in any order. `HeardInv` is about the callbacks: a listener of `session.opened` heard of all sessions of
the script, except what its own replay, or the delivery that runs, still has to bring it. It needs that a listener has at
most one replay and that a replay and a delivery never bring it the same session (`FramesInv`): a listener that is added
inside a delivery is not in the list which that delivery took at its start, and its replay has the new session already.

**Only model-checked.** The liveness properties (fairness is out of the prover's reach), and what the decoders, the
parser and the encoder compute over a whole sequence: they are recursive operators, which the prover cannot expand.
These are `ReplyTrue`, `FramesTrue` and `BodiesTrue`; every other safety property of a run is proved. The theorems of
`StoreFilesProofs`, `OutputProofs`, `LiveProofs` and `PluginProofs`, and those about `Connection`, state properties that
the runs check through an instance of the module (`MCStore`, `MCService`, `MCLive`, `MCEdges`).

## Not modelled

- The fields of a request head, the generated catalog, HTTP, the JavaScript engine and the terminal UI are pure data,
  I/O or libraries. `Turn` replaces a provider by every answer it could give.
- The sessions that a plugin holds, which are attachments and views as in `SessionService` and `Output`, and the drafts of
  `agent/src/updates.rs`: a second fan-out beside `Output`, with the order of its `publish`.
- The answers of the hook points other than the plan of a round, which are data. In `Facts`: notices and themes. In
  `PluginFiles`: local folders, the text edits of `config.json` and the git commands; a client applies only changes that
  a check told, although `apply` takes any (`manager.rs:266`). In `ResponsesReply`: a search call whose name and item
  type disagree (`openai_responses.rs:300`).
- In `SessionService`: calls dropped by their caller, cancels (in `Turn`), the order of the requests of one connection,
  panics. In `Jobs`: the shutdown (the close of each session), the drop of the list, the capture of output, a refused
  kill, an accept of a report that fails. In `Output`: notices, drafts, facts, tool output, the states of the MCP
  servers. In `Logins`: a pushed token (it reads no file), API keys, the waits between polls. In `Connection`: the bind
  of the socket and the bridge of a frontend. In `Servers`: the content of a result and the log. In
  `Encode`: the cache bound of a side request, and the buffer that a request in flight shares (the encoder copies it).

Bounds and what they could hide: turns with more rounds repeat the states between two rounds, since only the context
grows, and the proofs cover every bound for the properties they name; a third process in `Session` could only be
another observer of the same lock; more callers in `SessionService` repeat the two sides of each race; a third client
in `Connection` is one more that left.

## Plan

Proofs: the decoders, the parser and the encoder as recursive functions of the number of pieces, like the loops of
`ContextLoad`, for `ReplyTrue`, `FramesTrue` and `BodiesTrue`.

Models: the drafts of `agent/src/updates.rs` as a part of `Output`.

The order follows what a failure would cost: saved data first, which is proved, then a session that hangs, then what a
client shows.
