# provider-x in TLA+

provider-x is a macOS menu-bar application that makes Codex talk to other model Providers. It
edits `~/.codex/config.toml` so that Codex uses a loopback address, listens there, and routes each
request to a Provider by the name of its model. These modules model the parts of it whose
correctness depends on order, failure and concurrency: the edit of the user's configuration, the
documents and OAuth tokens of the Providers, the loopback server, the upgrade of old documents, the
sessions it translates and the streams of their responses, the models from discovery to route, and
the settings window, the menu bar and the log as one program. TLC checks them on small instances;
TLAPS proves the safety properties that matter most for every value of the constants.

Contents: [the system](#the-system) · [modules](#modules) · [Codex integration](#codex-integration) ·
[control plane](#control-plane-and-oauth) · [egress server](#egress-server) ·
[start and upgrade](#start-and-upgrade) · [response streams](#response-streams) ·
[bridged sessions](#bridged-sessions) · [models and routes](#models-and-routes) ·
[desktop and log](#desktop-and-log) · [proofs](#proofs) ·
[disagreements](#where-the-code-and-its-documents-disagree) ·
[not modelled](#what-is-not-modelled) · [plan](#plan) · [running](#running)

## The system

Eight crates, about 27,000 lines of Rust with their tests. `A` below is `crates/provider-x-app/src`,
`E` is `crates/provider-x-egress/src`, `P` is `crates/provider-x-protocol/src`, `K` is
`crates/provider-x-catalog/src`.

| Component | State it keeps | Operations | What makes it hard | What makes it correct |
|---|---|---|---|---|
| Codex integration, `A/codex_config` | `config.toml`, install receipt, Codex's model cache | `apply`, `restore`, `reconcile`, listener update | four files changed in turn, a crash between any two, edits by the user and by Codex, a restore from the menu bar that no lock orders with the settings window | the keys provider-x displaces can always be put back; nothing else of the user's is changed |
| Atomic file storage, `A/storage/atomic_file.rs` | the file | `load`, `write`, `remove_external` | compare, rename and sync are separate steps; a failure after the rename reports failure with the new file in place | a write either happened or did not, and its caller knows which |
| Control plane, `A/control_plane.rs` | Provider and cache documents, the hashes of their files, the published snapshot | `load`, `prepare_mutation`, `commit_mutation` of four mutations | two files, one mutex, failures in the middle; the egress is swapped in the same critical section | memory, files and egress agree after every outcome |
| OAuth refresh, `A/runtime.rs`, `providers/openai_oauth` | tokens, the refresh lock | the refresh loop, refresh before a discovery, the browser login | a token endpoint that rotates the refresh token on every answer; a cancelled caller whose blocking task runs on | a rotated token is not lost, not replaced by an older one, not given to another account |
| Settings state, `A/settings_state.rs` | draft, credential, one running operation, a queue of switches | login, test, discover, save, remove, switch, cancel | operations outlive the window and can be cancelled between their steps; the view acts on an old copy | one operation at a time, the last choice of each switch wins, the form's end is that of its operation |
| Models, `K/manual_refresh.rs`, `K/compiler.rs`, the compilation in `A/settings_state.rs` | for each fact of a model a value and where it comes from | refresh, registry, edits, save | sources are worked out again and again from different code | a refresh keeps what the user confirmed |
| Egress server, `E/server.rs` | permits, connection tasks, session tasks, the shutdown watch | accept, serve, upgrade, drain, force | a session outlives the HTTP connection it came from and shares its permit; peers that never read or write | permits are conserved, a stop returns, nothing outlives it |
| WebSocket sessions, `E/ws_proxy.rs`, `E/ws_http_runner.rs` | one request in flight, the watch, the two sockets | relay, bridge, close | the next request races the end of the last; a drain races both | no lawful request is refused, every session ends |
| Egress routing, `E/state.rs`, `core/snapshot.rs` | the current snapshot | `prepare_reload`, `commit_reload`, `resolve` | a session keeps the snapshot of its first request; a list is answered from an older one | a request goes where the list said |
| Session adapters, `P/responses/bridge.rs`, `P/*/bridge.rs` | history, warmup defaults, the session's model | `prepare`, `commit` | history only of completed responses, overlap between history and input, limits on items and bytes | a continuation sends exactly what the conversation holds |
| Stream decoders, `P/output.rs`, `P/*/bridge.rs`, `E/ws_http_runner.rs` | a buffer, the items of an open response | `push`, `finish` | frames cut anywhere, event order, limits on open items, timers that a Ping or a comment restarts | every item that is opened is closed, once, before the end |
| Provider upgrade, `A/storage/provider_upgrade.rs` | two documents, a backup directory, a receipt | `prepare`, `begin`, `finish`, `acknowledge` | a crash or another program's write between any two steps | no document is lost; an interrupted upgrade is finished |
| Single instance lock, `A/storage/single_instance.rs` | an advisory lock | `acquire_with_timeout`, drop | two starts | one process at a time |
| Runtime log, `A/runtime_log.rs` | a bounded channel, a count of dropped records, a file per day | `send`, rotation, drop | bursts; a clock that goes back; a day's file that cannot be written; an end with records waiting | every record is in the log or counted, but for what a failed write takes along; recent days are kept |
| Desktop shell, `A/desktop.rs`, `A/platform` | window registry, menu, restores, quit | open, delayed release, poll, quit | the timer of a closed window fires after it was opened again; a restore ends after its window is gone | an open window is never released; everything ends |
| Claude Code backend, `providers/claude_code.rs` | a child process, a channel | start, pump, kill | a child that hangs, a reader that leaves | it ends with its stream |
| Core, Providers, network, preferences, localization | validated documents, profiles, tables of texts | parse, resolve | tables and formatting | field rules |
| Contract probe | none | | a development tool | |

How they interact: the settings window calls the control plane and the Codex integration through
`AppServices` (`A/runtime.rs`); the control plane publishes a snapshot to the egress inside one
critical section; the OAuth loop and the settings thread meet in two locks (the refresh lock, held
across the token request, and the control mutex, held for each read and each mutation); the menu
bar runs a Codex restore of its own; the egress is stopped by a watch channel that goes from
Running to Draining to Force. A start takes the lock of the single instance, upgrades documents of
another schema, loads the control plane, binds the listener and reconciles the Codex integration.

## Modules

| Module | What it is | Extends | Runs |
|---|---|---|---|
| `CodexConfig` | the Codex transaction, its callers, crashes and editors | | `codex_sequential`, `codex_overlap` (module `MCCodexConfig`) |
| `ManagedKeys` | what the user is promised about the three managed keys: the abstract specification | | refined by `CodexConfig` |
| `ProviderControl` | control plane, files, OAuth loop, settings thread, token endpoint, egress snapshot | | `control_credentials`, `control_faults`, `control_disk` (`MCProviderControl`) |
| `EgressServer` | accept loop, permits, connections, sessions, peers | | `egress_faults`, `egress_stops` (`MCEgressServer`) |
| `Admission` | what the listener promises about connections: the abstract specification | | refined by `EgressServer` |
| `ProviderUpgrade` | the start under the lock, the upgrade, crashes and editors | | `upgrade` (`MCProviderUpgrade`) |
| `OutputEmitter` | the emitter of Responses events: pure operations on its state | | |
| `ChatDecoder`, `AnthropicDecoder` | one block of either protocol applied to the emitter | `OutputEmitter` | |
| `ResponsesDecoder` | one Responses event, with raw reasoning turned into summaries | | |
| `ResponseStream` | one response from the upstream's bytes to the client's events and the session's commit | the three decoders | `response_stream` (`MCResponseStream`) |
| `BridgedSession` | the requests of one session and the adapter's memory | | `bridged_session` (`MCBridgedSession`) |
| `ModelCatalog` | models of two Providers: form, refresh, save, publication, list, requests | | `model_catalog` (`MCModelCatalog`) |
| `SettingsSession` | the settings session and the view that polls it | | |
| `RuntimeLog` | the log: channel, counter, worker, files | | |
| `Desktop` | window, menu bar, quit, composed with the two above | `SettingsSession`, `RuntimeLog` | `desktop` (`MCDesktop`) |
| `CodexConfigProofs`, `ProviderControlProofs`, `EgressServerProofs`, `ProviderUpgradeProofs`, `ResponseStreamProofs`, `BridgedSessionProofs`, `ModelCatalogProofs`, `DesktopProofs` | theorems and proofs | the module of their name, `TLAPS`; `DesktopProofs` is about `RuntimeLog` too | |

Conventions: an action carries the name of the function it models where it models a whole one; a
SHA-256 is the content it hashes; a definition named as a *mutated form*, a *mutant* or a *plausible bug* is
a bug of the definition after it, kept to show that a property notices it. Where a module has a proof of
its types, no run checks them again. `PROJECT.json` maps every definition that models code to its lines.

## Codex integration

`CodexConfig` reduces a configuration file to the value of its three managed keys taken together
and its body (everything else). Its variables are the files (`config.toml`, the receipt, Codex's
model cache), the base URL of this process, and one record per *place* an operation can run (settings
queue, session, menu bar, startup), which holds what that operation has read and where it stands. Each step
of `apply` (`mod.rs:130`), `restore`, `reconcile` and the listener update is an action; a write of a
file is two, because `persist_private` compares the hash of the destination and then renames over
it, and everything may happen in between. Other actions are the user's edits, Codex's own cache
writes at any moment, a failed file access at each step, a crash and a start with a new port. `edited` and `misled` are
the reader's, not the program's: whether somebody else changed the keys, and which operations take a cache to be gone that
Codex wrote again (`TakesCacheAsGone`). A failure after a
rename is a failure at the next step.

Bounds and parameters. `CodexSequential` has three URLs (the old one, the new one, a third after a
restart), two user values and two bodies, one place; `CodexOverlap` has the settings window and the
menu bar with two URLs, and `Racers` lets them meet inside the window between a comparison and its
rename. Receipts are compared without their `updated_at`, which only adds behaviours (a receipt
written twice with equal content is taken for unchanged).

| Property | Meaning |
|---|---|
| `RecoveryDataKept` | while a provider-x URL is in the configuration, a receipt holds the value to restore |
| `Custody` | the same at every step inside an operation: the inductive form |
| `BackupNotRebased` | no step replaces the backup of an installed receipt |
| `RestoreReturnsOriginal` | a completed restore leaves the original keys, or keys somebody else chose |
| `KeepsManagedKeys` | refinement of `ManagedKeys`, where applying and restoring are one step each |
| `BlockedOnlyByInterruption` | `ConfigDrift` is returned only after an edit or an interrupted operation |
| `CacheFollowsConfig` | a completed operation left no model cache that Codex wrote under another configuration, unless Codex wrote it after the operation had found or made it absent |
| `UserContentPreserved`, `BodyCustody` | no step of provider-x changes the body, also when operations overlap (`codex_overlap`; the others are checked by `codex_sequential`) |

No liveness is claimed here: the code retries nothing on its own.

## Control plane and OAuth

`ProviderControl` holds the two documents in memory and on disk, the hashes the control plane
remembers, the snapshot the egress routes by, the form of the settings window, the refresh loop with
its two locks, the blocking task a cancelled discovery leaves behind (`detached`), and the token
endpoint. Every Provider is an OAuth subscription, the case with the most state. Tokens are numbered
in the order of their issue and expire in that order (`clock`); the endpoint rotates the refresh token
on every answer, the worst case a service may choose. `commit_mutation` is one step per file write,
with its error paths; the comparison and the rename of one write are one step here, because `CodexConfig`
has that window. Faults are chosen per run from failed writes, failures after the rename (`"sync"`:
the file is new, the caller is told it failed), network errors, answers for another account, rejected
tokens and cancellations, with crashes, restarts and an edit of `providers.yaml` by another program.

| Property | Run | Meaning |
|---|---|---|
| `EgressFollowsControl` | `control_faults` | outside the one critical section that swaps both, the egress routes by the documents the control plane holds |
| `DiskFollowsControl` | `control_disk` | the hashes in memory are those of the files, whatever failed before a rename, so the next mutation is possible |
| `SavedCredentialUsable` | `control_credentials` | the saved refresh token is one the service still accepts, unless the answer that replaced it is on its way |
| `OnlyOvertakenSavesRollBack` | `control_disk` | a saved credential is replaced by an older one of the same account only when a draft is saved that was compiled before the newer one was stored |
| `RemovedStaysRemoved`, `LoginIsKept` | `control_disk` | a refresh that ends late neither brings a removed Provider back nor replaces another account's login |
| `StaleIsRefreshed` | `control_credentials` | a saved credential in the refresh window is refreshed, replaced or removed in the end |

A draft is compiled under one acquisition of the control mutex and saved under another, so a refresh may be stored in between.
In `control_disk` it may (`SavesRaceRefreshes`), `overtaken` records that it was, and such a save is the only way back to an older
token; `ControlStaleDraft.cfg` shows it (`CredentialNeverRollsBack`, violated). `control_credentials` keeps the two apart,
because a token that was rolled back is a spent one. The code does not guarantee that.
`control_disk` leaves out `"sync"`: after it memory and disk do differ, which the code reports as an error, and later saves are
refused (`control_disk` with `Faults <- AllFaults` shows it: `DiskFollowsControl`, violated).
`commit_refresh` has no caller but tests; it is modelled as one more operation of the settings thread.
When `MaxToken` tokens are issued the endpoint refuses, which a service may do at any time; three
tokens, with two accounts, are a first login and two rotations or a second login, by actors that race.
One Provider is enough for TLC: the threads meet on one Provider, and others add steps that
touch another entry of the same maps; the theorems are for any number.

Fairness (`FairSpec`): weak for the steps of the loop, of a held lock and of the token endpoint (tokio runs
every ready task; the endpoint's client has a timeout); strong for acquiring the control mutex and the refresh lock,
which are contended again and again. tokio's mutex is a fair queue; for the blocking mutex it is an
assumption about the operating system's scheduler, which lets a waiting thread in when the critical sections are short.

## Egress server

`EgressServer` has the accept loop of `EgressServer::run`, one record per connection (task of the
connection, task of its session, whether each holds the permit, what the client and the upstream are
doing), and the shutdown watch. A permit is an `Arc` held by the connection task and, after an upgrade,
by the session task. Sessions are of two kinds, relayed to an upstream WebSocket (`ws_proxy.rs`) and
bridged to HTTP (`ws_http_runner.rs`); each await of theirs is a place where the watch, a timeout, a
failure or the other peer may act. A timeout may fire at any moment. When `accept` fails, `run` returns and drops its
`JoinSet`: that asks the connection tasks to abort, and each ends later, at an await of its own (`Aborted`). Contents, routes and the
translation of bodies are left out. The two closing sends of `reject_downstream` are one step. (The contents of a session are in `BridgedSession`, its routes in `ModelCatalog`, the stream of a response in `ResponseStream`.) An upstream sends the
last event of a response only for a request in flight, and outside `egress_stops` a client does not send
a second request before it has that event: both are assumptions about the peers.

| Property | Run | Meaning |
|---|---|---|
| `PermitsAreConserved` | `egress_faults` | free permits and permits held by tasks add up, whoever dies |
| `RunLeavesNothing` | `egress_faults` | when `run` returns from a drain no connection is left, and from a graceful one no session |
| `ImplementsAdmission` | `egress_faults` | refinement of `Admission`: at most `MaxConnections` are served and a stopped listener admits nobody |
| `NextRequestInTurn` | `egress_faults` | a client that waits for the end of a response is never refused as concurrent |
| `RespondsThroughDrain` | `egress_faults` | a drain does not end a session whose response is under way |
| `ShutdownReturns` | `egress_stops` | a stop makes `run` return and every connection end, whatever the peers do |
| `SessionsEnd` | `egress_stops` | every session ends after a stop unless a peer of it stops reading, also when the accept loop failed before |

Bounds: three clients for two permits is the smallest instance with contention and with two sessions
at once. `egress_faults` leaves out stalling peers, which only keep steps from being taken and so add nothing to a
run that checks safety, and pipelining clients, which `NextRequestInTurn` is not about. `egress_stops` has every
fault; it has one connection, since a stop treats each alike, and two permits, so that `accept` can
fail while a session runs. The state space is finite
without further bounds. `CHECK_DEADLOCK FALSE`: a stopped server has no step left.

Fairness (`StopSpec`): weak for the steps of tasks, the grace period and the close window; strong for
noticing the watch in a `select!` with several ready branches, among which tokio chooses at random
(the `biased` ones poll the watch first). The idle timers get none, because a peer that keeps talking restarts them: a stop needs
none of them. Closing sends have no timer and get no fairness when the
client does not read: that is `EgressStalledClient.cfg`.

## Start and upgrade

`ProviderUpgrade` has two processes that start, wait for the lock (`acquire_with_timeout`) and run
`prepare` as far as they get: load the receipt, or load the documents, back them up, write the receipt, then
verify the backup, compare both documents with what the receipt allows (`replacement_hash`), replace the
cache, replace the Provider document, complete the receipt, load. A crash may happen between any two;
a failed file operation ends the start exactly as a crash does, so one action stands for both. Another
program (an older provider-x, or the user putting a backup back) may write either document between any two
steps. A running application saves documents of this schema and removes the receipt when its notice is closed.

| Property | Run | Meaning |
|---|---|---|
| `ReceiptTellsTheTruth` | `upgrade` | the receipt names a full backup of what it replaced; nothing runs on an incomplete upgrade; a complete one left nothing of the old schema |
| `OriginalsAreKept` | `upgrade` | a start replaces only documents that are in a backup, and never a Provider document of this schema |
| `UpgradeIsCompleted` | `upgrade` | an interrupted upgrade is completed by a later start, unless a document was edited since |

Bounds: two mishaps interrupt an upgrade and its resumption; one edit is enough to come between any
backup and its replacement; three directories are one per attempt the mishaps and the edit allow; two old
documents tell an edited document from the one that was backed up. `FairSpec` assumes that a start goes on and that the user starts the application
again. `UpgradeIsCompleted` promises nothing after an edit: after one between backup and replacement every start is refused
until somebody undoes it, as the test `refuses_concurrent_edits_after_backup` requires.

## Response streams

`ResponseStream` follows one response of a bridged session. The upstream sends blocks of its protocol
(Chat Completions, Anthropic Messages, Responses); each block is a few tokens (a data line in two
halves, its line end, the empty line), and the wire hands them over in frames that end at any token, CR
and LF apart. The session pushes a frame into its decoder, sends what the decoder has ready, and ends at a
terminal event, at the end of the body, at an error or at the idle timeout; then it
flushes the decoder and decides what the adapter will remember (`commit`). One timer covers the wait for the upstream and
for the client, so a Ping of the client (`Ping`) and a frame that tells nothing (`Drip`) restart it, as a line of Claude Code that
is no event (`Chatter`) restarts the timer of `pump`; `quiet` has the waits that nothing has restarted. With a Claude Code
process as the source, lines pass through `pump` and a channel of one, and the process must be gone
when its stream is dropped. What a decoder does with a block is in `ChatDecoder`,
`AnthropicDecoder` and `ResponsesDecoder`, and the first two drive `OutputEmitter`, where an operation is a
function from an emitter to the next. `ResponsesDecoder` rewrites what passes it: raw reasoning, in events and in the
items of `response.completed`, is told as a summary, while the output that is committed is the upstream's own. A piece of text is one byte and has the number of
its block, so that what was sent can be traced to where it came from.

The upstream may send anything; `Lawful` says when a stream is one of its protocol, and the properties
say what a lawful stream is owed and what holds of any. Reasoning that starts after the text, which
none of the three protocols forbids, keeps the order of events but not the indexes:
`ItemsKeepTheirIndex` assumes reasoning, then text, then calls (`Ordered`).

| Property | Meaning |
|---|---|
| `CutsAreInvisible` | the client gets the events of the blocks in their order, wherever frames end: a lawful stream gives all of them, and fails only when its blocks do |
| `TranslationIsSound` | items open before they are told of and close once, with all that was told; they keep their index; a session commits what its client was sent, and of a Responses stream the upstream's own output, of which the client was told every piece with raw reasoning as a summary; reasoning told twice is heard once; the limits count what is held and are kept |
| `EverythingEnds` | the response and the process behind it end, unless every timer that watches them is restarted for ever (`KeptWaiting`) |

Bounds: `Streams` gives each protocol its length, its line ends and the number of blocks that are not
lawful: one mishap in short streams, none in long ones. `MaxFrame` (5 tokens) spans a
block and the beginning of the next; `MaxWire` (2) lets the upstream be ahead; `MaxBuffer` (9), `MaxBytes`
(7), `MaxIdBytes` (1) and the limits of 1 or 2 items are small enough to be reached within a
stream and large enough that a stream also ends well: 831,696 states, three minutes. Fairness: weak for reading, for ending and for the
process, which are ready tasks of tokio, and for time: a wait that nothing restarts becomes a timeout. None for the upstream
and the client, which may also ping or drip for ever: then the response does not end, against `README.md:219`, by which "idle
periods are bounded", if an idle period is one without an event.

## Bridged sessions

`BridgedSession` has the loop of `ws_http_runner.rs` with one of the three adapters. An item is a sort
and a key; a message of another protocol is built from items as `input_to_messages` and
`input_messages` build it, with text and calls of one turn in one message. `prepare` resolves
defaults, decides whether the history is replayed, drops the longest overlap (`LongestOverlap`) and
applies the limits; `commit` appends an answer. The client is Codex as the tests of the
bridges show it: it continues from its last completed response, may repeat the end of the
conversation, sends tool output with or without naming a response, sends everything again, or starts over.
`wanted.meant` is what it means, kept apart from what it sends.

| Property | Meaning |
|---|---|
| `AsksWhatWasMeant` | the upstream is asked the whole conversation the client means, once, in order, under the instructions stated last, without an id it cannot know |
| `HistoryIsTheConversation` | between requests the history is the conversation up to the last completed response, within its limit |

Bounds: four requests or warmups are the fewest in which a continuation follows a failed response that followed a
completed one, after a warmup; a limit of eight items is met by the third answer; two texts tell a repeated text
from a new one; two instructions tell a change. `Habits` says, per adapter, which clients the passing run has: the
others are the disagreements below. The limit in bytes is a choice at each request (`light`).

## Models and routes

`ModelCatalog` follows a model from a Provider's answer to the request it serves. A model has two facts, which stand
for the five of the code: `"name"`, which the registry may supply, and `"window"`, which it may supply and
which has no default; each has a value and a source, as `ModelSpec` has. A form is filled, refreshed,
edited and saved; a save is compiled, prepared, written and published (`publication` is the reload
between the two); the list for Codex is merged with the official one from a snapshot that may
be older than the one now serving; requests come alone or on a session that resolves every name with
the snapshot of its first. `wishes` records what the user decided and `removed` which accounts are
gone: both are the reader's, not the program's.

Left out on purpose: a discovery is one step, because the form is busy while it runs (`OneOperation` in
`SettingsSession`); a failed save is in `ProviderControl`; changing preset or connection of a saved
Provider, paths that are not inference, and the models of Claude Code. The registry
knows all new models of a refresh or none. An official name with a slash is listed and then refused.

| Property | Meaning |
|---|---|
| `SourcesAreHonest` | a value on record as the user's is what the user entered, and what the user entered stays |
| `RoutedAsChosen` | the router serves, lists and can place exactly what the user switched on, as last saved; a refresh, a suggestion or a restart switches nothing |
| `AnsweredAsListed` | a name Codex listed goes to the account it was listed for, unless a removal came between; a removed account serves only sessions that began before |
| `SessionsHold` | a session keeps its account and its models until it ends |

Bounds: two ids and two accounts are needed for an id to be confused, two models for one to be dropped and one
kept; a fact is absent, reported, entered or known, one value each. `Filling` refreshes and edits; `Serving`
saves, switches, removes, lists and asks. The state space of both together is out of reach, and a refresh reaches
the router only through a save, which `Serving` has with edited forms.

## Desktop and log

`Desktop` is the program as the user sees it. Everything in it runs on the UI thread one handler after the
other, so an action is a handler, and what runs elsewhere has actions of its own: the operations of the
form, the loop of switches, restores, the log's worker.

`SettingsSession` has the session behind its mutex and the view: the view acts on its last copy
(`view`), which a poll refreshes every 200 ms if the revision changed (`seen`), and a handler is its
call into the session followed by such a look (`ui`). An operation takes the mutex for
each store and compares its number only at its end (`Finish`); a cancel aborts a task that waits and leaves
one that a worker thread runs (`LateCancels`). `RuntimeLog` has senders, the bounded channel, the
count of dropped records, the worker with its markers, and the file of the day.

| Property | Meaning |
|---|---|
| `SettingsAgree` | the form is busy exactly while its operation lives and never while switches run; when the queue is empty, switches that did not fail are shown as their files say and as the user chose last; where the view lets the user type, its copy is of the session's form and has what operations stored there, but for models found by a discovery that could no longer be cancelled. A switch that failed is still shown as saved, if a failed write leaves its file alone |
| `DialogFollowsOperation` | a save or a removal takes its dialog away when it succeeded and never when it failed |
| `OpenWindowStays` | a window that was opened again is not taken away by the timer of its closing |
| `LogAccounts` | a record that is missing went with a write that failed, its own or that of the marker that counted it (`LossesAreFailedWrites`); as long as every day can be written, all are in a file, waiting, or counted (`NothingMissing`), and a log that was closed has them in its files or told (`ClosedIsComplete`); records keep their order |
| `DesktopSettles` | whatever was clicked, everything ends: operations, switches, dialogs, hidden windows, restores, the log's queue; and a quit exits |

Bounds: a budget is what one run may bring. `Some` has much of one thing or some of everything: four clicks in
the form; two with an event of the window or the menu; three events with a window and without;
four records and changes of the day around a quit. Two switches, one of them the Dock; a channel of
one record; a start on the first of four days, two of which have a file already, one of them damaged: the clock moves over the damaged
day, onto it, and past the days that are kept. A start that finds a damaged file of the day, or one due for removal, is refused. Parameters that restrict the environment in the
passing run: `LateCancels = {"login"}` (a discovery that is cancelled late is `ViewIsTheForm` below),
`SaveFaults = {"unwritten"}` (a write reported as failed did not happen; otherwise `ShownIsSaved` below), `UnhideUnseen = FALSE`,
`EagerClicks = FALSE` (the poll sees a click of the menu before the same item is clicked again).
The disagreements below say what happens otherwise.

Fairness: weak for `Program`, which is every step the program takes on its own, together. It is enough that some step
is taken as long as one is possible, because each consumes something that inputs alone bring: timers fire, tokio polls
ready tasks, a login gives up after five minutes, requests after thirty seconds, the router's
shutdown after its grace period.

## Proofs

The proof modules follow the same argument: an inductive invariant that says, for each place an
operation can be, what it knows about the state it shares; one lemma per action or group of actions; the
properties from it.

* `CodexConfigProofs`, for any URLs, values, bodies and places: `TypeOK` and, when operations do not overlap (`OneAtATime`),
  `Custody` (`CustodyHolds`). `RecoveryDataKept` alone is not inductive: in the middle of an apply the
  receipt is prepared and the configuration still old, so `Custody` relates the step an operation has reached to the receipt and the
  configuration it read. From it follow `RecoveryDataIsKept`, `BackupIsNotRebased`,
  `RestoreReturnsTheOriginal`, the refinement `ImplementsManagedKeys` (nobody writes inside the window between a
  comparison and its rename: `"editor" \notin Racers`) and, with `UrlsInCustody` (an active receipt is over its own URL),
  `BlockedOnlyByAnInterruption`. Three hold for any number of overlapping operations:
  `BodyIsInCustody` and `UserContentIsPreserved`, under the same assumption about the window (what an
  operation plans to write has the body it read, and what it compares before the rename is what it read),
  and `CacheFollows`, whenever Codex writes its cache, with
  `CachesInCustody`: what an operation takes to be gone stays gone until its last save, unless Codex misled it.
* `ProviderControlProofs`, for any Providers, accounts, tokens and bounds. A first invariant gives `TypeCorrect` and
  `EgressFollows` with every failure: it adds `WellFormed` (what each thread carries at each step),
  `Exclusive` (one thread is in a critical section), `Published` and `Swapping` (the egress equals the
  control plane except between the two assignments of a commit). A second one, `Held`, says which tokens an operation
  on its way may carry and what it owes the document it will replace: a refresh writes over the credential it started from
  and nothing else. From it follow `RemovedStays` and `LoginKept`, with every failure, cancellation, edit and crash;
  with `Latest` (what waits to be saved is no older than what it replaces, unless it was overtaken) `OnlyOvertakenRollBack`,
  with saves and refreshes in any order; with `Agrees` (the hashes in memory are those of the files, but for a cache whose
  Provider is being written) `DiskFollows`, for every failure but `"sync"`. `SavedIsUsable` needs to know where every
  credential may be: `Usable` says that no two Providers share one, that a draft carries a used or spent one only if the saved
  one is as new, that nobody but the thread that refreshed it has an answer not yet stored, and that a spent credential that
  is still saved is the source of a refresh about to replace it. It assumes `NothingFails`, as the run does, and
  `NoPreviews`, that `commit_refresh` is not called: it leaves the draft without the id it saved, so with two Providers the next
  save makes a second one with the same token. No caller but tests uses it, and with one Provider the run includes it.
  Assumptions on the constants: `ConstantsAssumption`, by which there are at least as many tokens
  as Providers, so that the initial ones differ, and `NobodyAssumption` and `SentinelAssumption`, by which the marks for
  nothing are not things.
* `EgressServerProofs`, for any clients, limit and faults: `Holds` (who has the permit of a connection), `Begins` (in which
  order connection and session live, also while aborted connections have yet to end) and `Loop` (what each place of the accept loop knows of the watch and the tasks) make
  `PermitsAreConserved` inductive; the counting is by Cardinality, a permit being given back by the last of its holders.
  From them follow `ReturnIsClean` and the refinement `AdmitsAsPromised`. For clients that do not pipeline, as in the runs
  of these properties (`"pipelines" \notin Faults`), `Turns` says whether client or session has the request, and
  gives `NextRequestIsInTurn` and `DrainLetsFinish`.
* `ProviderUpgradeProofs`: `TypeOK`, `ReceiptTellsTheTruth` and `OriginalsAreKept`, with any
  number of processes, crashes and edits. `Locked` makes the holder of the lock the only process
  past it; `Knows` says what it has read and written at each step; `Backed` and `Finished` are about
  the receipt. The one rule that carries the proof is that no step writes a document other than the one it
  compared with the receipt.
* `ResponseStreamProofs`: `CutsAreInvisible`, for any streams, bytes in a frame, number of frames, size of a buffer and limits of
  the decoders. `SentAs` says what of the stream is on its way, `CutsAs` what the client may have been told, `Reading`
  that the buffer is the part of a block that its place in the stream says (`HeldPos`) and that what was told, with what is
  pending, is what the blocks before that place tell. Two lemmas carry it: an operation of a decoder
  appends to what is pending and does not look at it, so a decoder drained between two frames goes on as one that
  is not (`Commutes`); and a buffer so placed, with a frame appended, is parsed block by block, each of them whole
  (`PushTracks`). `EndOfBody` is about a body whose last empty line never came. The fold over the whole
  stream needs induction; it is replaced by a least counterexample (`Least`) and the one-step fact of `FoldLeft`. Assumption,
  the same as in the run: `AllPlain`, by which data in two lines does not end in CR LF. With both the
  property fails, as `StreamFoldedData` shows below. `LimitsAreKept` is the part of `TranslationIsSound` about the limits
  (`LimitsCountWhatIsHeld`), for any upstream and without `AllPlain`. `LimitsInv` needs none of the above: an operation of an
  emitter counts what it keeps before it keeps it (`Counted`; the usage counts too, and a newer one takes the place of the one before),
  the Responses decoder counts one byte for each id in `sources` (`Remembers`), and what `SplitBlocks` leaves is no longer than
  what it was given. It rests on `Shaped`, by which the id of a call is one byte, as in every block the model sends.
* `BridgedSessionProofs`: `AsksWhatWasMeant` and `HistoryIsTheConversation` for the Responses adapter, for any texts,
  instructions, models, limits and lengths of a session. The invariant (`Remembered`, `Asked`) says that history and
  conversation are equal whenever a request may come. What carries it is that what the model makes has an id, while what the client
  adds has none or answers a call; hence the longest overlap is exactly what the client repeated. Assumption, the same as in
  the run: `Ordinary`, by which an answer is not empty and a client does not use the id of a warmup twice.
* `ModelCatalogProofs`, for any ids, models, accounts, registries and official lists, from `ModelCatalogAssumption` alone:
  `CatalogTypes`, `SourcesHonest`, `RoutesAreChosen`, `AnswersAsListed` and `SessionsAreHeld`. None is
  inductive. `Recorded` has the switches and sources of form and document agree with the user's; `Served` that the router
  has what the saved document compiles to; `Distinct`, `Snapshots` and `ListedOf` that an id stands for one account until
  its Provider is removed, in every snapshot still in use, the one a list was made from and the one a session keeps; `Held`
  which names a session was opened for.
* `DesktopProofs`, of the log: `LogAccounts` and `RecentLogsStay`, for any capacity of the channel, any clock, any days with
  damaged files, and disks that fill. What a failed write takes along is part of the equation, and what it may be is its
  second part: while nothing can fail it is nothing. `LogInv` adds to the promises the types and `NobodySends`: the
  worker ends only after the sender was taken, and the sender is taken only when nobody still has
  a record to count; without it a sender could count a record after the last marker. `RecentLogsStay` is proved only:
  no run checks it, a file that must go is one step.
* `DesktopProofs`, of the application: `SettingsAgree` and `DialogFollowsOperation`, for any Providers, switches and numbers of
  clicks, and `OpenWindowStays`. `SettingsAgree` says nothing of the places an operation or a switch passes through, so
  it is not inductive. `SessionInv` adds: `Numbered` (numbers tell operations apart, and what a cancel left behind
  changes no draft), `Handled` (a save or a removal cannot be cancelled, and only they close a dialog), `Queued` and
  `Carried` (a switch is in the queue, in the runner's hands at a step that says what is saved and shown, or settled),
  `Viewed` and `Awaited` (what a snapshot still leaves the view to learn; the session that finishes while a dialog
  waits has the outcome its message shows). `ShellInv` is about the window: a release is under way only while it is hidden.
  The first two need no assumption: discoveries may be too late to cancel and writes may be reported as failed after their rename, and
  `SettingsAgree` says what is still owed then. `OpenWindowStays` assumes that macOS tells when it shows the application
  again (`~UnhideUnseen`); otherwise it fails, as shown below. `DesktopKeepsItsLog` and `DesktopAccounts`
  need none either: every step of the program is a step of `RuntimeLog` or leaves the log alone, so its theorem is one of the program.

Only model-checked: `StaleIsRefreshed`, `ShutdownReturns`, `SessionsEnd`, `UpgradeIsCompleted`, `EverythingEnds` and
`DesktopSettles`, because liveness and `ENABLED` are beyond the prover; `TranslationIsSound` but for its last part, the
limits: the rest tells a story from all the events a client was sent, picked out of them with `SelectSeq`, of which the provers know nothing; and the two properties of
`BridgedSession` for Chat Completions and Anthropic Messages, whose adapters fold items into messages: both take induction over data.

## Where the code and its documents disagree

TLC finds each of these with the configuration or the change named. None is among the runs of `PROJECT.json`:
they are to be run by hand, as below. `settings_state.rs`, `control_plane.rs` and the like are the files of
[the system](#the-system).

| Configuration | What happens | What it contradicts |
|---|---|---|
| `CodexBlockedRestore` | a restore interrupted between its configuration write and its receipt leaves apply and restore refusing to work, although nobody edited the managed keys | `README.md:180` |
| `CodexOverlapBackup` | a restore from the menu bar between the two reads of an apply makes it back up provider-x's own URL | `README.md:18` |
| `CodexCacheRace` | Codex writes its cache between the invalidation and the configuration write of a restore, and the stale cache stays (`NoStaleCache`) | `tests/codex_config.rs:233` |
| `ControlStaleDraft` | a token refreshed between the compilation of a draft and its save is replaced by the older one | the test at `settings_state.rs:1281` |
| `ControlLostSwitch` | a Provider disabled while its token is refreshed is enabled again | `README.md:194` |
| `ControlStaleCache` | after a crash between the cache and the Provider write the Provider is routed although its fingerprint differs | `control_plane.rs:165` |
| `EgressStalledClient` | a session whose client does not read waits for ever in a closing send | `README.md:219` |
| `UpgradeUnread` | an unacknowledged receipt hides a document of another schema, and the start fails | `README.md:161` |
| `StreamFoldedData` | a block whose data is in two lines that end in CR LF is split when a frame ends between CR and LF | `push` "adds arbitrary HTTP body bytes" (`P/responses/bridge.rs:303`) |
| `StreamDoneCut` | a Responses stream cut within a `[DONE]` that follows the terminal event ends the session with an error | `parse_block` skips `[DONE]` (`P/responses/bridge.rs:355`) |
| `SessionModel` | a second model of the same Provider, asked for in an open session, is answered by the first | `README.md:72` |
| `CatalogUnreported` | a value the Provider no longer reports becomes the user's at the next refresh and is never replaced | `manual_refresh.rs:91` |
| `DesktopLateLogin` | the credential of a login cancelled late is stored in the form that is open by then | the number of the operation guards its report only |
| `DesktopUnseenUnhide` | an application macOS shows again without an event loses its window to the old timer | the generation is there to prevent it |

Others need a change to a configuration that is here:

| Change | What happens |
|---|---|
| `CodexSequential` with `Menu <- ApplyMenu`, `Bodies = {blank}`, `INVARIANT BlockedOnlyByEdits` | an apply of a new URL interrupted before its configuration write blocks as the first above (`codex_config/mod.rs:129`) |
| `CodexOverlap` with `Bodies = {blank}`, `Urls = {u1, u2, u3}`, `UserValues = {noKeys, custom}`, `PROPERTY CheckedReplacement` | two operations of one process pass the hash check and both rename (`atomic_file.rs:301`) |
| `ControlFaults` with `Accounts = {a1}`, `MaxCrashes = 0`, `MaxEdits = 0`, `Faults <- NoFaults`, `SavesRaceRefreshes = FALSE`, no symmetry, `PROPERTY RefreshKeepsEnableState` | `commit_refresh` changes the enable state its documentation says it keeps (`control_plane.rs:164`) |
| `ResponseStream` with `Streams <- DoneStreams`, `PROPERTY AlwaysEnds` | a response whose upstream hangs never ends while the client pings, nor while the upstream sends comments (`README.md:219`) |
| `BridgedSession` with `Protocols = {"chat"}`, `Limit = 6`, `MaxTurns = 3`, `Strays = {}`, `Answers <- PlainAnswers`, `Habits <- ChangedInstructions` | instructions changed within a conversation are put in front of the old ones, which stay |
| the same with `"anthropic"`, `Instructions = {1}`, `Habits <- DeveloperItems` | a developer item is sent with its own request and forgotten after it |
| the same with `"responses"`, `Instructions = {1}`, `Habits <- RetriedWarmup`, `INVARIANT WarmupStaysLocal` | a second use of the id of an earlier warmup reaches the upstream |
| the same with `"responses"`, `Instructions = {1}`, `Answers <- EmptyAnswers`, `Habits <- NoHabits`, `INVARIANT AsksWhatWasMeant` | a completed response without output leaves the history as it was; the next continuation misses a turn |
| the same with `"anthropic"`, `Limit = 12`, `MaxTurns = 4`, `Texts = {1}`, `Instructions = {1}`, `Habits <- WholeResend` | a conversation sent again as a whole with tool output in it is not recognised, and is asked twice |
| `ModelCatalog` with `Budgets <- Filling`, `INVARIANT EveryChoiceSurvives` alone | a context window the user cleared is filled again by a refresh (`manual_refresh.rs:91`) |
| `ModelCatalog` with `Budgets <- GiveAgain`, `INVARIANT ListedNamesKeepTheirProvider` | the id of a removed Provider is given to the next one of its kind, with the names Codex remembers |
| `Desktop` with `LateCancels = {"discover"}`, `Budgets <- Clicks5`, `INVARIANT ViewIsTheForm` | a discovery cancelled late changes the form under the view; the user's next key undoes it |
| `Desktop` with `SaveFaults = {"unwritten", "stuck"}` or `{"written"}`, `Budgets <- OneSwitch`, `INVARIANT ShownIsSaved` | a Dock rollback that AppKit refuses, or a write reported as failed after its rename, leaves file and application apart |
| `Desktop` with `Budgets <- OneSwitch`, `INVARIANT OneRestore`; the same with `EagerClicks = TRUE` | a change of language enables the menu item while a restore runs; two clicks between two polls start two restores |
| `Desktop` with `Kinds <- WithIntegration`, `Budgets <- OneClick`, `INVARIANT MenuTellsTheTruth` | the menu does not learn that the integration was switched in the window |
| `Desktop` with `Budgets <- FailedRestore`, `PROPERTY ErrorIsTold` | a restore that fails before any window existed opens one that says nothing of it |
| `Desktop` with `Budgets <- Burst`, `PROPERTY DropsAreTold` | without a later record, a count of dropped records is not taken until the log closes |

Reading only, without a configuration: `previous_response_id` of an incomplete or an older response replays the
last completed history; a Responses input that is a string becomes a list of that string; a Responses warmup
without instructions forgets earlier ones; namespaced names of tools in function calls of an input are not flattened for Chat Completions.

## What is not modelled

* Contents: bodies, headers, URLs, presets, prompts, wording, the JSON of tool schemas and images, a
  response that is not streamed. No property here is about them.
* Permissions, symbolic links and the private directory checks of `atomic_file`; field validation of
  the documents (a malformed document ends a start before anything changes).
* The browser login is one step; PKCE and the callback are left out.
* Rebinding the listener to another port and the network probe.
* Parsing of the Providers' model lists, and the discovery of Claude Code's models.
* Layout and drawing of the views, texts and their tables, AppKit beyond what it may refuse, the alert of a failed start.
* The contract probe, a development tool that is not part of the application.
* Whole-program composition: `Desktop` has a restore and the stop of the router as steps that end some way, which
  `CodexConfig` and `EgressServer` have in detail; `ModelCatalog` has saves that succeed, which `ProviderControl` has
  with their failures. Together they are out of TLC's reach.

## Plan

Done, in this order: `CodexConfig` with `ManagedKeys`; `ProviderControl`; `EgressServer` with `Admission`;
`ProviderUpgrade`; the proofs about them; `ResponseStream` with its decoders; `BridgedSession`; `SettingsSession`,
`RuntimeLog` and `Desktop` with the proofs about them; `ModelCatalog`; the theorems about files and tokens of
`ProviderControl`, about `EgressServer`, `ModelCatalog` and the Responses sessions.

Left, most important first:

1. An abstract conversation that only appends, refined by `BridgedSession`, and the theorems about its two other adapters
   as far as they do not fold.
2. The publication of `ProviderControl` to the sessions of `ModelCatalog`.
3. Rebinding the listener, which joins `EgressServer`, the reconciliation of `CodexConfig` and the settings.

## Running

    tlc -workers 2 -config CodexSequential.cfg MCCodexConfig.tla
    tlapm CodexConfigProofs.tla

The module of a configuration is the one the table of modules names for its run; a configuration of the
disagreements belongs to the module its name begins with (`Codex`, `Control`, `Egress`, `Upgrade`, `Stream`, `Session`,
`Catalog`, `Desktop`). Every configuration finishes within five minutes on two workers; a proof module within ten.
`PROJECT.json` lists runs, mutants and theorems.
