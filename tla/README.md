# Marznode in TLA+

Marznode is the agent of a VPN panel on one server. The panel calls it over gRPC; the agent keeps
the panel's users in memory or in sqlite, gives them to the VPN servers it runs as child processes (xray,
sing-box, hysteria2), and restarts those servers. It is one Python process with one asyncio event
loop: the code between two awaits runs alone, and everything else can happen at an await.

This directory holds the formal model of that agent: modules (`*.tla`) translated from the source,
the instances TLC checks (`MC*.tla`, `*.cfg`), and proofs for every value of the constants
(`*Proofs.tla`). `PROJECT.json` maps each definition to the lines it models and lists the runs, the
mutants, the findings and the hazards. Paths below are relative to `src/marznode/`.

    tlc -workers 2 -config MCUserSyncTwo.cfg MCUserSync     # one run
    tlapm UserSyncProofs.tla                                # one module of proofs

Contents: [inventory](#inventory) · [UserSync](#usersync) · [XrayBackend](#xraybackend) ·
[SqliteStorage](#sqlitestorage) · [SingBoxBackend](#singboxbackend) ·
[HysteriaBackend](#hysteriabackend) · [XrayRules](#xrayrules) · [Inbounds](#inbounds) ·
[NodeTraffic](#nodetraffic) · [UsersStats](#usersstats) · [LogStreams](#logstreams) ·
[runs](#runs) · [fairness](#fairness) · [proofs](#proofs) · [findings](#findings) ·
[not modelled](#what-is-not-modelled) · [plan](#plan)


## Inventory

| Component | State | Operations | Talks to |
|---|---|---|---|
| **MarzService** `service/service.py` | none of its own; each handler's locals | SyncUsers (a stream), RepopulateUsers (which replaces the node's policies too), RestartBackend; FetchBackends, FetchUsersStats, FetchNodeTrafficStats, StreamBackendLogs, FetchBackendConfig, GetBackendStats | storage, backends |
| **SqliteStorage** `storage/sqlite.py` | tables users, user_inbounds, user_outbounds, node_outbound_policies, node_traffic; the inbound registry in memory; one connection | list, update and remove users, replace policies, record traffic, register and remove inbounds | a thread per connection (aiosqlite) |
| **XrayBackend** `backends/xray/xray_backend.py` | `_config`, `_inbound_tags`, `_inbounds`, `_api`, `_started_once`, two locks | start, stop, restart, add_user, remove_user; two watchdog tasks | storage, XrayCore, XrayAPI |
| **XrayCore** `backends/xray/_runner.py` | the process handle, log streams and buffer, `stop_event` | start, stop, restart; a capture task per process | the xray process |
| **XrayAPI** `backends/xray/api/` | a channel | add and remove a user of an inbound, statistics | the xray process |
| **XrayConfig** `backends/xray/_config.py` | the JSON of a configuration | resolve inbounds, add routing rules for users and policies | – |
| **SingBoxBackend** `backends/singbox/` | as XrayBackend, and `_config_update_event`; users live in the configuration | start, stop, restart, add_user, remove_user; a watchdog, a task that reloads | storage, its runner |
| **HysteriaBackend** `backends/hysteria2/` | a dictionary of users an HTTP callback reads | start, stop, restart, add_user, remove_user | storage, its runner |
| **TrafficMonitor** `traffic.py` | the last counters | sample; a task that records differences | storage |
| **MemoryStorage** `storage/memory.py`, the default | dictionaries | as SqliteStorage | – |
| **accounts and keys** `backends/*/…account*.py`, `utils/key_gen.py` | – | the credentials of a user in an inbound of a protocol | – |
| **main()** `marznode.py` | – | makes the storage, starts the backends, then the gRPC server | all |

What makes each one correct, and what is hard to test about it:

* **MarzService.** When the handlers of a user are done, xray has exactly the accounts the storage
  gives it. An update is a read of the row, several awaits on xray, two writes; another handler, a
  start of xray, a crash, a cancellation by grpclib or an error may come at every await, and nothing
  is rolled back. RepopulateUsers must leave the users of its message and no other.
* **XrayBackend and XrayCore.** One process, the one the runner holds; fields that belong to it;
  a watchdog that brings it back whichever way it learns of its death. RestartBackend holds a lock
  the watchdogs look at but do not take, and every wait has a timeout after which the code goes on.
* **SqliteStorage.** Each operation is atomic and durable once it has returned. Its statements are
  awaits on a connection that all tasks share: a commit of one task commits what another has
  written so far, and an error leaves the transaction open for the next commit of anybody.
* **XrayConfig.** Of the routing rules the first match wins: the rules of users and policies must
  come before what would catch their traffic, and after the rule of the API.
* **SingBoxBackend.** Every change of a user reaches the process with some later reload; a restart
  loses none; the watchdog must not start a second process.
* **HysteriaBackend.** A user's password is accepted while its row is there, and not after, though the
  dictionary that answers and the storage are two things; a removal reaches clients that are
  connected; nothing restarts the process when a restart fails.
* **TrafficMonitor.** What is recorded never exceeds what the interfaces counted, and loses bytes
  only at resets, at interface changes, and when a record fails.
* **FetchUsersStats.** The processes forget what they have counted when they are asked: a byte must not
  be told twice, and is lost with any step that fails on its way to the panel.
* **The log streams.** The capture that hands lines to clients is the one that notices the end of the
  process; a client that leaves changes the list the capture is walking.
* **Inbounds and accounts.** The panel makes links from what it is told of an inbound, and every inbound
  it is told of must take its users; several tables of protocols and networks have to agree.

The hazards, each at its line, are in `PROJECT.json` under `hazards`.


## UserSync

`UserSync.tla` models the user handlers of `service/service.py` together with the storage, the start
of xray and the accounts xray holds. A step runs from one await that can suspend to the next.

| Variable | Code |
|---|---|
| `db` | rows of users, user_inbounds, user_outbounds: per user an identity, tags, a list of outbounds |
| `inbounds` | `SqliteStorage._inbounds`, the registry |
| `claimed` | `XrayBackend._inbound_tags`, read by `contains_tag` |
| `disk` | the configuration file: the tags it declares, or a file that cannot be used |
| `proc`, `accounts` | the xray process (dead, starting, up, or silent: it holds its accounts and answers nothing), and its accounts per inbound, keyed by email |
| `armed` | `_started_once` |
| `boot` | where `XrayBackend.start` (or a bare restart) is, for whom, and which users it has still to add |
| `serving` | main() has reached `server.start` |
| `stream`, `job` | per handler: its RPC with the messages left, and the update in its hands |
| `span`, `cause`, `faults` | history |

| Action | Code |
|---|---|
| `SyncUsers`, `UpdateUser` | `SyncUsers` and the branches of `_update_user` (service.py:116-162), up to their first await on xray |
| `RemoveCall`, `AddCall` | `_remove_user`, `_add_user` with `_resolve_tag`, `XrayBackend.add_user`/`remove_user` and xray's answer |
| `StoreInbounds`, `StoreOutbounds`, `DeleteUser` | the storage operations that follow |
| `RepopulateUsers`, `RepopulateNext`, `ListStale`, `SweepNext`, `SweepDone` | `RepopulateUsers`, its loop and its sweep |
| `Restart`, `BadRestart`, `BareRestart` | `RestartBackend` with a configuration, with one that start() raises on after stop() is done, and without any |
| `AutoRestart` | the watchdog's start from the file |
| `Spawn`, `Started`, `ListInboundUsers`, `LoadUser`, `BootDone`, `StartFails` | the rest of `start()` and `add_storage_users` |
| `Listen`, `Die`, `Hang` | xray |
| `Cancel`, `CancelStop`, `CancelRestart`, `NodeRestart` | grpclib's cancellation at an await; a crash of the node and its next start |

A user's identity stands for its username and key. Xray's email is `id.username`, so two identities
may share one (`NameOf`); this is what the order of removals and additions is about. Tags and lists
of outbounds are opaque. Two things are simpler than the code: a storage operation is one step, and
starts of xray do not overlap (`XrayBackend` lets them).

**Registered and claimed.** start() registers the tags of its configuration before it reads the storage, and
claims them (`_inbound_tags`) after; stop() takes only claimed tags out of the registry
(xray_backend.py:142-148). So a start that is cancelled in between leaves tags that are registered and
that no backend claims, and they outlive later restarts: `Restart` removes `claimed` and adds `cfg`. A
restart whose configuration start() raises on (126, 128) leaves no tag of its own and no process,
with or without having saved the file; the watchdog does not start from a file that raises, and a node
that is restarted on one does not come up.

**`cause`.** Storage and xray do not always agree, and the code does not always claim it. `cause[u]`
records, from the actions alone, the first reason why they need not agree on user `u`:

* `overlap` – two workers were on the user at once: two handlers, a handler and a sweep, or a
  handler and a start of xray;
* `stale` – its update began with a tag that is registered and that no backend claims;
* `cancel` – its update was cancelled before its row was written;
* `abort` – a start met an account that exists and gave up, or was cancelled;
* `bare` – xray was restarted without a configuration;
* `late` – xray came up after start() had stopped waiting.

A start that loads the stored users from the beginning clears it, except for users being worked on.
The main properties speak of users whose cause is `none`. `StartRepopulates`, `TagsAreClaimed` and
`StartsOrDies` take `abort`, `stale` and `late` out of the excuse, and the findings show that what the
comments in the code promise is not kept. The others are
states that last until xray starts again: after `bare` xray has no user until the panel repopulates
(`XrayBackend.restart` without a configuration only restarts the process), and after `cancel` the
panel's retry of the update is refused, as its account is in xray and its row was not written.

| Property | Says |
|---|---|
| `Agreement` | once a user's handlers are done and xray is up, it holds exactly the accounts the storage gives it |
| `OneCredential` | xray never holds two credentials of a user, not even during a change of its key |
| `UpdatesNeverRefused` | no call of an update is refused, neither by `_resolve_tag` nor by xray, unless it began with a tag that no backend claims |
| `RepopulateReconciles` | when RepopulateUsers ends, the storage holds the users of its message, as given, and no other; their tags, as far as they were registered all along (`span.kept`); users that another handler worked on meanwhile (`span.others`) are left out |
| `EveryCallEnds` | every handler, and every start of xray, comes to an end, unless xray listens and answers nothing |
| `IInv` | the inductive invariant of the proofs |
| `StartRepopulates`, `TagsAreClaimed`, `StartsOrDies` | a start leaves every stored user in xray; a client may name any registered tag; no user is left out because xray was slow: violated, see the findings |


## XrayBackend

`XrayBackend.tla` models who starts and stops xray: `RestartBackend` calls (`Callers`) and the two
watchdog tasks (`"event"`, `"poll"`), between awaits, over the fields they share. It begins when
main() has started xray, quickly or past the four seconds of XrayCore's wait.

| Variable | Code |
|---|---|
| `disk` | the configuration file, which start() writes before it checks the content |
| `config`, `claimed`, `api`, `armed` | `_config`, `_inbound_tags`, the port `_api` calls, `_started_once` |
| `handle`, `given` | `XrayCore._process`, and the configuration written to it |
| `proc` | the processes that exist: booting, up, stopping or dead, and whether a capture task reads their output |
| `terminating` | the process `XrayCore.stop` waits for |
| `stopEvent`, `leaked` | `stop_event`; whether `_snd_streams` holds a stream that nobody reads |
| `pc`, `arg`, `plan` | where each caller and watchdog awaits, its argument, the configuration it is about to start xray with |
| `torn`, `events` | history |

| Action | Code |
|---|---|
| `RestartBackend`, `Acquire` | the call; `restart` once it has the lock, with `stop()` up to the wait |
| `Stopped`, `Killed` | the process ended, or three seconds passed |
| `StartHead`, `Read`, `Spawn`, `Written`, `WriteFails`, `Heard`, `TimedOut`, `Loaded` | `start()`, await by await |
| `StopNoticed`, `Poll`, `Recover`, `Wake` | the watchdogs: stop event, poll, checks, the checks after the sleep |
| `OutputEnds` | the capture task at the end of the output: `stop_event.set()` |
| `ComeUp`, `PortsTaken`, `Exit`, `Die` | xray |
| `Cancel` | grpclib cancels a RestartBackend handler, at any of its awaits |

The locks are not variables: `RestartLocked` and `AutoRestartLocked` follow from who is where, as
each is held from its acquisition to a `finally`. A process takes the ports when it comes up; a second
one that finds them taken ends. A stream left behind by a timed-out or cancelled wait blocks the
capture of every later process (the streams have no buffer, `_runner.py:106-108`), and with it the
stop event: this is what makes the poll necessary.

| Property | Says |
|---|---|
| `PlannedOneProcess` | with the watchdogs off, whatever is cancelled or raises, every process alive is the one the runner holds |
| `Coherent` | when xray runs and the last start was alone and came to its end, `given`, `api` and `claimed` are those of one configuration |
| `Recovers` | with the watchdogs on, xray is up again and again, unless a call disarmed them, spoiled the file on the disk, or a process was left behind |
| `OneProcess` | as PlannedOneProcess with the watchdogs on: violated, see the findings |

**`torn`** records that a start was cut short or overlapped another one, until one begins alone. It
is needed because `_config` is set before the awaits of start() and `_inbound_tags` and `_api` after.


## SqliteStorage

`SqliteStorage.tla` models the operations of `storage/sqlite.py` statement by statement. All tasks
share one aiosqlite connection, on which a thread runs one statement after the other. There is one
transaction at a time, that of the connection: the first statement that writes opens it, and a
commit ends it whoever wrote in it. `Store.tla` is what the rest of the node relies on, and what
UserSync assumes of it when a storage operation is one step.

| Variable | Code |
|---|---|
| `connected` | `_db` is set |
| `view`, `disk` | the tables as the connection sees them, and as last committed |
| `op` | per writing task: its call, the statement it awaits, and whether it was cancelled |
| `read` | per reading task: how far `list_users` or `get_node_traffic_totals` has come, and what it has |
| `call`, `settled`, `before`, `asked`, `kept` | history: Store's state, and samples handed in and recorded |

| Action | Code |
|---|---|
| `Begin` | the call, up to its first await |
| `Connect`, `UpsertUser`, `DropRows`, `InsertRows`, `DeleteUser`, `ClearPolicies`, `InsertPolicies`, `AddToBucket`, `Commit` | one statement, with the code up to the next |
| `ListUsers`, `ReadTags`, `ReadOutbounds`; `GetTotals`, `SumMonth`, `SumTotal`; `ReadReturns` | the reads |
| `Fail`, `Cancel`, `Crash` | an error of a statement; cancellation (the thread runs the statement nevertheless); the end of the node |

`First` and `After` give the order of the statements. Two concurrent updates of one user may make
`InsertRows` raise on a row that exists, or on a user that was deleted; both are modelled with the
rows already inserted staying in the transaction, which nobody rolls back. An identity is username
and key, a list of outbounds a value, a sample of traffic one unit of its hour. SQLite errors that
roll the transaction back by themselves (a full disk) are not modelled.

**`Store`.** An object (a user with its rows, or the table of policies) is *settled* when the last
call that wrote it has returned and was alone on it. A settled object keeps its value, through
crashes too. Of an object that is being written, or whose last call raised, nothing is said.

| Property | Says |
|---|---|
| `ImplementsStore` | the statements implement Store (`value` is the rows of each object as the connection sees them) |
| `NoOrphans` | no inbound or outbound row without its user, in the transaction or on the disk |
| `ReadsSettled` | `list_users` returns the value of every user no call worked on while it read |
| `TrafficKept` | a recorded sample is on the disk, and no sample is there twice |
| `TotalsOrdered` | today ≤ month ≤ total, though samples are recorded between the three sums |
| `CrashKeepsUsersWhole` | what a crash leaves of a user is the user before or after the update: violated, see the findings |


## SingBoxBackend

`SingBoxBackend.tla` models `backends/singbox/`: the user handlers change the configuration in
memory, a task writes it out and sends SIGHUP, and RestartBackend calls (`Callers`) and the watchdog
stop and start the process. A process has the users of the file at the time it read it.

| Variable | Code |
|---|---|
| `db`, `pending` | the inbounds stored for a user, and what its handler is about to store |
| `disk`, `full` | the configuration file; the users in the `.full` file that sing-box reads |
| `conf`, `accounts` | the inbounds of `_config` and the users in it |
| `claimed` | `_inbound_tags`, and the registry of the storage, which change together |
| `due`, `updater` | `_config_update_event`; whether `_user_update_handler` goes on |
| `handle`, `terminating`, `woken` | `SingBoxRunner._process`, the process `stop` waits for, the stop event on its way to the watchdog |
| `proc` | the processes: life, users, a signal not handled yet, whether their output is captured |
| `pc`, `arg`, `todo` | where each caller and the watchdog awaits, its argument, the inbounds it has still to load |
| `mixed`, `cut`, `late`, `disarmed`, `events` | history |

| Action | Code |
|---|---|
| `UpdateUser`, `StoreUser`, `HandlerFails` | `_update_user` with `add_user` and `remove_user`; the write of the row; a cancellation or error before it |
| `UpdateUsers` | a round of `_user_update_handler` that finds the event set |
| `RestartBackend`, `Acquire`, `Stopped` | the call, `restart` with the lock, `stop` |
| `StartHead`, `LoadInbound`, `Launch`, `Spawn` | `start`, await by await |
| `OutputEnds`, `StopNoticed`, `Wake` | the capture at the end of the output; the watchdog awake, and after its sleep |
| `ComeUp`, `Reread`, `Exit`, `Die` | sing-box |
| `Cancel` | grpclib cancels a RestartBackend handler |

A configuration that is not JSON, which start() refuses before it writes anything, is left out: it
leaves what a bad one leaves, but for the file. A stopped process closes its output when it ends.

| Property | Says |
|---|---|
| `ConfigAgrees` | unless a start is reading them, `_config` has the stored users of its inbounds, however starts overlap; excused are users whose handler failed or met a start (`mixed`), and all of them from a start that was cancelled while it read to the next start (`cut`) |
| `ChangesAreDue` | no start being under way, if the process will not have the users of `_config` once it has done what it was told, the update event is set; excused is a process behind whose back a start changed `_config` (`late`) |
| `ChangesArrive` | so every change reaches it, if no more is made, unless sing-box stops, the task has ended, or a start changed `_config` behind its back (`late`) |
| `PlannedOneProcess` | as for XrayBackend |
| `Recovers` | with the watchdog on, a process comes to serve again and again, unless the watchdog ended or a call stopped sing-box and failed (`disarmed`) |

The exceptions are states the code reaches. `late` says that a start emptied `_config`, read the users
again, and then brought up no process: it found one running and raised, which is how the second of two
overlapping starts ends (a RestartBackend call and the watchdog's), or it was cancelled. If the first
start wrote the file while the second had just emptied `_config`, the process lacks stored users, the
event is clear, and nothing repairs it before the next change of a user, which has the task write the
whole `_config` (`late` ends there), or the next start. The reload task ends for good when it finds the event
set and no process (`reload` catches OSError, and None has no `send_signal`), as it may while a
restart is under way; the watchdog when its start() meets a process that runs or a bad file. A
restart without a configuration always raises: the runner is given `_config` where it takes a path.
As in XrayBackend, the watchdog starts sing-box without the lock, so that with it on two processes
are possible.


## HysteriaBackend

`HysteriaBackend.tla` models `backends/hysteria2/` with the user handlers and either storage. Hysteria
has no accounts: for every client it asks the node over HTTP, and the node answers from `_users`, a
dictionary of passwords which start() does not fill and stop() does not empty.

| Variable | Code |
|---|---|
| `durable`, `rows`, `registered` | which storage; the users in it, and whether they list the inbound; whether it is in the registry |
| `users` | `_users`, as pairs of a user and a password |
| `job` | per user the handler: the request to send a client away, the add, the write it has still to do |
| `file`, `site` | the configuration on the disk; whether `_auth_site` is a site that stop() can stop |
| `call`, `calls` | per RestartBackend call: where restart() is |
| `proc`, `old`, `sessions` | the process, the one before it that has not ended, its clients |
| `serving`, `cause`, `unkicked`, `hurt`, `faults` | whether main() serves; history |

| Action | Code |
|---|---|
| `UpdateUser` with `NewUser`, `DropUser`, `SameIdentity`, `NewIdentity` | `_update_user`, as far as its first await |
| `RemoveCall` (`RemovePassword`, `Kick`), `AddCall`, `WriteUser`, `HandlerFails` | the awaits that follow; a cancellation or an error |
| `RestartBackend`, `Stop`, `StopRaises`, `StartSite`, `Configure`, `Spawn`, `CancelCall` | `restart`, `stop` and `start` |
| `ComeUp`, `Occupied`, `OldEnds`, `Die` | hysteria |
| `Connect`, `Disconnect` | a client, with `_auth_callback` |
| `NodeRestart` | the node ends and main() starts again |

MemoryStorage awaits nothing: with it, what `OthersRun` guards runs in one go with the step before.

| Property | Says |
|---|---|
| `NoStrangers` | a password that is taken is the key of the user's row, and the row lists the inbound |
| `NobodyMissing` | a user whose row lists the inbound is let in |
| `SessionsAreUsers` | a client that is connected has a good password, or is about to be sent away |
| `Recovers` | a restart with a good configuration ends with hysteria up, after a bad one too |

The first two hold but for the ways that `cause` names, which TLC finds when one is left out: `failed`
(the handler was cut short), `window` (it ran while stop() had taken the inbound from the registry),
`stripped` (MemoryStorage.remove_inbound took the inbound from every row, memory.py:71-72, while the
passwords stayed), `reboot` (with sqlite the rows survive a restart of the node, the passwords do not,
and sending the user again unchanged adds nobody). `SessionsAreUsers` excuses a request that was cut
short: the password is forgotten first (hysteria2_backend.py:103-105), so a retry returns early.


## XrayRules

`XrayRules.tla` models what `backends/xray/_config.py` does to `routing.rules` and `outbounds` before
xray is started: `_apply_api`, `apply_user_outbounds`, `apply_node_outbound_policies`. xray takes the
first rule that matches a connection, so all depends on what is inserted where.

| Variable | Code |
|---|---|
| `fileRules` | the rules of the file |
| `jobs`, `done` | the outbounds of `list_users` and the policies of `list_node_outbound_policies`; how many have been applied |
| `rules` | `routing.rules` |
| `exits` | per outbound tag, whose server it has: of the operator, of a job, or missing |

`Init` is the configuration with the rule of the API at its head. `Apply` is one round of the loop over
outbounds and, after those, of the loop over policies: an outbound if the tag is new, a rule if the key
is new, at `UserPlace` (`is_broad_inbound_route`) or `PolicyPlace` (`_policy_rule_index`). `RuleOf`,
`SameKey`, `ExitOf` give the rule, its key and its tag. `Route`, the first match, is xray's.

A rule has a user or none, inbounds or none, and the names of the other conditions it has; a connection
meets some of these. So a condition is true or false of a connection, and two rules with the same
condition ask for the same. Rules of the file with a policy's tag, policies without inbounds, rules
with several users, and two users of one username (they share the outbound tag `res-{username}`, so
the second is sent to the server of the first) are excluded by the assumptions.

| Property | Says |
|---|---|
| `RoutesAsExpected` | a connection goes where the docstrings and the tests say (`Expected`): the API's to the API; one that a narrow rule at the head of the file matches where that rule sends it (`NarrowHead`, tests/test_xray_user_outbounds.py:133); a user with an outbound whose inbounds match to that outbound (xray/_config.py:245); then, unless a rule of the file before the first catch-all has claimed it, to the policy that matches (304); then the file decides. Excused are three departures of the code, each named and in the findings: `Overtaken`, `Unheard`, `Misplaced` |
| `ServersMatch` | the rule that was added for an outbound leads to the server of that outbound, or to one the operator gave the tag |
| `NarrowRulesFirst`, `OutboundsAreHeard` | the same without an excuse: violated, see the findings |

The departures are: a user's rule goes before narrow rules of the file, because the rule of the API
passes for a broad one (`Overtaken`); the second outbound of a user, and one whose user and tag a rule
of the file names, get no rule, because the inbounds are no part of its key (`Unheard`); and a policy
goes before a rule that names only a protocol, a network or a source, which `_policy_rule_index` takes
for a catch-all (`Misplaced`). `Decided` is what the code makes of a connection including these; it is
the step of the proof between the list of rules and `Expected`.


## Inbounds

`Inbounds.tla` takes one inbound of a configuration file, of xray or sing-box, through
`_resolve_inbounds` to the panel (`Start`, with `FetchBackends`) and to the account of a user in it
(`AddUser`, `RemoveUser`). `XrayFiles` and `SingBoxFiles` are the inbounds that the branches of the code
tell apart; a path, a host or a header is the key of the file it is taken from. The name of the settings
(`under`) and the network are spelled apart: `Found` is the lookup of `f"{net}Settings"` (170), which
misses the settings when the two differ. `Lower` is
`str.lower()`, `plain` and `flow` are settings of the environment (config.py).

| Property | Says |
|---|---|
| `TakesUsers` | an inbound the panel is told of refuses a user for three reasons only: its protocol is not in lower case (the check lowers it, `accounts_map` does not), xray's accounts do not know the flow of the environment, a plain key has to be a UUID and is none |
| `FlowAgrees` | the flow the panel is told is the flow of the account |
| `SpellingsAlike` | two inbounds that spell a network of `transport_map` differently, each alike for the network and its settings, are told alike, but for h2 and h3, which it takes for http and whose settings nothing reads; when only the network's spelling changes, the settings are not found, and the place (path, host, header) that is told changes, and nothing else |
| `SidServed` | the short id the panel is told is one of the inbound, the empty one only if it has no other (proved, not run) |


## NodeTraffic

`NodeTraffic.tla` models `traffic.py`, `record_node_traffic` and `get_node_traffic_totals` of both
storages, and `FetchNodeTrafficStats`.

| Variable | Code |
|---|---|
| `up`, `counter`, `hour` | the interfaces and their counters in the kernel; the clock |
| `previous`, `latest` | `_previous`, `latest_sample` |
| `begun`, `writing` | run_traffic_monitor: it has sampled; the record it awaits |
| `durable`, `traffic` | which storage; its buckets, as its connection reads them |
| `committing`, `disk` | the statement of a record has been executed and its commit is awaited; what a restart finds |
| `call`, `told` | the handler between its sample and the sums; the last answer |
| `passed`, `booked`, `base`, `seen`, `lossy`, `events` | history |

| Action | Code |
|---|---|
| `Pass`, `Reset`, `Vanish`, `Appear`, `Tick` | the kernel and the clock |
| `Sample` (`TakeSample`, `MissSample`), `Garbled` | a round of run_traffic_monitor up to the record; sample() raises |
| `Record`, `Commit`, `RecordFails` | the record is made, and committed, or raises at either, after `_previous` has been replaced |
| `OtherCommit` | another handler commits on the same connection, and what was executed with it |
| `FetchNodeTrafficStats`, `Answer` | the handler, up to the sums and after them |
| `NodeRestart` | the node starts again; sqlite has what was committed |

| Property | Says |
|---|---|
| `NeverAhead` | what is recorded for the hours up to each is no more than what had passed by its end: nothing is counted twice, and no difference is negative or counts the time before the first sample |
| `NothingLost` | of an interface whose counter went on and whose records succeeded, every byte since its first sample is recorded, in the hands of the task, or still to be counted |
| `AnswersGrow` | from one answer to the next the total grows, and the sums of the day and the month while they last, but for a restart that finds less than there was: MemoryStorage starts empty, and sqlite rolls back a sample that was executed, read by an answer, and not committed |
| `TypeOK` | the types, and with them that no difference is negative |


## UsersStats

`UsersStats.tla` models `FetchUsersStats` with `get_usages` of the three backends: a call asks one
process after the other (`Ask`, in the order of main()), each of which answers and starts again from 0
(`QueryStats`), adds the answer to what it has (`GetUsages`) and sends the sums (`SendStats`). Calls may
overlap, processes die or get stuck (`Die`, `Hang`), a call may end at any await (`Fails`). A stuck
sing-box is left after three seconds (`TimesOut`), a stuck hysteria after the five minutes of aiohttp,
which end the call (`GivesUp`). `told` and `passed` are the bytes the panel was told of and those that passed.

| Property | Says |
|---|---|
| `NothingTwice` | what was told, is on its way and is still counted is no more than what passed; the types |
| `NothingLost` | it is no less either, but for the users in `lossy`: a process died, a call failed after processes had been asked, sing-box took more than three seconds after it had counted, or hysteria answered for two usernames of one user, of which the last replaces the other (hysteria2_backend.py:137) |
| `FetchEnds` | every call ends, unless xray is stuck, which has no timeout |


## LogStreams

`LogStreams.tla` models the capture of a process's output and its readers, which is the same code in
the three runners: two coroutines (stderr, stdout) walk one list of streams with every line, wait for
each reader in turn, and remove a stream that was closed from the list under the walk.

| Variable | Code |
|---|---|
| `cap` | per coroutine: reading, handing line `n` to the stream at place `idx`, done |
| `snd`, `open` | `_snd_streams`; the streams whose receiver is open |
| `buffer` | `_logs_buffer` |
| `reader`, `todo` | the coroutine that reads a stream, and the copy of the buffer it sends first |
| `ended`, `stopEvent` | the process has ended; `stop_event` has been set |
| `last`, `stalls` | history |

| Action | Code |
|---|---|
| `ReadLine`, `SendLine`, `Sent`, `Broken` | `capture_stream`, await by await; `Broken` is its `except` |
| `TellStop` | the end of `gather` |
| `StreamBackendLogs`, `SentOfBuffer`, `SentToClient`, `ClientLeaves` | `get_logs` and the handler |
| `ClientStalls`, `StartupTimesOut` | a client takes no more; the four seconds of XrayCore.start are over |

| Property | Says |
|---|---|
| `InOrder` | a client gets the lines of a coroutine in their order and each at most once, over the seam between buffer and stream too |
| `NoneSkipped` | when a line has been round, everybody who was in the list and still reads has it, except a stream that moved to a place the walk had passed when the one before it was removed. Lines that arrive while a client is still sent the copy of the buffer are another matter: it is not in the list yet, and they are not sent to it |
| `StopTold` | when the process has ended the stop event is set, unless a client does not read or start() left its stream behind |
| `LogTypeOK` | the types, and the length of the buffer |


## Runs

All bounds are constants in the cfg files.

| Run | Instance | Shows |
|---|---|---|
| `UserSyncTwo` | 2 handlers (symmetric), 2 users, 2 identities with different emails, a RepopulateUsers whose sweep removes one user, restarts with a good and a bad configuration, no faults | handlers that overlap on one user leave the other unharmed; agreement, one credential and no refusal for users with one worker at a time; `RepopulateReconciles` beside another handler |
| `UserSyncLive` | 1 handler, 2 users, 2 identities with one email, 2 tags, restarts with configurations of 1 and 2 tags, a bad one and none, 1 fault | growing and shrinking configurations, changes of a key, RepopulateUsers, and a crash, a cancellation, a death or a hang of xray anywhere, so also tags that stay registered and unclaimed: `IInv`, `EveryCallEnds` |
| `UserSyncAbort` | 2 handlers, a start | `StartRepopulates` is violated |
| `XrayBackend` | 2 callers, 3 processes, 1 good and 1 bad configuration, watchdogs on and off, 3 events | the three properties above |
| `SqliteStorage` | 2 writers, 1 reader, 2 users, 7 calls of all kinds, 3 calls in a behaviour, 1 fault | the first five properties above |
| `SingBoxBackend` | 1 user, 2 callers, 3 processes, 2 tags, configurations of 1 and 2 tags and a bad one, watchdog on and off, 3 events | its five properties above |
| `HysteriaBackend` | 1 user, 2 keys, 2 callers, 2 restarts with good and bad configurations, 2 faults, both storages | its four properties above |
| `XrayRules` | every file of up to 3 rules out of 5, up to 2 outbounds out of 4 of 2 users, up to 2 policies, 2 inbounds, every connection | `RoutesAsExpected`, `ServersMatch` |
| `Inbounds` | every inbound of a file over 11 protocols, 15 networks, 5 lists of short ids, 3 flows, 2 keys | its first three properties above |
| `NodeTraffic` | 1 interface, 3 bytes, 3 hours of which 1 makes a day and 2 a month, 2 changes, failures or restarts, both storages | its four properties above |
| `UsersStats` | 1 user with 2 identifiers, 3 processes, 2 calls, 2 bytes, 2 faults | its three properties above |
| `LogStreams` | 2 coroutines of 1 line and the end each, 2 clients and the stream of start(), a buffer of 1, 1 stall | its four properties above |

Why the bounds are enough to be of interest: a disagreement about a user is between two workers at
most (handler and handler, or handler and start), so two handlers and one start meet every pair; two
users show whether work on one harms the other; two tags separate "some tags done" from "all". The
faults are taken one at a time, at every await, because each of them ends what it hits;
the proofs have no bound on them. In XrayBackend three events are a call, a death and a
cancellation, or two calls and a death, which is what an overlap with a leaked stream takes (in
SingBoxBackend the changes of the user are events too); three
processes are the terminated one, an orphan and the new one. In SqliteStorage two writers interleave
in every way at the statements of any two operations, on the same object and on different ones, and
a third call follows on what they left; one fault falls at any statement. In XrayRules three rules are
one before, at and after any place of insertion. In HysteriaBackend the handlers of two users share
nothing but the process, so one user is enough, with a key it had before; two faults are a restart of
the node or of hysteria in the middle of what another fault left. In NodeTraffic what holds of an
interface holds of the sum, and the proofs have any number; two events are a loss and what covers it up,
and three hours are two days of a month and one of the next. In UsersStats a second user would be added
up apart; two identifiers of one are what the sums have to bring together, and two bytes are one in each.
In LogStreams two clients are one that leaves and one behind it in the list. Inbounds has no bound
but the sets: they have every name that occurs in the code, and one that does not.
`CHECK_DEADLOCK FALSE` is set everywhere: a quiet node with its bound of events used up has nothing to
do.

Types: the type invariants of UserSync, XrayBackend, SqliteStorage, XrayRules and Inbounds are proved and not
checked again; in SingBoxBackend, HysteriaBackend and UsersStats it is the first conjunct of an invariant.

Every property of a passing run has a mutant in the module (comments `\* Mutant:`), an operator that
replaces a definition the way a plausible bug would, under which TLC finds the property violated.


## Fairness

`UserSync`: `WF_vars(Handler(t))` for each handler and `WF_vars(Boot)`. A handler that is not waiting
for the panel is a coroutine of the event loop, whose awaits are sqlite statements and calls to a
local process. A call to xray that is dead or up returns; one to an xray that listens and is silent does
not, as it has no timeout (xray_backend.py:174,183): no step of the handler is enabled then, and fairness
asks for none. `EveryCallEnds` excuses it.
The steps of a start are the event loop's, with a timeout of four seconds where it waits for xray.
Nothing is assumed of the panel, of faults, or of the watchdog.

`XrayBackend`: `WF_vars(System)`, where System is every step of the event loop and the kernel: asyncio
runs every ready task, sleeps and timeouts elapse, a terminated process ends. It is one conjunct for
all of them, which is weaker than one per task. Calls, deaths and cancellations (`RestartBackend`,
`Die`, `Cancel`) are not fair.

`SingBoxBackend`: one `WF` for each handler, for the reload task, each caller, the watchdog and each
process, for the same reasons. Requests, calls, failures and deaths are not fair.

`HysteriaBackend`: `WF` for each handler and for the process, `SF` for each RestartBackend call: a call
that waits for the lock finds it taken again and again while others run, but asyncio.Lock serves its
waiters in turn. `UsersStats`: `WF` for each call: what is ready runs, a process that is not stuck answers,
three seconds pass. `LogStreams`: `WF` for each coroutine of the capture, for its end, and for each client
that has not stalled. Nothing is assumed of requests, deaths, cancellations, or clients that stall.

`SqliteStorage`, `XrayRules`, `NodeTraffic` and `Inbounds` have safety properties only, and no fairness.


## Proofs

TLAPS proves the following for all values of the constants, under the `ASSUME`s of the modules, which
TLC evaluates in every run: identities have a name, requests are well formed, a message of
RepopulateUsers names a user once, the configurations are disjoint from the bad ones, model values
differ from the data, and, where a sum is taken over them, hours, calls, identifiers are finitely many
(`FiniteAssumption`, `StatsFinite`). None bounds a number of faults, calls or users.

| Module | Theorem | Establishes |
|---|---|---|
| `UserSyncProofs` | `TypeCorrect` | `Spec => []TypeOK` |
| | `InductiveInvariant` | `Spec => []IInv` |
| | `UsersAgree` | `Spec => []Agreement` |
| | `CredentialsReplaced` | `Spec => []OneCredential` |
| | `UpdatesRunToTheEnd` | `Spec => UpdatesNeverRefused` |
| | `RepopulateIsExact` | `Spec => RepopulateReconciles` |
| `XrayBackendProofs` | `TypeCorrect` | `Spec => []TypeOK` |
| | `RestartsAreSerial` | `Spec => []OneHolder` |
| | `PlannedStartsOneProcess` | `Spec => []PlannedOneProcess` |
| | `RunningXrayIsCalled` | `Spec => []Coherent` |
| (XrayRules) | `RulesTypes` | `RulesSpec => []RulesTypeOK` |
| | `RoutingIsExpected` | `RulesSpec => []RoutesAsExpected` |
| | `ServersAreRight` | `RulesSpec => []ServersMatch` |
| `SqliteStorageProofs` | `TypeCorrect` | `Spec => []TypeOK` |
| | `ForeignKeysHold` | `Spec => []NoOrphans` |
| | `StorageImplementsStore` | `Spec => ImplementsStore` |
| | `ListsAreTrue` | `Spec => []ReadsSettled` |
| | `SamplesCountOnce` | `Spec => []TrafficKept` |
| | `TotalsInOrder` | `Spec => []TotalsOrdered` |
| `SingBoxBackendProofs` | `EverybodyIsConfigured` | `Spec => []ConfigAgrees` |
| | `NoChangeIsForgotten` | `Spec => []ChangesAreDue` |
| | `OneProcessServes` | `Spec => []PlannedOneProcess` |
| `HysteriaBackendProofs` | `TypeCorrect` | `Spec => []TypeOK` |
| | `NobodyElseIsLetIn` | `Spec => []NoStrangers` |
| | `EverybodyIsLetIn` | `Spec => []NobodyMissing` |
| | `RemovedUsersLeave` | `Spec => []SessionsAreUsers` |
| `NodeTrafficProofs` | `TypeCorrect` | `Spec => []TypeOK` |
| | `NothingRecordedTwice` | `Spec => []NeverAhead` |
| | `NothingIsLost` | `Spec => []NothingLost` |
| | `AnswersOnlyGrow` | `Spec => AnswersGrow` |
| `PanelProofs` (Inbounds) | `ListedInboundsTakeUsers` | `InboundsSpec => []TakesUsers` |
| | `FlowIsTold` | `InboundsSpec => []FlowAgrees` |
| | `SpellingDoesNotMatter` | `InboundsSpec => []SpellingsAlike` |
| | `ShortIdIsServed` | `InboundsSpec => []SidServed` |
| (UsersStats) | `NoByteIsToldTwice` | `StatsSpec => []NothingTwice` |
| | `BytesReachThePanel` | `StatsSpec => []NothingLost` |
| (LogStreams) | `LogValues` | `LogSpec => []LogTypeOK` |
| | `LinesInOrder` | `LogSpec => InOrder` |
| | `NoClientIsSkipped` | `LogSpec => NoneSkipped` |

`Sums` has what all sums over a set rest on. The community modules define a sum by a recursive function
over the subsets of the set, which takes the elements in the order of `CHOOSE`; such a function exists
for every finite set (`SumsExist`, by a least set for which it would not) and any two agree
(`SumsAgree`), so every such definition is `Total`, and any element may be taken first
(`TotalWithout`). What the other proofs cite follows from that: a sum of numbers is a number, where
one number changes the sum changes by as much, more to add up is no less.

**UserSync.** `Agreement` speaks of users nobody is working on and is not inductive: it says nothing of
the middle of an update. `IInv` does. For a user without a cause it says that at most one worker is
on it and none while xray starts (`SoleWorker`); that a sweep's snapshot still is what the storage
says (`StaleUser`); and, at each point of an update, which accounts xray has: the old ones not removed
yet and the new ones already added (`WorkedUser`), or, during a start, the due ones whose tag and entry
have been dealt with (`BootUser`). `BootOK` says what holds of the process whoever the users are: what is
claimed is registered, not the other way round, and it is what the file declares from the moment a start
claims it, and for as long as the watchdog would start from that file (`armed`). An update without a
cause therefore has claimed tags only (`WorkedUser`), which is why `_resolve_tag` does not refuse it.
Preservation is proved with one lemma per action or group of actions; a user that an action does
not touch keeps `UserInv` by a lemma of its own. A user that gets a cause drops out of the invariant,
and one that loses it does so where a start begins afresh, with no accounts and no worker.

`RepopulateReconciles` is about the end of an RPC and has an invariant of its own, for any number of
handlers. While the message is worked through (`Updating`), each of its users has been dealt with and is
`Written`, is the one in the handler's hands (`Doing`), or is still to come. While the others are removed
(`Sweeping`), each user of the message is written and each other one that is still there is on the list of
the sweep. All this is said of the users that no other handler worked on since the call began, and
`Counted` says that those it did are in `span.others`: a handler that takes up a user adds it to the span
of every call under way. It does not need `IInv`, and so no cause: a fault either ends the RPC or is
survived, and a restart only shrinks `span.kept`, the tags the written rows must have.

**XrayBackend.** `OneHolder` (one caller is between the acquisition of the lock and its release) is
inductive with the types: a caller enters only by `Acquire`, whose guard says that nobody is inside.
`PlannedOneProcess` needs `Planned`: with the watchdogs off they stay idle; the process being waited
for is the one the runner holds; and while the holder waits for a new process none is alive, which is
what `Spawn` needs to leave one process. A cancelled holder leaves either no process or the one of
the handle, so the next holder finds it.

`Coherent` compares the node's fields with the process that runs, and is silent while a start is under
way. `Whole` is not: as long as no start was cut short or overlapped (`torn`), a start is the only one
and nothing runs before its `Spawn` (`Alone`), what each of its steps has still to write agrees with
what the others have written (`OnTheWay`), and once the fields are written the process was given
what they say (`Settled`).

**XrayRules.** Lemmas on lists come first: what `Insert` returns, and that a rule inserted before every
other match decides (`RouteInserted`) while one that does not match, or comes after one that does,
changes no route (`RouteKept`). `RoutesAsDecided`, what the code makes of a connection, is proved first,
and `DecidedAsSaid` leads from it to `RoutesAsExpected`. It alone is not inductive, as it does not say where the
next rule goes. `Inv` does: the rule of the API has only rules of users before it (`Top`), so a user's
rule goes right before it and a policy's after it; the keys in the list are those of the file and of
the jobs applied (`HasRule`, `LeadsTo`), so a job gets a rule exactly when it is `Effective`; and the
connections some rule before `PolicyPlace` matches are those that something in `Decided` has claimed,
so a policy's rule takes only the others. `ServerInv` adds that an outbound that has a job's
server belongs to an owner some job of whom was applied.

**SqliteStorage.** `Effect` says of every statement, in one form, what it does: the objects of other
calls keep their values, orphans do not appear, and a call that goes on `Advances`: if the object had
the value an undisturbed call has reached at this statement (`Reached`), it has the one reached at the
next. From it, `Settling` is inductive: a settled object is committed and nobody is at work on it, and a
call that has been alone on its object is as far as its statement says. A statement is then a step of
Store that writes (`StoreWork`), returns or raises; a crash is `StoreCrash`, because what is settled is
committed.

The other three need what is between the statements. `CountOK` counts, per hour, the calls whose sample
is not in the bucket yet (`Coming`) and those whose sample is there and not committed (`Added`): the
commit of any call commits the others' statements with it, so a bucket on the disk may be ahead of
the calls that have answered, but not of those that were made. `ReadOK` says, at each statement of a
reader, that for the objects that were not touched since it began (`fixed`) what it has read is what is
stored, and that the sums it has are in order with those it has still to read.

**SingBoxBackend.** `ConfigAgrees` and `ChangesAreDue` speak of moments when no start is under way. `Agreement`
says at each await of a handler what the accounts should have of its user, `Meant`, what is stored or
about to be: they have nothing else, and lack only what some start, one of several perhaps, has still
to read (`Unread`). `FileReady` says that when no start is on the way to write it the file has what
`_config` has, or the update event is set. `PlannedOneProcess` needs `Planned`: a caller that is about
to spawn finds nobody serving.

**HysteriaBackend.** Each of the two properties of the dictionary holds under causes of its own, so the
invariant has two halves, `NoStranger` and `NotMissing`, each of which says at every await of a handler
which passwords of the user are in: the old one before the removal, none between removal and addition,
the new one after it. `JobOK` says what a handler's job can be, from the branches of `_update_user`: without
it a job could add a password whose row has none. `SessionsAreUsers` is inductive with
`ProcessOK`: only a process that is up has sessions, and a restart between stop and start has none.

**NodeTraffic.** `NeverAhead` is not inductive: it says nothing of bytes that are counted and not yet
recorded. `Account` adds to what is recorded for the hours up to each the difference the task has in its
hands (`Pending`) and the one the next sample would find (`Uncounted`): a sample moves bytes from the
second to the first, a record from the first to the bucket, and a byte that passes adds one to both
sides, of this hour and the later ones. `NothingLost` needs `Sighted`: an interface that lost nothing has
been in every sample since its first, and its counter has not gone back. `AnswersGrow` compares two
answers that may be many steps apart; `StillRecorded` carries the first one along: the buckets from the
start of its day, of its month and of all time still have what it said, as buckets are only added to,
and a restart that finds less takes the answer with it. What a restart finds (`disk`)
is never more than what is recorded.

**Inbounds.** The invariant ties what is listed to the file it comes from, and the account to both;
`FirstNonEmptyIs` says what `first_non_empty` returns, by the least index of a value that is not empty
(`LeastExists`, from the well-founded order of the naturals).

**UsersStats.** `StatsInv` adds up what was told, what calls hold and what processes have counted
(`Known`): no more than what passed, and equal to it for a user that no cause has touched. What makes
it inductive is `AnswersInHand`: a call has an answer only between `get_usages()` and the next backend,
so an answer is added once. `UsageIs` says what a backend makes of one: all of it where it adds up,
and at most that where the last name wins.

**LogStreams.** `InOrder` and `NoneSkipped` are about single steps and follow from `LogInv`, which says where
every line is. The lines in the buffer, and those a call has copied, are in order and have been round,
and the client has none of them yet (`Copies`); a call that has not registered is in no walk
(`NotYetThere`); no stream ahead of a walk has its line yet (`Clear`); and whoever a line is due to has
it, is being handed it, or is ahead (`Served`). Removals shift the list under both walks, and the list
has no stream twice (`Distinct`), so the one removed is the one meant.

**Model-checked only.** The liveness properties (`EveryCallEnds`, `Recovers` of three modules,
`ChangesArrive`, `FetchEnds`, `StopTold`), as fairness and ENABLED are out of the prover's reach.
`StartRepopulates`, `TagsAreClaimed`, `StartsOrDies`, `NarrowRulesFirst`, `OutboundsAreHeard` and the like of the findings are
violated. Every invariant and action property of a passing run is stated by a theorem above; `TypeOK`
of SingBoxBackend and `StatsTypeOK` of UsersStats are parts of the invariants proved.


## Findings

Where a comment, a test or a check of the code promises more than the code does. The first has a run
(`UserSyncAbort`). The next four, 12 and 14 have a property in their module and no run: put it as `INVARIANT` in the
cfg that is named, and TLC finds the counterexample. The others were met while modelling; the property
named excuses them, and is violated without the excuse.

1. **A start that meets a new user gives up** (`UserSyncAbort`, xray_backend.py:104). Between the tags
   being claimed and the end of `add_storage_users` a handler can add and store a user; the start then
   adds it again, xray answers that the email exists, and start() ends with the users it had not come
   to missing from xray. The watchdog does not try again: xray runs.
2. **A slow start loses the users** (`StartsOrDies`, `MCUserSyncLive.cfg`, _runner.py:69). The comment on
   the wait (64) says "either start or die". After four seconds the users are
   added to an API that does not listen; the errors are logged and swallowed.
3. **Two processes** (`OneProcess`, `MCXrayBackend.cfg`, xray/_runner.py:37). The check against a second process and the
   assignment of the handle are on two sides of an await, and the watchdog starts xray without the
   lock of RestartBackend.
4. **Another task's commit splits an update** (`CrashKeepsUsersWhole`, `MCSqliteStorage.cfg`,
   sqlite.py:242). The upsert, the
   delete and the insert of an update are three awaits; a commit of another task between them writes
   to the disk a user without inbounds, which is what a crash then leaves.
5. **The rule of the API passes for a broad route** (`NarrowRulesFirst`, `MCXrayRules.cfg`,
   xray/_config.py:287). It names an
   inbound and nothing else and is at the head of the list, so the rule of every user with an outbound
   goes to the head too, before a block of private addresses such as the one of `xray_config.json`. The
   test that expects the block first (`tests/test_xray_user_outbounds.py:133`) replaces the list of rules,
   and with it removes the rule of the API. A policy, too, goes before a narrow rule of the file when that
   names only keys `_policy_rule_index` does not know (307), such as a protocol.
6. **Hysteria and the storage part** (`NoStrangers`, `NobodyMissing`; memory.py:71, hysteria2_backend.py:31).
   With MemoryStorage every restart of hysteria takes its inbound from the stored users while their
   passwords stay good, so that a removal or a new key that comes next finds no inbound to remove. With
   sqlite a restart of the node leaves the rows and no passwords, and the panel's next SyncUsers
   adds nobody, as nothing has changed.
7. **A removal that was cut short is not repeated** (`SessionsAreUsers`, hysteria2_backend.py:105). The
   password is forgotten before the client is sent away; the retry finds no password and returns.
8. **A cancelled restart of hysteria** (`Recovers`, hysteria2_backend.py:86). Cancelled while the old
   site is cleaned up, it leaves a site that stop() cannot stop: every later restart raises. And stop()
   does not wait for the process it terminates (_runner.py:43), whose port the next one needs.
9. **A client that does not read stops the log** (`StopTold`, xray/_runner.py:108). send() waits for it, and
   with it the lines of every client and the event that tells the watchdog of a death. The receiver of
   a start that timed out does the same. A client that leaves can cost the next one a line (111).
10. **Usage that is lost** (`NothingLost` of UsersStats, service.py:218, singbox_backend.py:147,
    hysteria2_backend.py:137). An error of one backend loses what the others have just reset; so does
    a sing-box that answers late; hysteria's figures of a renamed user replace each other.
11. **Inbounds that are listed and take nobody** (`TakesUsers`, xray/_config.py:140). A protocol in upper
    case passes the check and is a KeyError for `accounts_map`; a flow of the environment that XTLSFlows
    does not know, and with plain keys one that is no UUID, raise in the middle of an update. h2 and h3
    are told as http, and their settings are read by nothing (`SpellingsAlike`, 222). Settings under another
    spelling than the network's (`websocket` with `wsSettings`), which xray takes, are told without path and
    host (170).
12. **The second outbound of a user** (`OutboundsAreHeard`, `MCXrayRules.cfg`, xray/_config.py:285) gets no rule,
    as the inbounds are no part of the key, though the docstring says that "each Outbound becomes" one
    (245). So does an outbound whose user and tag a rule of the operator names.
13. **Two starts of sing-box** (`ChangesArrive`, singbox_backend.py:116). The watchdog starts sing-box without the
    lock. When it meets a RestartBackend call in the middle of start(), it empties `_config`; the call
    writes what has been read again so far, and sing-box comes up without the other users; the watchdog's
    start then finds it running, raises, and the watchdog ends. The users are missing until one changes.
14. **Tags that nobody claims** (`TagsAreClaimed`, `MCUserSyncLive.cfg`, service.py:64). The service is to
    "Add/Update/Delete users based on calls from the client" (48). After a start that was cancelled between
    `register_inbounds` and `_inbound_tags` (xray_backend.py:129-135) the registry has tags that no backend
    claims and that no later stop() removes. The storage finds such a tag for an update, `_resolve_tag`
    finds nobody, and its `raise` ends the handler in the middle: the tags before it are done, no row is
    written, and a change of a key can leave the old credential on one tag and the new one on another.
15. **RepopulateUsers after a failed restart** (`RepopulateReconciles` says so by `span.kept`; xray_backend.py:126,
    service.py:126). A RestartBackend whose configuration cannot be used has taken the inbounds from the
    registry before it raises. A RepopulateUsers that comes next finds no inbound for any tag, stores the users
    it does not know without tags, takes the tags from the others, and answers that all is well. The panel
    has to send them again after the next good restart.
16. **An answer that is taken back** (`AnswersGrow`, sqlite.py:400). The sums are read on the connection that
    records samples, so an answer may count one whose commit has not happened; a node that ends then has
    less traffic of the hour than the panel was told of.


## What is not modelled

* Formats: JSON, protobuf, links, certificates, the hashes of keys. They decide no control flow here, but
  for what Inbounds has of them.
* FetchBackendConfig and GetBackendStats, which return a file and a flag; `flush_users`
  and the statistics of single users, inbounds and outbounds, which nothing calls; the migration of
  the sqlite schema.
* What sing-box's configuration does with policies (singbox/_config.py:157-204): appended outbounds and a
  rule before the first catch-all, as `PolicyPlace` of XrayRules.
* LogStreams has one process: that the streams of clients outlive it is in XrayBackend as `leaked`.
* In HysteriaBackend: ports and secrets (a request reaches the process of the last start), two handlers
  on one user. In NodeTraffic: rates, and received and sent bytes apart. In UsersStats: uplink and
  downlink apart.
* In XrayRules: the cases its assumptions exclude, and files that make XrayConfig raise (a `routing`
  without `rules`).
* In UserSync: statements inside a storage operation (SqliteStorage has them), two starts of xray at once
  (XrayBackend has them), several backends: a tag belongs to one backend, and the user is the same in
  each.
* In SingBoxBackend: log streams, a change of identity, two handlers on one user, the await between the
  read of a row and the change of the accounts (all in UserSync or XrayBackend).
* In XrayBackend: the users (UserSync has them) and a crash of the node, which main() recovers from by
  the same start. Two capture tasks on one process are one.
* Generated stubs, startup checks, certificates, free ports and the reading of the environment.


## Plan

The modules of the first plan are done; what each rests on:

1. `UserSync` – the handlers, the storage, xray's accounts. *Checked and proved.*
2. `XrayBackend` – starts, stops and watchdogs. *Checked; safety proved.*
3. `SqliteStorage` – the statements of each operation on the shared connection, against the abstract
   `Store`. *Checked and proved, the refinement too.*
4. `XrayRules` – the rules of users, policies and the API, against a definition that knows no order of
   insertion. *Checked and proved.*
5. `NodeTraffic` – samples, resets, changing interfaces, hourly buckets, with both storages. *Checked
   and proved.*
6. `SingBoxBackend` – users in the configuration, the reload task, watchdog and restarts. *Checked; safety
   proved.*
7. `HysteriaBackend` – the dictionary and its callback against either storage; restarts. *Checked;
   safety proved.*
8. `UsersStats`, `LogStreams` – what the panel is told of usage, and of the logs. *Checked; safety
   proved.*
9. `Inbounds` – what the panel is told of an inbound, and accounts. *Checked and proved.*

Left: the policies of sing-box as an instance beside XrayRules.

Later proofs: that UserSync's storage, one step per operation, is what `Store` promises (a refinement
between two modules); the bounds of the causes, such as that `torn` is set by the named events only.
