# Kinetic Atlas in TLA+

Kinetic Atlas is a daemon that lets a browser reach hosts under alternative
top-level domains (TLDs). An HTTP proxy takes a request, looks its TLD up in a
registry of networks, joins that network as a libp2p node, asks the network's
DHT for the zone of the name, and forwards the request to a peer or an IPFS
gateway named in the zone. This directory holds TLA+ modules for the daemon,
the TLC runs that check them on small instances, and TLAPS proofs of the
theorems that hold for every instance. Paths such as `proxy.rs:227` are
relative to `src/src/` in the project tree, `ARCHITECTURE.md` and `README.md`
of the repository to its root.

## 1. The system

| component | source | state | operations | status |
|---|---|---|---|---|
| Swarm manager | `swarm_manager.rs` | map TLD -> (sender, last_used) under a mutex; node tasks | `get_or_spawn_swarm`, garbage collector, shutdown | `SwarmManager`, abstractly `SwarmPool` |
| Network node | `network.rs` | command channel of 32, `pending_queries`, `pending_requests`, `pending_dials` | `new`'s bootstrap dials; `run`: three commands, the events of libp2p | `NetworkNode`, abstractly `NodeService` |
| DNS tree resolver | `dns_tree.rs` | stack, visited set, counters, addresses | `resolve_dns_tree` | `DnsTree` |
| TLD registry | `registry.rs` | map TLD -> configuration under an RwLock; files for kinetic-pac | `load_from_dir`, `get_config` | `RegistrySync` |
| Auto-updater | `updater.rs` | position in a round, backoff, the networks directory | list, download, verify, write, reload, sleep | `RegistrySync` |
| HTTP proxy | `proxy.rs` | one handler per request | `handle_proxy_request`, `extract_base_domain_and_subdomain` | `ProxyRequest`, `HostName` |
| Daemon | `main.rs` | start-up order, shutdown broadcast | `main` | `Atlas`; `SwarmManager` (end), `RegistrySync` (start) |
| Types, errors | `types.rs`, `error.rs` | none | serde, error mapping | constants of `ProxyRequest` |
| Uptime monitor | `.github/scripts/monitor_networks.py` | failure counts, ATLAS.md | a nightly job, dispatched jobs | `UptimeMonitor` |
| Registration | `.github/scripts/validate_registration.py` | open issue, networks directory | validation of an application | not modelled |
| Announcements | `.github/workflows/announce_network.yml` | none | posts a message | not modelled |

How they interact:

- A proxy handler takes a copy of a TLD's configuration from the registry
  (read lock), calls `get_or_spawn_swarm`, which gives it a clone of the sender
  of a node's channel, and sends commands with oneshot responders to the node.
- The manager starts the node's task; it keeps one sender in its map, the
  handlers keep clones. The task ends when no sender is left, or on shutdown.
  While it starts a node it walks the TLD's seed domain (`dns_tree.rs`).
- The updater writes files to the networks directory and reloads the registry
  under the write lock. It does not tell the swarm manager, whose nodes go on
  with the configuration they were started with.
- The uptime monitor shares only the repository with the daemon: it reads
  `networks/` and rewrites ATLAS.md and its own counts.
- `ARCHITECTURE.md` also describes a DNS server and a `sync_with_kinetic` loop;
  no code under `src/` does either, apart from the files `load_from_dir` drops
  for kinetic-pac.

What is hard, and what makes each component correct:

- **Swarm manager.** The mutex is let go between two looks at the map, the
  collector drops handles whose senders are in use, a node's task is never
  joined. Correct: one node per TLD in the map, no handler left with a dead
  node, unused nodes stop, calls end.
- **Node.** Answers depend on events of libp2p that come in any order, more
  than once, or for a handler that left; the loop may be dropped at an await.
  Correct: each responder is released exactly once, on every way an operation
  can end, and the maps drain.
- **Resolver.** The records are somebody else's: cycles, joins, lookups that
  fail, two limits. Correct: bounded cost, sound, complete short of a limit.
- **Registry and updater.** Remote files change during a round, transport
  fails or hangs, writes tear, the daemon crashes; a load that cannot read the
  directory, or some of it, has cleared the registry by then and tells nobody.
  Correct: only signed contents are written, registry and directory agree after
  a round that succeeds but for what could not be read, all ends well once the
  repository verifies, unless a request hangs.
- **Daemon.** The registry is replaced between any two steps of a handler that
  holds a copy of a configuration. Correct: whatever the order, a request gets a
  node of its TLD; old configurations and removed TLDs go once they are idle.
- **Uptime monitor.** Jobs overlap, merges come between checkout and push, a
  script that fails leaves nothing behind. Correct: Offline is earned by
  failures in a row, badges settle on the truth.
- **Proxy.** A target may execute a request after it was given up; failover;
  names. Correct: errors before the first send are harmless, a response is the
  current target's, no target is passed over, the right name is asked for.

`PROJECT.json` lists the hazards, each at its line with the properties aimed
at it, and the lines each definition stands for.

## 2. The modules

Every critical section of a mutex or RwLock here is without an await, so it is
one action; whatever an await separates is two. Each module is an
interleaving of such actions. In every module `Spec` is the initial
predicate, the steps and fairness. Operators marked "Mutant" are changed
versions of the definition that follows them; no specification uses them, they
serve to check that a property notices the change.

**SwarmManager** (`swarm_manager.rs`, and the end of `main.rs`). A request goes
`idle -> lookup -> (resolving) -> recheck -> using -> idle`: `LookupHit/Miss` is
the first critical section, `ResolveSeed` the walk without the lock,
`RecheckHit`, `Spawn` and `SpawnFails` the second. `tx[r]` is the sender clone
the request owns, `swarms[t]` the handle in the map; a channel is open while
someone owns a sender (`HasSender`), which is how `ChannelCloses` ends a task.
`Minute` and `CollectGarbage` are the collector's timer and sweep, `CtrlC`,
`HearShutdown` and `Exit` the shutdown. A node's identity is used again once
nothing refers to it, which bounds the state without limiting how many nodes
are ever started.

**SwarmPool** is what the manager promises: a pool with one atomic grant per
request. `SwarmManager` implements it under the mapping of its `INSTANCE`
(pool <- swarms, live <- running, want <- tld, hold <- tx, draining <- stage #
"up"), with no history variable.

**NetworkNode** (`run`). Handlers put calls into a bounded channel; the loop
takes one (`Recv...`) and starts an operation, and events of libp2p end it
(`RecordFound`, `QueryEnds`, `ProxyResponse`, `OutboundFailure`,
`ConnectionEstablished`, `OutgoingConnectionError`). libp2p is external: which
operations are under way is in `queries`, `requests`, `dialing` and `connected`.
`dial` refuses a peer that is connected or being dialled (the library's default
condition), while the bootstrap dials of `new` are by address and may run side by
side (`Bootstrapped`, the initial `dialing`); a dial is also refused when no
address of the peer is known, so `RefuseLookupPeer` is always possible. `End` is
what dropping the loop's future does. The two calls of one
handler are two elements of `Calls`.

**NodeService** is what a node promises the handlers: each call gets one answer at
most, a lookup the first record its query meets and None only if it has met
none, an error only from a node that stopped. `NetworkNode` implements it under
call <- `state` with "sending" and "waiting" taken together, met <- `found`,
stopped <- `~up`: channel, maps and libp2p are hidden.

**DnsTree** (`resolve_dns_tree`). What a name answers is chosen when it is looked
up, and remembered: a name is looked up once, so this is as general as fixing
every zone beforehand, and far smaller. Addresses are counted as the Vec of the
code counts them, one per record.

**RegistrySync** (`registry.rs`, `updater.rs`, start of `main.rs`). A round is
`List`, per file `Download` and a signature check, and `Reload` at its end. Which
failures skip a file and which end the round is as in the code: a 404 ends it,
a `send()` that fails skips the file. `Publish` changes the repository at any time
between any two of these steps; `Crash` and `WriteTorn` end the process.
`Load` is `load_from_dir` under the write lock, one step: all is read (`LoadAll`),
any part of it is, since `read_dir`, `read_to_string` or the write of a file for
kinetic-pac fails after `clear` (`LoadSome`), or the directory is not found and the
registry stays (`LoadNothing`). The caller goes on alike after each, as in the
code; `unread` keeps for the properties which files the last load missed.
The directory may hold anything at first, unsigned files put there by hand
too (`Earlier`).

**HostName** (`extract_base_domain_and_subdomain`): a host is the sequence of its
labels; `Parts` is what `trim_end_matches` and `split` leave.

**ProxyRequest** (`handle_proxy_request`) extends it: `pc` is the await the handler
stands at, `left`, `target` and `sent` are the loop over the target records.
`Execute(i)` is a target carrying out what it was sent, at any time, also after
its time is up and after the handler returned. The node's answer (`Some`, `None`,
dropped responder) is `PeerAnswers` or `PeerFails`, the outcomes `NetworkNode`
allows; the manager's is `GetSwarm` or `NoSwarm`. Handlers share nothing else,
so one is modelled.

**Atlas** (`main.rs`) extends `SwarmManager` with the registry, the copy each handler
took of a configuration (`config`) and the configuration each node was started
with (`bound`). `Admit` is `get_config` and the beginning of a request, `SpawnBound`
hands the copy to the node, `Reload` is the updater's write lock: any registry
that `load_from_dir` can make of a directory, at any time, in place of the round
that `RegistrySync` takes step by step. Every step of `AtlasNext` is one of the
manager's `Next` or leaves it alone.

**UptimeMonitor** (`monitor_networks.py`, `daily_monitor.yml`). `main` is the tree of
the main branch, `copy[j]` a job's checkout, `fresh` the jobs since whose checkout
main has not moved: git takes the push of those only. A job is `Checkout`, then
`RunScript` or `ScriptFails`, then `Push` or `PushRejected`. `Merge` moves main in
between. The pings of a job are one step, since what it does with a network
depends on no other network's ping. A count is kept at the limit once it is
there, and `streak` says for the properties what was published.

## 3. The runs

| run | instance | shows |
|---|---|---|
| `SwarmManager` | 2 requests, 2 TLDs (1 seeded), 3 nodes, timeout 0 | `TypeOK`, `LiveSenders`, `NeverReplaced`, `PoolSpec` (refinement), `AcquireEnds`, `UnreachableStops`, `IdleReclaimed` |
| `NetworkNode` | 2 commands of any kind, 2 peers, channel of 1, up to 2 bootstrap dials | `TypeOK`, `WaiterTracked`, `NeverDropped`, `OwnDial`, `NoneMeansMissing`, `Answered`, `PendingDrains`, `ServiceSpec` (refinement) |
| `DnsTree` | 4 names with up to 2 branches, 3 addresses, 3 lookups, 2 addresses | `TypeOK`, `LookupsBounded`, `OneBranchOver`, `Sound`, `Complete`, `Terminates` |
| `DnsTree_doc` | 2 names | `FlatIsFallback` fails (finding) |
| `RegistrySync` | 2 files, 3 configurations of 2 TLDs, an unsigned one or none in each file at first, 2 publishes, 2 troubles | `TypeOK`, `OnlySigned`, `SyncedAfterSuccess`, `Converges` |
| `RegistrySync_reload` | the same, no trouble | `UpdatesLoaded` fails (finding) |
| `ProxyRequest` | all hosts of up to 4 of 4 labels, all zones of up to 3 records | `TypeOK`, `ErrorsHaveNoEffect`, `ResponseIsOfTarget`, `AllTried`, `AsksForTheName`, `EndsOrHangs` |
| `ProxyRequest_split` | the same | `AnyNameSplits` fails (finding) |
| `Atlas` | 2 requests, 2 TLDs with 2 and 1 configurations, 2 nodes, timeout 0 | `AtlasTypeOK`, `NodeOfItsTld`, `StaysFresh`, `FreshAfterIdle`, `RemovedReclaimed` |
| `Atlas_reload` | 1 request, timeout 1 | `ReloadTakesEffect` fails (finding) |
| `UptimeMonitor` | 2 TLDs, 2 jobs that overlap, 3 merges, limit 2 | `TypeOK`, `OfflineEarned`, `OfflineLifted`, `BadgeSettles` |
| `UptimeMonitor_week` | 1 TLD, 1 job, 1 merge, limit 7 | `SevenDayRule` fails (finding) |

Why the bounds are enough. Two requests race for a map entry, or one holds the
sender of a node that the collector dropped while the other starts its
successor; three nodes are one per TLD in the map and one that only a request
holds. In `Atlas` two nodes do: an old one in somebody's hands and a new one.
With a timeout of 0 or 1 the collector drops a handle one or two minutes after
its last use; nothing but the comparison depends on the length. What depends on
more requests is proved for any number of them. A channel of one is full with
one command in it, so a second handler waits in `send`; calls meet in the channel
and under a key of `pending_dials`, two at a time, and two peers tell the dial of
one from that of another. Two bootstrap dials are two of one peer or one of
each. Four names give a cycle with a way in and out, and a join; limits of three
lookups and two addresses are met and also not met. Two files are enough for one
to be written before the other fails the round; two publishes put a change
between a file and its signature and repair it afterwards; two troubles are a
torn write and a load that cannot read the other file, or a failed load and a
crash. What a file holds at first matters only if no round could have written
it, hence one unsigned configuration. Three records give a
target that failed, the current one and one that is left. Four labels give a
subdomain of two, and a name that repeats its TLD. Two configurations of a TLD
are an old and a new one; the other TLD's must never be taken for either. Three
merges repair the table's separator and register two networks, or register one
and remove it; with a limit of two a failure is counted before the one that
decides. No run uses symmetry, since each checks liveness.

The caps are `MaxPublishes`, `MaxTroubles` and `Earlier` (`RegistrySync`), `MaxEdits`
(`UptimeMonitor`), `IdleTimeout + 1` in `Minute`, past which the clock makes no
difference, and `FailureLimit` in `Count`, past which a count makes none.

Fairness is what the code's scheduling gives:

- Tokio's mutex is first come, first served, so weak fairness of the step behind
  the lock is enough; the runtime polls every task that is ready; time passes.
- `select!` polls its branches in random order, so neither commands nor events
  starve; each operation of libp2p has its own timeout (5 s for a query, 15 s
  for a request). A DNS lookup ends by the resolver's timeout.
- No client has to send, to stay, or to deliver its body; an IPFS gateway need
  not answer, since the HTTP client is built without a timeout. `EndsOrHangs`
  therefore says that these two are the only awaits that can last.
- The daemon is restarted after a crash, by whoever runs it (`Start`).
- The updater's HTTP client is built without a timeout too (`updater.rs:31`): its
  requests for the listing, a file or a signature need not end, and only `Start`,
  `Wake` and `Reload`, which await none, are fair. `Converges` therefore holds up to
  `Hangs`, an updater that waits for a request for ever; one whose requests all
  end, well or not, must converge.
- `Atlas` assumes what `SwarmManager` does and nothing of the updater.
- Midnight comes every day; a job that has started ends. Nobody dispatches one,
  merges or brings a network back unless he wants to. As merges are bounded, the
  nightly job's push is not rejected for ever.

Deadlock is not checked in `NetworkNode`, `DnsTree*` and `ProxyRequest*`, which
model something that ends; the other runs check it.

## 4. What the runs found

- `DnsTree_doc`: `dns_tree.rs:10` calls the flat addresses of a domain a fallback
  for when no root is found; the code returns them together with the tree's.
- `RegistrySync_reload`: `ARCHITECTURE.md:105` promises that an update is
  hot-reloaded without a restart. A file without signature (404) makes every
  round end with an error after other files were written, and only a round that
  succeeds reloads: what is on disk may never be served until a restart, while
  the updater goes on with round after round (`UpdatesLoaded` excepts `Hangs`).
- `ProxyRequest_split`: the proptest at `proxy.rs:409` asserts in line 416 that the
  base domain of a host with a subdomain is the name before the TLD, for any
  name and TLD. `trim_end_matches` cuts a repeated TLD off as a whole, so the zone
  of `com.kin.kin` is asked for under `com.kin`. `AsksForTheName` says that such names
  are the only exception.
- `Atlas_reload`: the same line 105 promises that an update of a configuration
  takes effect without a restart. The registry is reloaded, but a node is found
  by its TLD alone (`swarm_manager.rs:65`): while it is asked for more often than
  every ten minutes, the node of the old network id and bootstrap nodes serves
  for ever, and the records it finds are verified with the new network id.
  `FreshAfterIdle` says that falling idle is all it takes.
- `UptimeMonitor_week`: README.md:62 marks a network Offline after seven days of
  failed pings. The committed ATLAS.md has a separator of eight columns, the
  script looks for a line that is exactly `| :---` (`monitor_networks.py:163`): every
  job fails before it commits, and no badge ever changes. `BadgeSettles` says that
  the rule works once that line is there.

Four behaviours are modelled without a claim about them, since nothing in the
repository states what should happen: a `LookupPeer` of a connected peer is
answered `None`, and nothing under `src/` sends one; the files dropped for
kinetic-pac are never removed; `ProxyTargetFailed` is reported as retryable
(`error.rs:82`) although a target may have carried the request out; and the
failures of a TLD stay with its name when it is removed and registered again,
while jobs that are dispatched count like days.

## 5. The proofs

The modules `*Proofs` hold theorems for every value of the constants, under the
assumptions named in the modules: that special values are not members of the
sets they stand beside, that numbers are natural numbers (the channel's capacity
positive), that the addresses of `DnsTree` are finitely many, that the
configuration's `Tld` is a function, that `Atlas` has a set of configurations per
TLD, and that one of the jobs is the scheduled one. No bound of a run is an assumption.

| theorem | statement | argument |
|---|---|---|
| `SwarmManagerProofs!SendersLead` | `[]LiveSenders` | inductive with `TypeOK`: a task ends only without senders or after Ctrl-C, a node starts in the step that hands its senders out |
| `SwarmManagerProofs!HandlesStay` | `NeverReplaced` | from `TypeOK`: only `Spawn` writes a handle, after the second look |
| `SwarmManagerProofs!ImplementsPool` | `PoolSpec` | step simulation, each action maps to one of `SwarmPool` or a stutter |
| `NetworkNodeProofs!NobodyForgotten` | `[]WaiterTracked` | inductive with `TypeOK`, one lemma each for commands, events, handlers and the end |
| `NetworkNodeProofs!OwnDials`, `NothingDropped` | `[]OwnDial`, `[]NeverDropped` | inductive together (`NoDrop`): a responder waits for a peer only while exactly one dial of it is under way, so that `insert` replaces nothing |
| `NetworkNodeProofs!NoneIsMissing` | `[]NoneMeansMissing` | the life of a query, below |
| `NetworkNodeProofs!ImplementsService` | `ServiceSpec` | step simulation from the same invariants; what happens to a responder of a handler that left is a stutter |
| `DnsTreeProofs!CostBounded`, `OvershootBounded` | `[]LookupsBounded`, `[]OneBranchOver` | cardinality of `visited`; the last branch answered is the witness |
| `DnsTreeProofs!WalkSound`, `WalkComplete` | `[]Sound`, `[]Complete` | the invariant `Walk`, below |
| `RegistrySyncProofs!NothingForged` | `OnlySigned` | needs `Fetching` (a file has been downloaded when its signature is awaited); only a load serves, and it serves what is in the directory |
| `RegistrySyncProofs!StaysClean` | `Clean /\ Spec => []Clean`: a directory nobody wrote to by hand, and the registry, never hold what was not signed | the steps of `NothingForged`, from a clean state |
| `RegistrySyncProofs!SuccessSyncs` | `[]SyncedAfterSuccess` | every load leaves registry and directory in step but for `unread`; a failed round's sleep of 24 h has a backoff that is not 1 |
| `HostNameProofs!SplitsUnlessRepeated` | the extraction splits as the tests expect unless name = TLD, for hosts of any length | the length `Keeps` chooses exists (least element) and is unique |
| `ProxyRequestProofs!EarlyErrorsHarmless`, `ResponseOfTarget`, `FailoverComplete`, `RightName` | `ErrorsHaveNoEffect`, `ResponseIsOfTarget`, `AllTried`, `AsksForTheName` | the invariant `Inv`, below |
| `AtlasProofs!IsSwarmManager` | `AtlasSpec => Spec` | each step of the daemon is a step or a stutter of the manager, the fairness is the same formula: the theorems of `SwarmManagerProofs` hold of the daemon |
| `AtlasProofs!NodesFit` | `[]NodeOfItsTld` | the invariant `AtlasInv`: the handles of the map, too, lead to nodes of their TLD, and a new node takes no identity somebody can reach |
| `AtlasProofs!FreshStays` | `StaysFresh` | from `AtlasInv`: a node that enters the map was started with a copy that some call holds, and `Fresh` speaks of all copies |
| `UptimeMonitorProofs!OfflineIsEarned` | `[]OfflineEarned` | the invariant `MonitorInv`: main's counts are the published failures in a row, and a tree that was written out of the main branch as it still is counts each ping once |
| `UptimeMonitorProofs!OfflineIsLifted` | `OfflineLifted` | `MonitorInv` again, for the table: only a push moves a badge without a merge, and what is pushed was made from the main branch as it still is |
| `RegistrySyncProofs!ServesOwn` | `[]Fits`: a TLD is served a configuration of its own that the lists let through, whatever could not be read | a load serves a candidate, what was served before, or nothing; no other step serves. It is what `Atlas` takes its registries to be (`Registries`, with `ConfigsOf[t]` = `ConfigsFor(t)`) |

Each of the seven state machines has its `TypeCorrect` as well; in `NetworkNode` it
includes the channel's bound, in `SwarmManager` that a request owns a sender
exactly while it uses one, which the refinement rests on.

*The life of a query* (`NetworkNode`). `NoneMeansMissing` is not inductive: that a
query has met a record says nothing of the responder unless it is known that
`pending_queries` no longer has it. `QueueLife` says that a call in the channel
is there once and that no map and no operation has it yet; `QueryLife` that a
responder in the map belongs to a query that has met nothing, and that a query
under way has its responder there or has met a record; `Kinds` that each map
holds calls of its own kind only.

*`Walk`* (`DnsTree`). `Sound` and `Complete` speak of `Reachable`, the smallest set
that is closed under what names list. The walk stays inside every closed set
(`Inside`), so it asks for reachable names only; and `visited` with the stack is
itself closed as far as is known (`Frontier`), so when the stack is empty
`visited` is closed and contains `Reachable`. `Unasked` is needed since an answer
is chosen when a name is asked for: nothing was listed under it before.

*`Inv`* (`ProxyRequest`). `TypeOK` alone is not inductive, because `GetZone` sets
`records` and would leave `target` and `sent` pointing outside it: `Stage` says
that both are empty until the loop. `InOrder` says that what was sent is at or
before the current target and what is left behind it, which makes a response
the latest target's.

*The safety that liveness rests on.* Liveness itself is beyond the prover, but each of
the liveness properties the runs check is a fairness argument over a step that
never loses what was gained. That part is an invariant or an action property,
stated in the proof modules (the run properties `OwnDial`, `StaysFresh` and
`OfflineLifted` excepted) and proved for every instance:

| liveness (TLC) | theorem | statement |
|---|---|---|
| `AcquireEnds` | `SwarmManagerProofs!CallsGoOn` | a call never returns to an earlier step: three of its own end it |
| `UnreachableStops` | `SwarmManagerProofs!UnreachableForGood` | a node without senders gets none again, so its channel stays closed until the task ends |
| `IdleReclaimed` | `SwarmManagerProofs!ClocksRunOn` | only a call for the same TLD that is handed the node sets its clock back |
| (both, and `NodeOfItsTld`) | `SwarmManagerProofs!NodesApart` | nobody holds a node for another TLD than its other holders do, so use of one TLD keeps no other's node |
| `Answered` | `NetworkNodeProofs!NobodyForgotten` | a waiting handler's command is in the channel or with a live operation |
| `PendingDrains` | `NetworkNodeProofs!EntriesAreLive` | every entry of a map, its handler gone or not, has a live operation whose end removes it |
| `Terminates` | `DnsTreeProofs!WalkDescends` | every step of the walk lowers (lookups left, stack) in a lexicographic order proved well-founded |
| `Converges` | `RegistrySyncProofs!RoundsEnd`, `GoesOnServing` | a round takes at most two steps a file and two more, so that only a request can hold it up; a daemon that serves the whole repository goes on doing so until the repository changes or something fails |
| `EndsOrHangs` | `ProxyRequestProofs!HandlerDescends` | every step of a handler lowers (awaits before the loop, targets left) in the same kind of order |
| `FreshAfterIdle`, `RemovedReclaimed` | `AtlasProofs!FreshStays` | no older configuration comes back |
| `BadgeSettles` | `UptimeMonitorProofs!OfflineIsLifted`, `OfflineIsEarned` | what sets and what lifts a badge |

`RoundsEnd` assumes that the repository's files are finitely many, which any listing
is; the two descents assume nothing, since a zone and an answer are sequences.
`GoesOnServing` is about a state that is stronger than `Converges`' (`Settled`): a
file that verifies must be on disk even if it does not parse. Without that it is
false: the updater may write such a file over the one whose configuration is
still served, until the reload at the end of the round.

Only checked with TLC: everything under fairness (`AcquireEnds`,
`UnreachableStops`, `IdleReclaimed`, `Answered`, `PendingDrains`, `Terminates`,
`Converges`, `EndsOrHangs`, `FreshAfterIdle`, `RemovedReclaimed`, `BadgeSettles`), since
liveness and ENABLED are beyond the prover. Induction over data is beyond it too;
no module declares a recursive operator, and `HostName` is written with a
choice of a length instead, which can be proved about.

## 6. Not modelled

- Bytes: the syntax of TXT records, JSON, cryptography (a signature is the
  content it verifies), HTTP headers and paths, log messages.
- The configuration of libp2p in `KineticAtlasNode::new`: protocols, timeouts and
  keys. Its dials are the initial state of `NetworkNode`, its errors `SpawnFails`.
- The definitions of `types.rs` and the mapping of errors to responses in
  `error.rs`: data without state; `ProxyRequest` has the records and errors as sets.
- The creation of a default `atlas.json` (`main.rs`), and the early returns of
  `start_auto_updater`, after which no updater runs.
- The number of senders waiting for the channel's slot, and which of them is
  first: any may be served.
- **Registration pipeline.** `validate_registration.py:141` requires `version`, and no
  branch of `parse_issue_body` fills it (the form's "Protocol Version" matches
  none), so that every application exits with status 1 before the first write.
  The uniqueness of `ARCHITECTURE.md:62`, which is checked behind it, is never
  reached: there is no step to model. What maintainers merge by hand is
  `EditNetwork` of `UptimeMonitor`.
- **Announcements.** A workflow that posts one message: no state.
- In `UptimeMonitor`: a state file that does not parse (only the script writes
  it), and a `networks/` directory without a `.json` file.
- One instance of everything at once. `Atlas` takes a reload as one step and a
  node's answers as `Finish`; the steps of a round are `RegistrySync`'s, those of a
  node `NetworkNode`'s, those of a handler `ProxyRequest`'s. The interfaces are
  `Registries` for the first (`ServesOwn`), `NodeService` for the second
  (`ServiceSpec`), and the manager's `GetSwarm`/`NoSwarm` for the third.
