# Kubebay: TLA+ models, checks and proofs

Kubebay is a Kubernetes desktop and web client: a Go engine (`src/engine`)
that watches clusters and acts on them, a React page (`src/web/apps/shell`)
that shows them over one WebSocket, and a Tauri shell (`src/desktop`) that
starts and updates the engine. This directory models the parts of it where
goroutines, requests, messages and disk writes meet, and the page's own
analyses of what it is shown (network policies, roles, right-sizing, node
drains), checks them with TLC, and proves theorems with TLAPS about the stream's
pipeline, the proposals, the port-forwards, the updater and the node drains.

Run everything from this directory:

    tlc -workers 2 -config MCCoalescer.cfg MCCoalescer     # any MC*.cfg
    tlapm CoalescerProofs.tla                              # or another *Proofs.tla

`PROJECT.json` lists the components, the runs and their properties, for every
property a plausible bug that it catches, the source lines of every definition
and the hazards.

## The system

| Part | Source (engine/internal unless said) | State | Operations | Meets |
|---|---|---|---|---|
| Delta coalescer | stream/coalescer.go | pending ops and index, kick, timer, `out`, closed | Push, Run, flush, Close | informers' fan-out pushes, the hub reads |
| Watch stream | informers/pool.go, stream/hub.go, stream/snapshot.go, web useResourceStream.ts | informer cache, fan-out channel, per-subscription snapshot merge, client rows | emit, drain, offer, refuse, merge; hub's select; begin/items/sync/delta/denied on the client | coalescer, pool, socket |
| Informer pool | informers/pool.go | entries by key, their subscribers, stop channels, closed | Subscribe, end, sweep, forbid, Close | informer error handlers, registry |
| Pool registry | informers/pool_registry.go | pools by cluster and identity | For, Close, Retire | manager's hooks, streams |
| Cluster manager | clusters/manager.go, httpapi/cluster_connect.go, server.go | entries, connected set, probe results, watched files | Load, Connect, Disconnect, probe, health loop | kubeconfig files, registry, port-forwards |
| Browser client | web lib/ws.ts, useResourceStream.ts, streamCache.ts, clusterConnections.ts, useRemoteDisconnects.ts | socket, subscriptions, row cache, background streams | connect, replay, resync, disconnect elsewhere | hub, other windows |
| Channels | web usePodLogs.ts, useChannelTerm.ts, ExecTerm, LocalShellTerm; stream/hub.go, stdinqueue.go | views, queued frames, channel table, runners, stdin queues | open, fall back, type, close, lose the socket | read loop, exec, local shell |
| MCP proposals | mcp/proposals, httpapi/mcp.go | proposals and their status, the switch, audit | Propose, Approve, Reject, RejectAll, expiry | assistants, people, API server |
| Network policies | web lib/netpolEval.ts, netpolMatrix.ts, netpolBuilder.ts, labelSelector.ts, NetpolEditor.tsx | the form, its dry run, requests | evaluate, preview, dry-run, create | streams of two clusters, other tools |
| Right-sizing | web lib/rightsizing.ts, pages/RightSizing.tsx | rows, ticks, previews | seed, tick, preview, apply | VPA, waste sampler, API server |
| Consolidation | web lib/consolidation.ts, spof.ts | a simulated cluster | judge, place, drain | streams |
| RBAC page | web pages/Rbac.tsx, attackPaths.ts, the detectors, findingsReport.ts; httpapi/rbacadvisor.go | rows by stream, answered queries, dialog | detect, who can, save a report | some twenty streams |
| History | history/store.go, health.go | open hour, day and health files, checkpoint, writer lock | Record, read, Erase, Close | ticks, crashes, a second engine |
| MCP server and token | mcp/server.go, bridge, kubetools, httpapi/mcp.go | settings, token | tools; save, rotate | bridge process, pools |
| Port-forwards | httpapi/portforward.go, activity.go | table of forwards, their stop channels, writes in flight | Start, Stop, StopCluster, report | manager's hooks |
| Updater | desktop updater.rs, main.rs | status, pending update | check, install, restart | the engine's activity report |
| Local shell | localshell | instance directories and locks | NewManager, sweep | other engines |
| Everything else | yaml, helm, metrics, audit feed, triage, signatures, discovery, auth, other pages | little or none | one request, one answer | API server, OS |

What is hard here: locks are held for one map operation at a time, and almost
every operation is several of them with a channel, a network call, a disk
write or a goroutine start in between; and the page works on whatever part of
its streams has arrived. `PROJECT.json` "hazards" lists where that bites, line
by line, with the properties that would notice, or why none does yet.

## Modules

| Module | Models | Run |
|---|---|---|
| `Replica` | abstract: what a stream promises the client | (property of Coalescer) |
| `Coalescer` | the coalescer, its pushers, its reader and its closer | `MCCoalescer` |
| `CoalescerProofs` | theorems about Coalescer and PolicyBuilder | TLAPS |
| `InformerPool` | lifecycle of entries and subscriptions of a pool | `MCInformerPool` |
| `InformerPoolProofs` | theorems about InformerPool and HistoryStore | TLAPS |
| `WatchStream` | one subscription from the informers' caches to the client's rows | `MCWatchStream` |
| `WatchStreamProofs` | theorems about WatchStream | TLAPS |
| `Connections` | the manager's table, the pool registry and their users | `MCConnections` |
| `ConnectionsProofs` | theorems about Connections and Channels | TLAPS |
| `WsClient` | the page's subscriptions over one socket, and the hub's table of them | `MCWsClient` |
| `WsClientProofs` | theorems about WsClient | TLAPS |
| `Channels` | logs and terminals, from the view to the runner | `MCChannels` |
| `Proposals` | the proposal store, its HTTP handlers, the patched object | `MCProposals` |
| `ProposalsProofs` | theorems about Proposals and RbacPage | TLAPS |
| `HistoryStore` | the history on disk, engines that are killed, failed writes | `MCHistoryStore` |
| `PortForwards` | the table of forwards, requests and forwarders | in `MCUpdater` |
| `Updater` | a server's engine, or the app's with its updater | `MCUpdater` |
| `PortForwardsProofs` | theorems about PortForwards and Updater | TLAPS |
| `LabelSelectors`, `NetworkPolicies` | pure: selectors; policies, matrix, drafts, preview | in `MCPolicyBuilder`, `MCCapacity`, `MCRbacPage` |
| `PolicyBuilder` | the policy form over two clusters | `MCPolicyBuilder` |
| `RightSizing` | rows, ticks, dry runs and applies | `MCCapacity` |
| `Consolidation` | node verdicts and the greedy drain | `MCCapacity` |
| `CapacityProofs` | theorems about Consolidation and RightSizing | TLAPS |
| `Rbac`, `Exposure`, `Detectors` | pure: roles, attack paths, the other detectors | in `MCRbacPage` |
| `RbacPage` | what the page has and saves while streams arrive | `MCRbacPage` |

From `Coalescer` to `Channels` the modules are pieces of one pipeline. `Connections` says which pool a
subscription is given and when that pool is closed, a step there whose inside
is `InformerPool`; `InformerPool` says which entries a subscription is in and
when it is told that they are gone; `WatchStream` says what flows through
entries that are there, taking the coalescer as the in-order queue of batches
that `Coalescer` is shown to be; `WsClient` takes the stream as in-order and
says which of them exist; `Channels` shares its socket with them. The pages
read what these deliver: `PolicyBuilder`, `RightSizing`, `Consolidation` and
`RbacPage` take a stream's rows to appear once it has synced. `Updater` extends
`PortForwards`: an install counts what the port-forward requests are doing.
`Proposals` and `HistoryStore` stand apart. `MC*` modules add only symmetry sets
and the values of constants, but for `MCCapacity`, which has one of two pages
open in each behaviour.

### Coalescer

Each locked section, channel operation and select branch is an action.
`pending`, `index`, `closed`, `out` and the kick channel are the struct's
fields; `run` is where the `Run` goroutine is (`select`, in `flush`, sending
the batch `held`, in the last flush after Close, closing `out`, done); `armed`
is the 16 ms timer, set or fired. `Push` is three actions, since the closed
check (coalescer.go:30-35) and the kick (47-55) are outside the lock.
`listening` and `view` are the hub's goroutine and the rows the page has;
`fed` is a history variable, the rows the pushed ops amount to in lock order,
and each batch carries the rows (`at`) it leads to.

Checked: no wakeup is lost (`NoLostWakeup`), nothing is lost while open
(`NothingLost`), the rows follow the source in order (`ReplicaSpec`, the
refinement); and under fairness Run ends after every Close and the page catches
up (`Progresses`). That the key index is exactly that of the batch
(`IndexExact`) is proved.

### WatchStream

`live` is what the informers' caches have; `entry` an entry's sync, failure,
events on their way to the handler and `fanout` channel; `sub` the
subscription's merge state (`answered` = got, `captured` the rows taken at the
answer, `snapshot` the namespaces merged), the denials and the coalescer's
queue; `hub` where the stream goroutine is between begin, items and sync;
`client` the store, the resync buffer and the flags of useResourceStream. An
object is a version number, a deletion is a version too. A frame is handled
as it is sent: one goroutine sends and the socket keeps order. What a
reconnect loses is what was not sent before it.

Checked: a merged snapshot has every namespace that was not refused, whoever
answers last (`OneWholeSnapshot`), and a row is stale only if its newest event
was dropped at a full fan-out channel (`missed`) or was sent before the
snapshot that lacks it (`early`), for every order of sync, join, capture,
refusal and reconnect (`StaleOnlyWhereKnown`); the subscriber settles on the
truth but for these two losses (`SettlesOnTruth`).

### InformerPool

An entry is a number; `entries` is the pool's map, `entry` every entry ever
made, since goroutines keep using one that has left the map. A subscription
has a program counter through Subscribe's loop: `fetch` (entryFor, under the
pool's lock), `append` (to sub.subs), `join` (under the entry's lock), and
`open` once its goroutine waits for the context; and another through `end`,
which leaves the entries one by one. `handler` is the error handler of each
informer in forbid, `closer` is CloseWithReason. `recent` stands for
lastEmptyAt within the TTL. `late` is history: entries joined after they left.
ForbidStop does not wait until the ends that forbid began are over: it allows
more orders than the code.

Checked: an entry's stop channel is closed once, by whoever took it out
(`StoppedOnce`: twice would panic, never would leak the watch); a subscription
in an entry that left is told, unless it joined afterwards (`NeverSilent`);
entries nobody lives in are stopped and a subscription whose client is gone ends,
whoever else is ending it (`WindsDown`).

### Connections

`file` is what the kubeconfigs say of each cluster: a config, a context that
cannot be built (`Broken`), or none (`Gone`); `entries` is the manager's table.
Load is four steps, as its locks are: the list and the files are read (`listed`),
`m.entries` is read to compare with, the table is replaced under the lock, and,
after the hooks, the files of that list become those whose events count
(`watched`). Each hook takes the cluster's pool out of the registry under the
registry's lock and closes it outside (`thread[t]`: `close`, `retire`,
`closing`). Loads are run by the watcher, which hears of a change (`event`) only
between its own reloads and only of a watched file, and by a request that saves
the settings, at once if it happens so; a third thread is the disconnect request.

A user of pools connects (a stream of the page; an MCP read does not), gets the
pool (`for`, and `make` while it holds the registry's lock between reading the
config and putting the pool), fetches its entry under the pool's lock (`got`) and
joins it under the entry's (`join`, `open`); a stream told that the credentials
changed (`told`) asks again. Closing a pool is as many steps: it is marked closed
(`CloseMarks`), and then each subscriber that has joined by the time its entry is
looked at is ended (`CloseVisits`, `todo`). Numbers of pools nobody has any more
are used again.

Checked: an open stream's pool can be reached by a disconnect, or is being closed
by somebody who has yet to look at its entry, and the registry holds no closed
pool (`StreamsReachable`); the pool a cluster's streams get is built from its
current config or about to be retired (`CurrentOrRetiring`): this rests on ForUser
holding its lock over the read of the config, and on the hooks running after the
table is replaced; streams on old credentials end and the table comes to say what
the files say (`Converges`).

They hold but for what the history variables record. `late`: a stream that fetched
its entry before the pool was marked and joined after Close had looked at it; it
stays open on a pool nobody has, which no disconnect and no rotation reaches.
`skipped`: a pool whose cluster left the kubeconfig while not connected, or that
was there while a Load replaced another table than it had compared with. `outrun`:
the table is from a Load that another, which had read the files later, finished
before. `missed`: the files changed after the last reading and the watcher was not
told, because the file was not, or not yet, watched. Each exception is an
expectation listed below.

Left out: cluster ids, statuses and probes, pools of impersonated users. The
port-forwards that the same hook stops are in `PortForwards`.

### WsClient

A handler of the page, with all it calls, is one action, as JavaScript runs
one at a time. `subs` is the client's registry in insertion order, `toEngine`
the frames the socket has taken and the hub has not read, `engine` the hub's
table for this socket. A `useResourceStream` is its refs (`hook`) and what its
last render showed (`shown`); between them lies the 16 ms flush timer
(`flush`), which runs as an action of its own. `bg` are the background streams
of connected clusters and `cache` the rows a remounted page starts from. The
cluster's rows are one row with a version.

Checked: once the wire is empty, what the client wants and what the engine
streams are the same (`SubsAgree`), whatever was subscribed and dropped while
the socket was down; a page that says it is synced and connected got its rows
on this socket (`LiveIsThisSocket`); and pages settle on their cluster's rows
(`Settles`).

### Channels

`view[v]` is a log view, an exec terminal with its ladder of shells, or a
local shell; `queue` the frames kept while the socket is down, `run[i]` the
goroutine of a channel, `table` the hub's ids, `loop[s]` where the read loop
of a socket is: reading, between starting a runner and putting it into the
table (`insert`), acknowledging, or inside a write to an exec session
(`pipe`), which is a synchronous pipe, whereas a local shell has a queue.
`owner` is history.

Checked: nothing runs for nobody (`NoOrphan`): unmounts, fallbacks, lost
sockets and a full queue included; a local shell that shows itself live has a
process on the open socket (`LiveIsRunning`); a stopped local shell holds up no other stream, and what
a lost socket ran ends (`NobodyWaits`).

### Proposals

A proposal is named by its request. `prop[r].st` runs through the steps of
Propose (count, read, dry run, insert), each a separate step as in the code
(lock, API call, API call, lock), then through the statuses of proposals.go.
`handler` are HTTP requests: approving, rejecting or saving the switch; Approve
goes through get, patch, backoff and finish. `object` is the patched object,
a value for each field; resourceVersions are only compared, so a handler keeps
whether the object was written since it read it (`fresh`). Edits and status
writes by others happen at any time. A patch call may be applied and its
answer lost.

Checked: nobody is told an untruth (`ToldTheTruth`); one handler works on a
proposal, decisions stand and have one audit line each (`DecidedOnce`); a patch
is written only over what was reviewed (`AppliesWhatWasReviewed`); no approval
starts once the switch is off (`OffMeansNoApproval`); everything is decided in
the end (`EventuallyDecided`).

Left out: narrowing the scope of MCP between proposal and approval (only the
writes switch is kept), the diff's text and redaction, and the validation of
the patch.

### HistoryStore

`disk` is one cluster's directory: the lock, the meta file, the checkpoint of
the open hour, and a day and a health file for each hour; `engine[e]` what an
engine does (`pc`) and holds in memory. A step is one write. A tick goes into
memory, closes an hour that is over by appending its lines to both files, is
checkpointed, and the lock's heartbeat follows; `FlushShort` writes a part of
the lines, the last perhaps cut short, `RecordFails` none; `Crash` may come
between any two writes. `EraseCluster` removes the files one at a time.
`acked` and `tried` are history: the ticks Record returned for, and those it
began to count.

Checked: an hour keeps what was acknowledged and counts nothing twice
(`CountsStand`), since the last line of a key is the one that counts and an
engine that starts has the hour from the checkpoint or from the lines; an hour
in which a workload was broken never reads as a clean one
(`NeverReadsAsClean`), also when it had more than the file lists. Both are
stated but for what the code does lose, kept in `glued` (a line appended to one
cut short; a line that an hour closed twice has left in the health file,
`Outdated`) and `remains` (the rest of an interrupted clear), and for one writer
at a time (`MaxWriters`), which the lock does not ensure: see below. A line goes
out of date only after four ticks, one more than the run has; the theorem covers
it.

Left out: Prune, the cap on namespaces, averages and summaries, and the
recorder's fingerprints.

### PortForwards

A request is a goroutine, `req[p]` where it is in its handler: `start` (read the
config), `insert`, `wait` for the forward, `stop` (look the id up), `hooks` (of a
disconnect or a reload), `stopping`, which takes ids out of the table one at a
time (`work`) and closes the channel of the one in `hand` after the lock. `table`
is PFManager's map, `fwd[p]` what ForwardPorts of the request that started it is
doing, `stop` the closed channels, `clock` the nanoseconds an id is made of. OIDC
(`auth`) decides whether users differ and whether a disconnect is allowed. The
middleware's count of writes is `InFlight`.

Checked, in `MCUpdater`: a forward that may be reachable can be found and stopped
(`StillStoppable`); it is stopped by nobody but its own failing start, its user,
or a teardown of its cluster (`OnlyTheirOwn`); what was to end stays ended, also
if its dial comes through afterwards, and every request is answered
(`ForwardsSettle`).

Left out: List, which reads LocalPort without the lock that the starter writes
it under, and the error of GetPorts, which is not reached once `ready` is
closed.

### Updater

Extends `PortForwards` by the app around the engine. `app` tells a server's engine
from the app's; `status` and `pending` are those of updater.rs, `checking` who
is in run_update_check, `install` where install_update is: its question goes
through the engine's three counts one by one (`terminals`, `forwards`,
`writes`), is answered, and the update is taken and installed. Stopping the
engine first is what Windows does, and a choice here. `through` and `quiet` are
history: what was in flight during the whole of the question, and whether at
some time of it nothing was.

Checked: an install goes on over nothing that was in flight throughout
(`HeldWorkBlocks`); an update shown as ready is there or being installed, and
checks go one at a time (`UpdateKept`).

Left out: the setting that allows checks by timer (a timer may always check
here), Homebrew and manual installs (an outcome `reported`), progress, and the
engine's start.

### NetworkPolicies and PolicyBuilder

`NetworkPolicies` is netpolEval, netpolMatrix, netpolBuilder and the coverage
list as operators: a selector is a pair of labels and expressions, a field that
may be absent a set of at most one value, a draft's text either what it should
be or nothing. `PolicyBuilder` is the form over them: the draft, the policies
stored in each of two clusters, the dry runs and creates under way, and the
policy a dry run passed for (`dryOkFor`).

Checked for every draft and every small set of stored policies: the preview
names the connections a policy would block or open and no others, though it
only evaluates the pods it may touch, and nothing is created but a policy that a
dry run passed for, whatever was edited, changed or shown meanwhile
(`PreviewedAndTried`); a cell of the matrix is true of every port
(`MatrixIsSound`). `CoalescerProofs` proves both of any policies and pods.

### RightSizing

`requests` and `hpa` are two clusters' objects; `got` is what has arrived of the
shown one, `selection` the page's ticks by row, `preview` and `calls` the
requests. `Rows` joins VPA's recommendations with the engine's samples as
rightsizing.ts does; the effect that seeds the ticks is part of every action
that changes the rows. A memory quantity is a number and a suffix: `parseMemBytes`
reads it, with the suffixes the page knows, and `memQuantityString` writes whole
MiB; what a VPA or a container does not name reads as nothing. `asked` is history,
what the user ticked.

Checked: what the user ticked or unticked stays so (`ChoicesStand`), and an
apply, wherever the user has turned to by then, changes requests only to what the
page reads in that cluster's own VPA for that container, as it writes it
(`OnlyRecommended`). How far this is from what the VPA says is a theorem for the
suffixes the page knows (`NearWhatIsMeant`) and an unmet expectation for the
others (`WritesWhatIsMeant`): VPAs write memory as `262144k`, and `k` is not among
them. CPU is in whole millicores.

### Consolidation

One action is one pod placed or one verdict reached: `trial` is the candidate
node under judgement, `req` what is requested of each node on paper, `at` where
each pod is on paper. Every placement of the pods (`home`), with a node that
may be cordoned or not Ready and a budget that may be used up, is an initial
state; the run is first `each` node alone, then `greedy`. The workloads that
one drain takes down are `Spofs`, as spof.ts finds them.

Checked: no node is filled beyond what it has (`NeverOverfull`), and a trial leaves
no trace (`TrialsLeaveNoTrace`): what is on paper on each node is what its pods,
the moved ones included, request (`ReqExact`), so that a trial that failed, or
only judged, has taken nothing, and what was drained stays empty
(`DrainedStayEmpty`). That a pod that was moved is one a drain may move and fits
where it is (`MovedSafely`) is proved.

### RbacPage

`Rbac` holds the engine's advisor, the page's "Who can" and what a token
reads; `Exposure` the attack paths, which also ask `NetworkPolicies`;
`Detectors` the others. `RbacPage` has the sources that have arrived (`got`:
twenty streams, three queries), the queries kept by cluster (`kept`), the
dialog, the last answer and the last report. A world is one of the clusters of
the MC module; `slow` are the sources that arrive one by one, the others come
together.

The query for the served API versions may fail (`failed`), and the list of clusters
may not have the server's version yet (`known`); the dialog waits for an answer of
the first, whichever, and not for the second. A cluster shown again keeps its
answered queries; its streams start over here, where the page shows the rows it
had, as synced, until the streams answer: the clusters do not change in this
model, so the old rows would be the same.

Checked: what a report says is what the whole cluster gives, whatever arrived
last, and on removed APIs nothing where the dialog warned that it could not read
them or had no version (`SavedAsFound`); an attack path is never made worse by what is missing
(`NothingOverstated`); and the two readings of one thing agree
(`EvaluatorsAgree`): a path said to be restricted is one the NetworkPolicy
page's evaluator denies (`RestrictedIsShut`), and "Who can" and the attack paths
read roles alike (`AnswersAgree`). `ProposalsProofs` proves all three of
whatever the clusters hold, within what an API server sees to (`IsCluster`: a pod's
namespace exists and carries its own name, a cluster binding is in none, a rule
about no resource is about no API group) and, for `AnswersAgree`, where bindings
say which namespace their ServiceAccounts are in (`SubjectsSayWhere`).

The proofs corrected two of these properties. A workload whose pods run under two
accounts has two paths and one heading in the report: that its heading is high says
that one of them is complete, not both. And a RoleBinding may leave out a
ServiceAccount's namespace, which the attack paths read as the binding's
(attackPaths.ts:277, `s.ns || bindingNs`) and "Who can" and the advisor leave
empty: there the two do disagree.

## What the documentation says and the code does not do

The last section of a module states what a doc, a comment or a test of the
repository says and the model does not meet. No run checks these. To see one
fail, add it to the module's cfg as an INVARIANT (`AppliesExactlyTheDiff`, with
two Fields, and `BusyBlocks` are about steps: as a PROPERTY; those of
`RightSizing` need a definition in `MCCapacity` that names them, as
`RightSizing!HpaIsLeftAlone`); the counterexample is short enough to read.

| Module | Expectation | Said at | What happens |
|---|---|---|---|
| Proposals | `NothingWaitsWhenOff` | ai-assistants.md:47 | a request past its check inserts after RejectAll |
| | `AppliesExactlyTheDiff` (2 Fields) | ai-assistants.md:47 | an edit between read and dry run is in the diff and not in the patch |
| WatchStream | `NoGap` | ARCHITECTURE.md:89 | a delta may go out before the snapshot that lacks it |
| | `DeniedRowsGone` | adr/0003:28, useResourceStream.ts:172 | a delta or the snapshot brings a refused namespace's rows back |
| InformerPool | `CloseEndsAll` | pool.go:253 | a subscription between entryFor and the join is missed |
| Connections | `NothingOutlivesItsPool` | pool.go:253 | the same, seen from the registry: the stream stays on a pool nobody has |
| | `EditsAreSeen` | manager.go:217-218, 430-432 | a file that changes between a Load's reading and its watch is not read again |
| | `WatchesWhatIsListed` | manager.go:430-432 | of two Loads, the one that had read the older list may be the last to watch |
| WsClient | `EndedIsNotLive` | hub.go:430 | a page whose stream the engine ended goes on showing its rows as live |
| | `CacheForgotten` | streamCache.ts:8 | a page unmounted after a disconnect puts its rows back into the cache |
| PolicyBuilder | `TriedThere` | NetpolEditor.tsx:110 | a dry run on one cluster unlocks the create on another |
| | `AllowedHasAPort` | netpolEval.ts | both sides allow some port, but no port in common |
| RightSizing | `HpaIsLeftAlone` | right-sizing.md:23 | rows seeded before the HPA stream arrives have their CPU ticked |
| | `SuggestionIsAContainers` | rightsizing.ts:348 | a pod's total, over its replicas, is suggested for a container |
| | `WritesWhatIsMeant` | rightsizing.ts:40 | 262144k is read as 262144 bytes and written as 0Mi; what a VPA leaves out is written as 0 |
| RbacPage | `UpgradeIsTold` | FindingsExport.tsx:95 | a report saved before the server's version is known has no upgrade section, and nothing warns of it |
| | `NobodyLeftOut` | Rbac.tsx:251 | a role whose name has a colon is looked up by what precedes it |
| | `UnenforcedIsTrue` | findingsReport.ts:173 | a report is saved before the policies that do enforce have arrived |
| | `ClusterWideIsEverywhere` | rbacadvisor.go | a ClusterRole bound in one namespace is called cluster-wide |
| | `AnswerIsShown` | Rbac.tsx:243-274 | an answer about one cluster stays when the user turns to another |
| HistoryStore | `OneWriter` (MaxWriters = 2) | store.go:45 | two engines read the lock before either writes it |
| | `ReadsBesideAWriter` | cmd/kubebay/history.go:41 | an engine started soon after a crash only reads, for its whole life |
| | `CrashLosesNothing` | store_test.go:140 | a line appended to one cut short is lost when the checkpoint moves on |
| | `ClearIsFinal` | settings.md:39 | a clear cut short leaves a directory that no later clear finds |
| | `ReadersSeeClosedHours` | (readRange) | a reader overlays the open hour it loaded once for ever |
| PortForwards | `CountIsRunning` | activity.go:16 | a forward whose connection was lost is counted until it is stopped |
| | `StillStoppable` (CoarseClock = TRUE) | portforward.go:103 | two starts in one tick of the clock have one id, and the first can no longer be stopped |
| Updater | `BusyBlocks` | activity.go:10-12 | a start is no forward yet when those are counted, and no write any more when those are |
| | `EngineStays` | main.rs:119 | on Windows a failed install leaves the app without its engine |

Smaller ones the models show without a formula: a cluster that leaves
the kubeconfig while not connected keeps the pool an MCP read made, and if it
comes back with other credentials its streams are served from the old ones,
because Load compares with a table it is not in and owes it no hook
(manager.go:293, 350; the comment at 76-78 promises the rebuild); when a
settings save and the watcher Load at once, the table may stay at what the one
that read first had until the files change again (manager.go:255, 338); a stream
that connects just before a disconnect streams from a cluster that is not
connected (server.go:641-653, where a comment rules it out); two requests
that count before either inserts exceed the limit of waiting proposals
(proposals.go:203-243); an event already in the snapshot follows it as a delta,
which the client's rows do not mind (pool.go:231, 509-530); an hour that is closed again after a failed write or a crash
appends a second list of broken workloads, and one that no longer fits into it
keeps the line of the first, which is read as if it were listed: the hour may
read as clean though the workload was broken for long enough (health.go:125-135;
the comment at 14-16 promises that it is left out; `Outdated`); a new entry,
whose lastEmptyAt is the zero time, may be swept before its first subscriber
joins (pool.go:222-231, 549), which `NeverSilent` allows for as `late`; the
consolidation page's count may be lower than the nodes marked drainable
(ConsolidationCard.tsx:63 says so) and also include a node whose own row is not,
because first-fit places it differently on the fuller cluster; a disconnect
misses a forward whose start has read the config and is not in the table yet
(cluster_connect.go:13, portforward.go:59-112), and a cluster that leaves the
kubeconfig while not connected keeps its forwards; "who else can do
this" on a finding asks for `get` and matches pods/exec by its base resource
(Rbac.tsx:75-86); a stream that is forbidden leaves the report "Gathering"
(FindingsExport.tsx); Secrets only a DaemonSet refers to are called orphaned
(Rbac.tsx:170); a ServiceAccount a RoleBinding names without its namespace is the
binding's to the attack paths and nobody's to "Who can" and the advisor
(attackPaths.ts:277, rbacadvisor.go:223); and an attack path's mounted token ignores the ServiceAccount's
own automount setting (attackPaths.ts).

## Bounds

| Run | Bounds | Why they are enough |
|---|---|---|
| coalescer | 2 keys, 2 contents, 2 pushers, `out` of 1, 3 pushes | a replacement, an append, a full channel with a batch held and a next one gathering; a push during each state of Run |
| watchstream | a namespace with an object and an empty one, fan-out of 1, 3 versions, 1 reconnect | a merge needs two answers, one of them a refusal; two events compete for the slot |
| informerpool | 2 keys, 1 subscription, 2 entries, 1 refusal each | partial and full refusal; as many entries as the subscription can ask for, so the bound never blocks it |
| connections | 1 cluster, 2 configs, 1 user (a stream or a read each time), 1 file that is listed or not, 2 changes, 2 pools at a time | the cluster breaks, goes or changes; two Loads and a disconnect interleave with one another, with ForUser and with the join; a closed pool's stream beside the next pool |
| wsclient | 2 clusters, 1 page, 1 version beyond the first, 2 sockets, 2 ids, 1 stream ended | a page and two background streams share the socket; the second socket replays what the first had |
| channels | a log view, an exec terminal with 2 shells, a local shell, queue of 2, 2 sockets, 2 ids, 1 input | a fallback draws the second id; the queue overflows |
| proposals | 2 requests, 2 handlers, 1 field of 2 values, MaxPending 1, KeepDecided 0, 2 attempts | two decisions, or a decision and the switch, at once; every limit is met |
| historystore | 2 engines, 1 writing at a time, 2 hours, the total and one namespace, 2 workloads, 1 health line, 3 ticks, 2 faults | an hour closes, its write fails and is repeated after a crash; more broken workloads than lines |
| policybuilder | 2 clusters of 3 pods, 4 drafts (one does not read), 2 stored policies, 2 requests or changes, 6 pairs | a policy replaces one that selects other pods; every pair is compared, so no preview is cut short |
| capacity | right-sizing: 2 clusters, 2 requests, 1 tick, the code's thresholds, quantities in Mi, k and bytes; consolidation: 4 nodes, 6 pods, 1 budget, every placement | an apply lands after the user turned away and back; each reason not to move a pod, and a node drained onto one that is judged later |
| updater | on a server a start, a second start or a stop by either user, and a disconnect or a reload; in the app a start, a stop or another write, a terminal, and the timer and a command that check; 2 ids | a stop and a teardown take the same forward; a start fails while it is torn down; work ends and begins between two counts |
| rbacpage | 2 clusters of 8 kinds of contents, one or two late streams, 3 acts | a report needs two acts, a stale answer three |

Bounds of the models, not of the code: `MaxPushes`, `MaxVersion`,
`MaxReconnects`, `MaxEntries`, `MaxForbids`, `MaxEdits`, `MaxPools`,
`MaxOpens`, `MaxIds`, `MaxEnds`, `MaxInput`, `MaxHour`, `MaxTicks`,
`MaxWriters`, `MaxFaults`, `MaxPolicies`, `MaxMade`, `MaxCalls`, `MaxActs`, and
`OnServer` and `InApp`, the requests made in either world.
`OutCap` (64), `FanoutCap` (2048), `MaxPending` (20), `KeepDecided` (50),
`ApplyAttempts` (5), `MaxQueued`, `MaxHealthLines` and `MaxPairs` are the
code's, made small. Symmetry is used in two runs without liveness (the engines
of `MCHistoryStore`, the clusters of `MCPolicyBuilder`), over sets whose members
the modules only compare. Deadlock is not checked: every one of these models
may come to rest (all pushed, all decided, the pool closed, every node judged);
what must not stop is stated as liveness.

Most modules also state a type invariant and further invariants that hold in
their run and that no run lists, so that each run asks what is hard: `TypeOK`,
`Updater!AppTypeOK`, `Coalescer!IndexExact`, `InformerPool!NothingLeftBehind`,
`Channels!OpenedOnce`, `WsClient!NoForeignRows` and `LetGo`,
`PolicyBuilder!GapsAreExact`, `Consolidation!MovedSafely`, `RbacPage!CardsAgree`. They are checked by adding their names
to the cfg.

## Fairness

Weak fairness on the steps of goroutines and timers that have something to do,
and on nothing a person, a cluster or a network does: nobody has to push,
propose, approve, unsubscribe, forbid or close.

- Coalescer: pushers finish a Push, Run runs, the hub receives while it
  listens; a stream nobody listens to is closed, because the context whose end
  stops the hub's goroutine also runs Pool.unsubscribe (pool.go:246-249).
- WatchStream: client-go retries a list until it succeeds or is forbidden; Go's
  select is fair to channels that stay ready; each kind of step of the hub is
  fair on its own.
- InformerPool: Subscribe and end go on, the sweeper's ticker ticks and the TTL
  passes, a handler that was called and Close go on.
- Connections: users and threads finish what they began, the threads strongly,
  since they contend for the registry's lock and Go's mutex hands itself to who
  has waited a millisecond; the watcher takes the events it is sent and its timer
  fires.
- WsClient: the socket opens and the retry timer fires (losses are bounded by
  `MaxOpens`), the hub reads and streams, flush timers fire, and a page of a
  cluster that another window disconnected is unmounted.
- Channels: read loops go on unless they are inside a write nobody reads; an
  exec session's other end reads its input in the end, a local shell may never;
  a runner whose context is cancelled returns.
- Proposals: the API calls have timeouts (kubetools/source.go:87, 120), so each
  step of a request ends; time passes; the page polls the list, which is what
  expires proposals.
- PortForwards and Updater, while the engine is up: a request goes on, since
  each of its waits has a timeout (portforward.go:119-126), and a forward that
  listens heeds its stop channel. Nobody has to dial, to check, to ask, or to let
  an install succeed.

The other modules state safety only.

## Proofs

`CoalescerProofs` proves, for any keys, contents and pushers, any size of the
channel and any number of pushes, from the three assumptions of `Coalescer`
(`Absent` is no content, the channel has at least one slot, MaxPushes is a
number):

| Theorem | States |
|---|---|
| `TypeCorrect` | `Spec => []TypeOK` |
| `IndexCorrect` | `Spec => []IndexExact` |
| `WakeupSafe` | `Spec => []NoLostWakeup` |
| `LosslessUntilClosed` | `Spec => []NothingLost` |
| `CoalescerImplementsReplica` | `Spec => ReplicaSpec` |

The argument: `Basic` (types, `IndexExact`, and that no batch has a key twice)
is inductive. Unique keys are needed because replacing an op in the middle of
`pending` (coalescer.go:38-42) has the effect of appending it only if no later
op has its key: `ApplyReplace` and `ApplyAppend` are the two lemmas that say
what a push does to the rows a batch leads to, and `PushEffect` joins them.
`Lossless` adds that Run is past its loop only after Close and that view,
channel, held batch and pending ops form a chain; each action preserves it.
`WakeupSafe` follows from `Basic` and one case per action. The refinement maps
`source` to `fed`, `replica` to `view`, the captured states to those of the
channel and the held batch, and `ending` to `closed`; every action is a step of
`Replica` or a stutter.

And of `PolicyBuilder`, for any clusters, drafts and policies, and any finite list of
pods (`PodsAreList`; policies of other tools name types an API server accepts,
`ForeignTypes`):

| Theorem | States |
|---|---|
| `BuilderTypeCorrect` | `BuilderSpec => []BuilderTypeOK` |
| `PreviewTellsAll` | `BuilderSpec => []PreviewIsExact` |
| `MatrixSpeaksForPorts` | `BuilderSpec => []MatrixIsSound` |
| `NothingCreatedUntried` | `BuilderSpec => []TriedFirst` |
| `CreatesOnlyWhatWasShown` | `BuilderSpec => []PreviewedAndTried` |
| `GapsAreTheUncovered` | `BuilderSpec => []GapsAreExact` |

The preview evaluates only the pairs that the new policy or the one it replaces
selects a side of. That is enough because a side that neither selects is evaluated
as before (`SideKeeps`), so a pair passed over is too (`OthersAreSame`). For the
matrix, a rule that admits a port admits the connection, and one that names no port
admits each (`AdmitsAny`), which carries over to a side and to a cell (`SideSpeaks`,
`CellSpeaks`). `NothingCreatedUntried` rests on `BuilderInv`: a request carries one
policy, and what `dryOkFor` holds has been tried, whatever answers come late; and
the stored policies have one of each name, which applying keeps so (`AfterIsNamed`).
For `GapsAreTheUncovered`, a group's labels are, for each key, those of the last pod
that has it, and there is a last one (`OneIsLast`, by the pigeonhole principle, since
induction is out of reach); where all its pods have the same labels these are the
group's (`SameLabels`).

`CapacityProofs` proves of `Consolidation`, for any nodes, pods, budgets and
workloads, any requests, and any placement, from the assumption that pods are
placed on nodes of the list (`HomesAreNodes`):

| Theorem | States |
|---|---|
| `TypeCorrect` | `Spec => []TypeOK` |
| `NeverFilledOver` | `Spec => []NeverOverfull` |
| `MovesAreSafe` | `Spec => []MovedSafely` |
| `DrainsStand` | `Spec => []DrainedStayEmpty` |

None of the three safety properties is inductive: a drain takes over what a
trial has worked out, so the invariant `Inv` says of a trial under way
(`Judged`) that its requests are within bounds too, that what it placed fits
where it is on a node not drained, and that every movable pod of its node is
placed, given up, still to come, or constrained. A node is drained only if none
of its pods blocks; a constrained one does, so all have landed: that is what
makes `Movable` of it empty, and safe what was moved.

Of `CapacitySpec`, which has one of the two pages open (`MCCapacity`):

| Theorem | States |
|---|---|
| `TicksStand` | `CapacitySpec => []ChoicesStand` |
| `AppliesOnlyRecommended` | `CapacitySpec => OnlyRecommended` |
| `NearWhatIsMeant` | a quantity in a suffix the page knows, or in none, is written within half a MiB of what it is |
| `CapacityIsSafe` | `CapacitySpec => [](NeverOverfull /\ MovedSafely /\ DrainedStayEmpty)` |

A tick the user set is in `selection` from then on, and seeding adds only rows
that are not there (`Chosen`). An apply carries the plan it was asked with, to
whichever cluster: `Recommended` says of each call under way that it is what the
page reads in the VPA of its own cluster for the container and writes, which holds because a
workload that has a row from VPA has no other rows, and a plan takes a
container's suggestion from them.

`PortForwardsProofs` proves, for any requests, clusters, users and number of
ids, the following of `Spec`, each from `CoarseClock = FALSE`, that no two starts
read the same nanosecond, without which the second is false:

| Theorem | States |
|---|---|
| `TypeCorrect` | `Spec => []TypeOK` |
| `AlwaysStoppable` | `Spec => []StillStoppable` |
| `NeverAStrangers` | `Spec => []OnlyTheirOwn` |

The invariant `Inv` adds to the types that an id belongs to one start (`Ids`:
unique, because each is made of a clock that has moved since the last), what a
request may have done at each point of its handler (`Phases`), and that whoever is
about to take an id out of the table is entitled to the forward that has it
(`Claims`). Both properties need the first: stop(id) is a lock section of its
own, and what it finds under the id must still be what was looked up.

Of `AppSpec`, the specification of `Updater`, which extends `PortForwards`, it
proves the first two again under the same condition and the last two whatever
the clock does:

| Theorem | States |
|---|---|
| `AppTypeCorrect` | `AppSpec => []AppTypeOK` |
| `AppStopsForwards` | `AppSpec => [](StillStoppable /\ OnlyTheirOwn)` |
| `ReadyUpdateStands` | `AppSpec => []UpdateKept` |
| `InstallWaitsForWork` | `AppSpec => HeldWorkBlocks` |

`AppIsForwards` shows that every step of the composition is one of
`PortForwards` or leaves its variables alone, so `Inv` carries over. The other
two rest on `AppInv`: one check at a time, and the update where the status says
it is (`Kept`), which a failed install must restore; and that a count read as
none counted nothing that was in flight throughout (`Seen`). For the last, the
things counted are finitely many (`Countable`): a count of none means none.

`ProposalsProofs`, for any handlers, fields, values and limits, any finite set
of requests (`RequestsFinite`: pruning ranks the decided ones) and at least one
attempt to apply:

| Theorem | States |
|---|---|
| `TypeCorrect` | `Spec => []TypeOK` |
| `TellsTheTruth` | `Spec => []ToldTheTruth` |
| `DecidesOnce` | `Spec => []DecidedOnce` |
| `AppliesOnlyWhatWasReviewed` | `Spec => AppliesWhatWasReviewed` |
| `DecisionsDoStand` | `Spec => DecisionsStand` |
| `NoApprovalWhenOff` | `Spec => OffMeansNoApproval` |

That a proposal is `applying` or `rejected` does not say who made it so. `Inv`
does: each proposal that is claimed has one claimant and no audit line yet
(`ClaimsHold`), and what the claimant has in hand agrees with what was written
(`Knows`: a patch to be sent over an object nobody has touched goes over what was
reviewed; an outcome `applied` was applied). `Logged` says that a proposal has
one audit line once it is decided, at most one place among the decided ones, and
is forgotten only after that. `CheckStands` bridges the gap between the check of
the switch and the claim: an approval that passed it finds nothing to claim once
the switch is off, or RejectAll is still to run.

And of `RbacPage`, for any clusters, sources and questions, from what an API server
sees to (`WorldsAreClusters`) and the shape of a question (`AskedAreQueries`):

| Theorem | States |
|---|---|
| `SavesWhatIsThere` | `RbacSpec => []SavedAsFound` |
| `ReportsUnderstate` | `RbacSpec => []NothingOverstated` |
| `EvaluatorsDoAgree` | `RbacSpec => []EvaluatorsAgree` |
| `CardsDoAgree` | `RbacSpec => []CardsAgree` |

The invariant `RbacInv` is small: a report was made of rows of its own cluster that
have all that `Ready` and `Gathering` wait for, and says whether it could read the
versions (`SavedFrom`). The work is in what
the detectors make of rows. `SameCards` says that those `SavedAsFound` names read
nothing else. The attack paths do (routes and vulnerability reports), and there the
rows are part of the cluster's (`Partly`): fewer entries, an isolation ranked no
better (`IsolationShrinks`: an entry's verdict does not depend on what is missing,
so fewer verdicts), fewer CVEs, which are finitely many (`CvesFinite`), hence a
score no higher (`PathGrows`). For `RestrictedIsShut`, a peer that admits a pod in
the NetworkPolicy page's evaluator admits it in the paths', which assume more of an
address they do not know (`PeersAdmit`), and both select a pod by the same policies
(`SameSelection`); so a path shut by the second is shut by the first
(`ShutToSources`). For `AnswersAgree`, both come down to the bindings that grant a
verb on Secrets (`ReachesByBindings`, `ReadsIsAllowed`).

`InformerPoolProofs`, of `InformerPool`, for any subscriptions and bounds and any
finite set of keys (`KeysFinite`: entries are numbered as they are made):

| Theorem | States |
|---|---|
| `TypeCorrect` | `Spec => []TypeOK` |
| `EachStoppedOnce` | `Spec => []StoppedOnce` |
| `NoneGoesSilent` | `Spec => []NeverSilent` |
| `NobodyIsLeftBehind` | `Spec => []NothingLeftBehind` |

`Owner` is the argument: an entry is in the map, or one handler, the sweeper or
Close took it out and has either stopped it or alone is about to, by how it
left. `Hears` says that a subscription in an entry that left is about to be told
by whoever took it out, or joined too late. `NobodyIsLeftBehind` needs more: `end`
copies the entries a subscription has and leaves those, so one that joined an entry
after that copy would stay in it for good. `Accounted` says why none does while the
pool is open: every key is fetched once and gives an entry of its own, so the keys
wanted and the entries had are never more than are expected (`OncePerKey`), only an
entry that was joined refuses (`InJoined`), and so all have refused only when there
is nothing left to join (`FullIsAllJoined`), which is when `end` may come
(`Leaving`). After Close the map is empty, and the claim with it.

And of `HistoryStore`, for any finite sets of engines, namespaces and workloads,
any hours, cap and bounds (`DataShape`):

| Theorem | States |
|---|---|
| `CountsAlwaysStand` | `StoreSpec /\ []OneWriter => []CountsStand` |
| `BrokenNeverReadsAsClean` | `StoreSpec /\ []OneWriter => []NeverReadsAsClean` |

One writer at a time is a hypothesis of both: the lock does not see to it, as
`OneWriter` among the expectations above shows, and no theorem says it. The invariant `StoreInv` is about
each open hour a reading may start from, the checkpoint's and the writer's
(`Holds`): nothing was acknowledged in a later hour, in this one no more than it
has, and in earlier ones no more than their files have, but for the lines lost.
A write that closes an hour, whole or cut short, changes that hour's files only,
and each line to what the hour has (`Flushed`), so the checkpoint, which is of
this hour or an earlier one, holds as well as before; once both files are written
the hour may leave memory. Nothing has more than was tried (`FilesBounded`,
`Bounded`), but after an interrupted clear; and a directory without its meta file
is blank unless one was (`Named`), or a clear that passes over it would not be
one. `DayLines` and `HealthLines` are written by `InOrder`, which ranks an element
by how many are before it: `RankedAll` shows that it has every element once, and
`HealthLinesAll` that a broken workload is listed or the list ends in the mark
that some are not, and then at its second place or later, which a torn end before
it cannot swallow. The verdict needs one more fact: fewer ticks need fewer broken
ones (`MoreTicksNeedMore`), so counting at most what was tried errs to the side of
broken.

`WatchStreamProofs`, for any namespaces, any objects in them and any capacity of
the fan-out; an object is there in a first version, so `MaxVersion` is at least 1:

| Theorem | States |
|---|---|
| `TypeCorrect` | `Spec => []TypeOK` |
| `OneSnapshot` | `Spec => []OneWholeSnapshot` |
| `NoOtherStaleRow` | `Spec => []StaleOnlyWhereKnown` |

`Current` follows the newest event of an object through the informer's queue,
the fan-out, the coalescer's queue and into the rows: it is the first of these
that has the object which must have its last version. `NewestOfAppend`,
`NewestOfTail` and `NewestOfConcat` say what the newest op of a key is in a
queue that grows, in one with its head taken off, and in two after each other:
they carry it from stage to stage; `Lives` and `Kept` say that stages agree on
who has joined, and that a captured row not changed since is the cluster's.

`ConnectionsProofs`, of `Connections`, for any clusters, configs, users and
contents of the kubeconfigs:

| Theorem | States |
|---|---|
| `TypeCorrect` | `Spec => []TypeOK` |
| `ConnectedAreListed` | `Spec => []ConnectedListed` |
| `DisconnectReaches` | `Spec => []StreamsReachable` |
| `NoneMissesARotation` | `Spec => []CurrentOrRetiring` |

What makes it inductive is what the two locks give. Who makes a pool has the
registry's lock and the pool to itself (`Making`); a pool somebody was given is
in the registry under their cluster, being closed, or closed (`Given`); a pool
in the registry is one cluster's and nobody is closing it (`Registered`).
Once it is closed, who is `open` on it is still to be visited (`Awaited`) or is
`late`; and only a pool that was marked has subscribers to visit (`Visiting`).
`Owed` is about pools that are only being made too: their config was read before
they are in the registry, and the Load that replaces it in between must find
itself owing a hook.

And of `Channels`, for any views of the three kinds, shells, sockets and ids and
any sizes of the queues:

| Theorem | States |
|---|---|
| `ChannelsTypeCorrect` | `ChannelsSpec => []ChannelsTypeOK` |
| `NoSessionForNobody` | `ChannelsSpec => []NoOrphan` |
| `LiveHasAProcess` | `ChannelsSpec => []LiveIsRunning` |
| `ChannelsOpenOnce` | `ChannelsSpec => OpenedOnce` |

`ChannelsInv` says what a frame that opens a channel stands for while it waits,
in the page's queue or on the wire (`Sound`): nothing runs under its id yet, it
is there once, and its view has the id still or its close follows. A queue that
is full loses its oldest frames, so a close is never lost before the open it
follows (`SoundAfter`). Ids are drawn once and belong to one view (`Drawn`); a
runner is in its table or its loop is about to put it there, and reads no frame
before (`InTable`), so a close that is read finds it.

`WsClientProofs`, for any clusters, places on the pages, sockets and ids:

| Theorem | States |
|---|---|
| `TypeCorrect` | `Spec => []TypeOK` |
| `StreamsAgree` | `Spec => []SubsAgree` |
| `LiveMeansThisSocket` | `Spec => []LiveIsThisSocket` |
| `RowsStayHome` | `Spec => []NoForeignRows` |
| `DisconnectLetsGo` | `Spec => []LetGo` |

`SubsAgree` speaks of an empty wire only. The invariant `Wire` says what holds
while frames are on it: the last frame of a subscription says whether the client
wants it, and if it has none, the engine's table does (`Told`); an id, wherever
it stands, is that of one cluster and was drawn before (`OneCluster`), without
which a frame could reach a page that has moved on to another cluster. `Holds`,
`Keeps` and `Held` tie each subscription to the one page or background stream
that has it: that is what a cleanup relies on when it removes its own and no
other. `Flags` needs that no page thinks itself connected while the socket is
down and that no flush is pending when it comes back (the retry timer is far
longer than the flush timer, see Fairness), or a render of the old socket would
follow the new one.

Only model-checked: liveness (`Progresses`, `SettlesOnTruth`, `Converges`,
`WindsDown`, `Settles`, `NobodyWaits`, `ForwardsSettle`, `EventuallyDecided`),
which TLAPS does not reach; and of `TrialsLeaveNoTrace` the half `ReqExact`, a sum
over data, which is defined by recursion over a set (the other half,
`DrainedStayEmpty`, is proved).

## Not modelled, and why

Reports (audit feed, waste, triage, summaries), metrics, discovery, OS and cloud
access, signature verification, OIDC, and the encoding of frames: requests that
ask, compute and keep nothing. Most of the repository is the page, and most of
the page is rendering of the rows it is given: it has no behaviour of its own
that a model could check, which is why the map covers only a small part of the
lines. Of the modelled parts: frame chunking, backoff durations, log lines and
names, wording, CPU quantities' parsing, the arithmetic of IP blocks.

Behaviour that could be modelled and is not yet:

- probes and the health loop (manager.go:523-590): a late answer is recorded over
  a newer one, and on the new entry of the same id;
- the token of MCP (mcp.go:281): rotating it while MCP is switched off may leave
  a token behind;
- the local shell's instance directories (sweep.go:34): a sweep by another engine
  between the making of a directory and its lock;
- YAML edits (editpatch.go): the object is read live and the patch, a difference
  to it, is sent without its resourceVersion;
- of the history Prune, the cap on namespaces and the recorder; cluster ids
  (`assignIDs`).

## Plan

In this order, each with its property and, where a theorem is worth it, a proofs
module:

1. Probes and the health loop beside `Connections`: what a late answer may
   overwrite, and that every status settles.
2. YAML edits against concurrent changes, beside `Proposals`.
3. The MCP switch and its token; the local shell's directories.
4. The rest of `HistoryStore`: Prune, the cap on namespaces, the recorder.
5. Cluster ids (`assignIDs`).
