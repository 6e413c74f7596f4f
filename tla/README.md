# A TLA+ verification of quarkcm

quarkcm is Quark's connection manager: a daemon on every node of a Kubernetes
cluster that watches the cluster and serves what it sees to RDMA services over
gRPC, and a CNI plugin that gives pods their addresses. This directory holds
TLA+ modules that model its core, TLC configurations that check them on small
instances, and proofs of every safety property those runs check, for instances of
any size.
Paths below are relative to `src/`.

## 1. Inventory

| Part | Where | State | Operations |
| --- | --- | --- | --- |
| Resource controllers | `pkg/connectionmanager/controller` | an informer with its indexer and a work queue, for each of nodes, pods, services, endpoints, config maps, ingresses | informer callbacks add an `EventItem` with a tracking id; one worker takes an item, looks the object up and calls the handler |
| Handlers | `pkg/connectionmanager/handlers` | none (the node handler writes the file `PodCidr`) | turn an object into calls of the datastore |
| RdmaIngress controller | `pkg/connectionmanager/rdmaingresscontroller` | informer with a resync of 30 s, work queue whose items are never `Done` | add, update, delete; each rule of the object is one port |
| Datastore | `pkg/connectionmanager/datastore` | for each kind: a version counter, a map of objects, a map from version to event, a map of watch queues; for nodes also the set of their addresses | `SetX`, `DeleteX`, `ListX`, `EnqueueX`, `AddXQueue`, `RemoveXQueue` |
| gRPC service | `pkg/connectionmanager/grpc/quarkcmsvc.go` | a queue for each watch | `ListX` sends all events, `WatchX` sends the events after a version and then follows the queue |
| Rust client | `quarkcmclient/src` | nodes by address, largest version seen | list once, then watch for ever, resuming at the largest version |
| IPAM | `pkg/ipam`, `pkg/util/osutil` | the file `Allocated`: vpc -> address -> `name\|id` | `Allocate`, `Deallocate`, each a read, a change and a write of the file |
| CNI plugin | `cmd/quarkcni`, `pkg/util/netutil`, `pkg/util/netvariablesutil` | files below `/var/run/netns/`; one process for each call | `init` mounts the network namespace if need be, `ADD` allocates and configures an interface, `DEL` deallocates and deletes the namespace |
| Utilities | `pkg/util`, `pkg/connectionmanager/utils` | none | system calls, conversions |

How they interact: API server -> informer -> work queue -> worker -> handler ->
datastore (in memory) -> queue of every watch -> gRPC stream -> client. The pod
store also reads `NodeIPMap` of the node store and the file `Allocated` that the
plugin writes.

What is hard here:

- The datastore has no lock but the one around the version counter. A gRPC
  request reads the counter, the event map and the queue map while the worker
  writes them, so the order of the lines is what keeps streams complete.
- A watch registers its queue before it lists. Nothing can be missed, but what
  is published in between is sent twice, and the stream goes back once.
- The client keeps nodes by address and only a version to resume from. Streams
  break, the server restarts and counts from 1 again.
- The queues carry an event type but the worker looks the object up later. A
  panic in a handler or in a message ends the whole process, which starts again
  empty; some objects make it panic every time.
- The stores keep what the handlers put together from an object, under keys of
  their own, and drop what they take for no change.
- Plugin calls of different pods are processes that run at the same time on one
  file without a lock, and a write of the file is a truncation and a write. Any
  of them may be killed. The mount of a namespace may fail unnoticed, and the
  file it leaves behind keeps it from being tried again.
- A pod is published by what that file says when the pod is looked at, which the
  plugin, kubelet and the manager each get to at a time of their own.

What makes each part correct:

| Part | Correct when |
| --- | --- |
| Node store and service | streams have no gap, deliver everything to a client that stays, go back at most once; the log replays to the map |
| Client | it ends up with exactly the nodes of the server, across reconnects |
| Other stores and services | what a watcher was sent amounts to exactly the objects of the store |
| Controller | the datastore ends up with the objects of the cluster, across crashes, and holds what a restarted process would hold |
| IPAM | no address is used twice, the file says who has what, addresses come back |
| CNI plugin | a sandbox that runs has its network namespace mounted |
| Pod store | running pods of this node are published with their own address and container, pods on the host network are not |

## 2. The modules

| Module | What it is |
| --- | --- |
| `EventFeed` | abstract: what a watch service promises, whatever the resource |
| `NodeStore` | the node datastore and the gRPC node service, one life of the process |
| `NodeSync` | the Rust node informer on the server of `NodeStore`, with broken streams and restarts |
| `Resources` | no state: what the handlers make of each of the seven kinds of objects, what the stores compare, what the messages say |
| `ResourceStores` | the other six datastores and their gRPC services, over `Resources` |
| `Controller` | one controller of any of the seven kinds with its handler and the map it fills, with crashes and restarts |
| `Ipam` | `Allocate` and `Deallocate` as the plugin calls them, with calls that are killed |
| `Cni` | extends `Ipam`: a call of the plugin from `init` on, with the mount of the network namespace |
| `PodStore` | extends `Ipam`: plugin, kubelet, manager and the pod datastore |
| `...Proofs` | theorems, see section 5 |
| `MC...` | the small instances TLC checks |

`NodeSync` composes the client with `NodeStore`; `Cni` adds the namespaces to the
calls of `Ipam`; `PodStore` composes `Ipam` with the pod and node controllers;
`Controller` and `ResourceStores` share `Resources`. `NodeStore` and
`ResourceStores` both implement `EventFeed`.

A definition whose name ends in `Bug` stands before the one it varies, and is
what that one would be after a plausible mistake in the code. Nothing uses it;
`PROJECT.json` lists which property each mistake violates.

### NodeStore

`rv`, `nodeMap`, `eventMap`, `nodeIPMap`, `queueMap` are the fields of
`DataStore`. The node worker is the only writer: `SetNode` and `DeleteNode` take
a version, `StoreNodeEvent` stores the event, `EnqueueNode` adds it to one queue
after the other, `FinishNode` does what follows. A request `s` goes through
`spc[s]`: `WatchNode` - `AddNodeQueue` - `ListNodeStart` - `ListNodeRead` for
each version - `ListNodeEnd` - `SendNode` and `DequeueNode` - `SendFails` -
`RemoveNodeQueue`; a `ListNode` request has no queue and answers in one message.
A step ends where another goroutine can see the difference.

Undefined behaviour of the code is a choice: `ListNodeNil` is the dereference of
an event that is not stored yet, `MapRace` is the Go runtime noticing two
accesses to one map (`MapConflict`; `NodeIPMap` is also read by the pod worker,
at any time); after either the process is down (`up`). Where the runtime does not
notice, a range over a map that is being changed may or may not visit the new key
(`AddNodeQueue`).

A node may be stored without an IPv4 address: `handleNodeSet` takes the address
from the status of the node, where there may be none. Its message cannot be
built, and `ConvertIP` ends the process at the first client that lists or watches
(`ConvertIPPanics`); the constant `IPv4` says which addresses it takes.

Of a node, the name and the address are kept apart; hostname, creation time,
subnet and mask are one value `attr`, since the code only compares them.
An event is represented on queues and streams by its version. Keys of
`NodeEventMap` are always `1 .. n`, so it is a sequence.

### EventFeed and the refinements

`EventFeed` has a log that is appended to and a set `seen` for each request.
`Deliver(s, v)` sends version `v` and leaves the request with everything between
its start and `v`: a duplicate and the one step back are allowed, a gap is not.
`NodeStore` implements it with `log <- eventMap`, `live <-` the open streams and
`seen <-` what is on each stream (`ImplementsFeed`), and so does
`ResourceStores` for each of its kinds.

### NodeSync

`cnodes`, `cmax` are `RDMA_CTLINFO.nodes` and `max_resource_version`. Request 0 is
the list of `NodeInformer::new`, requests 1, 2, ... the calls of `run_watch`.
Messages reach the client in order, and what was sent and not handled when the
stream breaks is lost (`ClientDrop`). The server may notice a broken stream before
or after the client does (`StreamBreaks`). `connect` and the first `list_node` are
not repeated: when they fail, `new` and `main` return the error and the client is
gone (`ClientExits`). `ServerRestart` empties the datastore. `at` and `cut` are
history variables for the properties: the version handled last, and whether a
stream was lost while it repeated older events.

### Resources

`Handle(kind, type, name, o)` is the list of operations (`Put`, `Unset`) that the
handler of that kind calls the datastore with: one service is one key, endpoints
become one text of addresses and ports, a config map the two entries that are
looked for, each rule of an RdmaIngress is a port, an ingress without a service
backend nothing at all. `Unhandled` are the objects a handler panics of: a node
without PodCIDR, an endpoints address that is not IPv4, a configuration that ends
with the name of an entry, an ingress whose default backend is not a service. A
configuration is searched for the text of a name, anywhere in it; the model looks
for an entry of that name (`RetrieveConfig`). `Same` is the comparison of each
`SetX`, `MessageOf` what is sent of an object and `Tellable` whether the message
can be built (`ConvertIP`). Texts of addresses are sequences of bytes,
configurations sequences of entries; names, ports and values are plain values.

### ResourceStores

As `NodeStore`, for whichever kind `kind` is, in coarser steps: a listing is one
step, and so is the range over the queues. What the order of version, event,
queues and map can show is kept (`wpc`); the accesses that only the Go runtime
can notice are in `NodeStore`, whose lines these are copies of. Here `sent` has
the messages themselves, so that a property can compare what a client knows
with the store. The work of the handler on one item is a list of operations
(`ops`), done one after the other.

### Controller

`kind` chooses one of the seven controllers. `cluster` is the API server,
`indexer` the informer's cache. The cache is updated and the callback adds to the
work queue in two goroutines of client-go; `queue` is what has been notified and
not yet added, behind what is in the work queue, so that both are one step, `Inform`.
It may skip intermediate states, as a new listing does. `Fetch` is `processNextItem` up to
the lookup, then `HandleItem` applies the operations of `Resources`, or
`HandlePanics` ends the process, with the queue and the datastore; `Start` begins
with an add for every object. The RdmaIngress controller puts the object into
the item (`FetchRdmaIngress`), is resynced every 30 s (`InformTouched`), and
drops the tombstone of a delete it learns of late (`InformTombstone`, `dropped`).
Items never compare equal (each has a tracking id or an object pointer of its
own), so a queue is a sequence; for the same reason `Done`, which is never called
for the items of the RdmaIngress controller, makes no difference but in memory.

`drift` is a history variable: it says that a handler went on from something it
cannot undo (`Drifts`). These are five cases in the code: a rule that an update
removes, a port two objects share, a change of the target port alone
(`datastore_rdmaingress.go:42`), a deleted config map, an ingress that loses its
backend.

### Ipam

A sandbox is one pod sandbox that kubelet adds and later deletes, possibly more
than once. `Allocate` reads the file, walks the pod CIDR and chooses, `Create`
truncates, `Write` fills; over what another call has written since, the result
may be a text that does not parse (`Torn`). A reader of an empty or torn file
sees no allocation. The walk is on sequences of bytes with their carry (`Inc`,
`Walk`); `Turn` are the turns on which it gives an address out. A mask covers
whole digits of an address: with `ByteBase` 256 it ends between bytes, and with
`ByteBase` 2, where the digits are bits, anywhere. `AllocatePanics`
is the walk over a `PodCidr` that is missing or being rewritten, `Killed` a call
that ends anywhere.

`disturbed` is a history variable: two calls have run at the same time, a call
was killed between emptying the file and filling it, or after its delete had
freed the address and before the namespace was gone, or a delete by pod name has
freed the address of another pod of that name. Most properties of the file are
about what holds until then; `NamesItsOwn` is not.

### Cni

For the sandboxes whose `CNI_NETNS` is not below `/var/run/netns/` (`Elsewhere`),
`nsFile` is the file that `MountNetNSIfNeeded` makes for them there: `"none"`,
`"empty"`, or `"bound"` to the namespace. `BindMount` creates it and runs the mount,
which may fail; `AddBegins` is an ADD with its `init`, `InitDies` one that ends in
`init`, after which kubelet may call ADD again. An existing file is not looked at,
so an empty one stays empty; `ActivateInterface` fails on it, and only `DeleteNetNS`
removes it. Each step of `Cni` is one of `Ipam`, or `InitDies`.

### PodStore

Calls of the plugin are one at a time here, with one ADD and one DEL for each
sandbox, so that what goes wrong is the manager's own. `KubeletReports` writes
the address into the pod object, `HandlePod` is the pod handler with `SetPod`
and `GetContainerId`, `HandleNode` puts the address of the node into `NodeIPMap`
at any time after the start, `ManagerRestarts` empties the manager. The work
queue is the set of pods with an item in it, as the last item of an object
decides (`LastItemDecides` of `Controller`). `HandlePod` looks the object up and reads the
file in one step; an object read earlier has changed since, and its item is in the
queue again. `blind` is a history variable: the
pods whose container was not found when they were last handled, because the file
was being written.

## 3. The runs

| Run | Instance | Shows |
| --- | --- | --- |
| `node_streams` | 2 nodes, 2 requests, 2 events | `StreamInv`, `StreamGapFree`, `NoEventLost`, `OneRewind` hold under every interleaving |
| `node_watch` | 3 nodes with fixed addresses, one of them not IPv4, 1 request, 3 events, fairness | refinement of `EventFeed`; every event is delivered; dead watches are removed; the log replays to the map, no event is redundant, `NodeIPMap` is exact |
| `node_nil_event` | 1 request, 2 events | violated: a listing looks up a version without an event |
| `sync_reconnect` | 1 node whose attributes change, list and 2 watches, 3 events | the client has exactly the server's nodes when all is quiet |
| `sync_progress` | 1 node, list and 2 watches, 2 events, a restart and fairness | the resume point never goes back; the client handles every event |
| `sync_restart` | a restarted server | violated: the client misses the new life's events |
| `controller` | all seven kinds, up to 2 objects, 3 changes, fairness | what waits ends with what the informer knows; the datastore holds what a restarted process would; the causes of a crash; the process ends up like the cluster |
| `stores` | six kinds, up to 2 objects, 1 request, 3 events | refinement of `EventFeed`; a watcher knows exactly the store; no idle message |
| `stores_headless` | a service without an address | violated: building its message ends the process |
| `ipam` | `Cni`: 3 sandboxes, 2 of one name, 1 to be mounted, 2 addresses, 1 kill, fairness | no duplicate, exact file, addresses come back until disturbed; none is refused while one is free; no sandbox is ever recorded at an address it was not given; none runs without its namespace |
| `pods` | 2 pods, 3 sandboxes, a host pod, 1 restart, fairness | host pods stay hidden, running pods are published and never mixed up |
| `pods_same_ip` | a pod whose second sandbox gets the same address | violated: the pod keeps the container that is gone |

Why the bounds are enough. Two requests interact only through `queueMap` and the
range over it, so two show every conflict; the proofs cover any number. Two
events show an event that is listed, queued, or both, three add one that comes
after the watch has settled. Three events of one node are a set, a change and a
delete, or a node that comes back; the client treats each address on its own but
for the version, so one node is enough. Two watches are one that breaks and the
one that resumes. In `controller` two objects and three changes have a delete and
a new object in the queue of another's crash, and two objects that share a port
or a name; each kind has the looks that its handler tells apart, the ones it
panics of included. `stores` leaves the latter out, as they never reach a store.
Three sandboxes on two addresses run out of addresses; the pod CIDR of the
instance has bytes of base 2, so that the walk carries from one byte to the next
between the gateway and the first address. One kill is enough to see what a call
leaves behind at each of its steps, and a second would only add to what
`disturbed` already excuses. One sandbox whose namespace is mounted shows every
course of a mount, since each has a file of its own, beside two that need none.
In `pods` one pod has two sandboxes, so that its address can
change, stay, or go to the other pod.

Two symmetries are used, in runs of invariants only: requests are
interchangeable (`node_streams`), and so are the attributes of the node in
`sync_reconnect`.

`MaxVersion`, `MaxWatch`, `MaxRestart`, `MaxChange` and `MaxKills` are bounds of
the models only. Every configuration but that of `Ipam` says `CHECK_DEADLOCK
FALSE`: the model stops when its bound is spent, or when the manager has crashed
for good. `Ipam` never stops, since kubelet repeats its calls, and is checked for
deadlock.

Fairness. `FairSpec` of `NodeStore`: the goroutines of the worker and of each
request run when they can; nothing is assumed of clients, of the cluster or of
crashes, and the liveness properties except a process that is down. `NodeSync`
adds that the client's task runs and that it notices a stream that the server has
closed; nothing makes it lose a healthy one, and nothing forces a restart.
`Controller`: the process is restarted (it is a daemon set), the informer catches
up, the worker runs. `Cni`: a call that has begun ends, and kubelet deletes
every sandbox in the end. `PodStore`: kubelet reports a running sandbox and the
pod worker runs. `ResourceStores` has safety only.

Escapes. Some properties hold under a condition that names what the code does
not provide; each condition was found by a run that failed without it.

- `IPSetExact` needs nodes that keep an address of their own: `SetNode` adds the
  new address to `NodeIPMap` and never removes the old one.
- `SyncedWhenQuiet` and `ClientAtVersion` excuse a stream that was cut while it
  repeated older events (`cut`): the client may then keep a deleted node. They
  also need fixed addresses, since the client keys nodes by address and an event
  carries only the new one.
- `StoreAsIfRestarted` excuses `drift`.
- `Settles` excuses an object that no handler is prepared for, which keeps the
  process from coming up as long as it is there, and dropped tombstones.
- `NoDuplicateAddress`, `FileExact` and `AddressReturned` excuse `disturbed`:
  without it two calls that overlap give out one address, which is what the
  "todo" at `pkg/ipam/ipam.go:35` is about.
- `RunningPodPublished` excuses `blind`: nothing makes the manager look again at
  a pod whose container it did not find.
- `ClientCatchesUp` excuses a client whose first connection or listing failed, and
  the liveness properties of `NodeStore` a process that is down, be it for a race or
  for a node without an IPv4 address.

What is excused is not caught: of the hazards in `PROJECT.json`, a broken stream
among repeated events, moving addresses, objects no handler is prepared for, the
cases of `drift`, a dropped tombstone, most overlaps and kills of plugin calls and a
pod that is missed are known to happen, and the properties say that nothing else
does. The note of each such hazard names its excuse.

## 4. What the checks found

Each is a run that violates a statement of the repository (`findings` in
`PROJECT.json` quotes them).

1. `node_nil_event`: a version is visible before its event; a listing in between
   ends the process.
2. `sync_restart`: a client of a restarted manager never learns of deletes, and
   misses the events up to its old version.
3. `stores_headless`: the message of a headless service converts the address
   "None", and panics (`quarkcmsvc.go:249`).
4. `pods_same_ip`: `SetPod` compares addresses and not containers
   (`datastore_pod.go:50`), so a pod stays published with a container that is
   gone.

## 5. What is proved

Every invariant and every action property of a passing run, and both refinements,
are theorems. The proofs are checked by TLAPS, for every value of the constants that
meets the assumptions the modules declare, and TLC evaluates each assumption on
every run:

- bounds are numbers, sets of names finite, and `Nil` is none of the values it
  stands beside (`NilAssumption` of `NodeStore`, `Controller`, `ResourceStores` and
  `Ipam`, `ClientNilAssumption`, `PodObjectAssumption`, `SandboxAssumption`,
  `LooksAssumption`), nor are `Empty`, `Torn`, `Pending` and the address of the
  node (`FileAssumption`, `NodeAddressAssumption`);
- `ObservedAssumption`: a node object is an address and attributes;
- `IPv4Assumption`, `ElsewhereAssumption`: the addresses `ConvertIP` takes are
  addresses, and the sandboxes to be mounted sandboxes;
- `CidrAssumption`: a pod CIDR is the network address of a prefix;
- `PodAssumption`: a pod on the host network has no sandbox of the plugin's;
- `RulesAssumption`: the rules of an RdmaIngress are a sequence;
- `ValuesAssumption`: what a handler puts into a datastore is not `Nil`.

| Theorem | In | States |
| --- | --- | --- |
| `TypeCorrect` | `NodeStoreProofs` | `TypeOK`: `eventMap` has exactly the versions up to `rv`, or up to `rv - 1` while the worker is between counting and storing |
| `StreamInvariant`, `GapFreeStreams`, `NothingLost` | `NodeStoreProofs` | `StreamInv`, `StreamGapFree`, `NoEventLost` |
| `FeedImplemented`, `StreamsRewindOnce` | `NodeStreamProofs` | `Spec => ImplementsFeed`, `OneRewind` |
| `LogReplaysToMap`, `EveryEventTells`, `AddressesExact` | `NodeLogProofs` | `LogMatchesMap`, `NoRedundantEvent`, and `IPSetExact` for nodes with an address of their own |
| `ClientTypes`, `StreamsOfAllLives`, `ResumePointNeverFalls` | `NodeSyncProofs` | `SyncTypeOK`, `StreamGapFree` and `ResumePointGrows` of the composition, with restarts |
| `ClientExact`, `ClientSynced` | `NodeSyncProofs` | `ClientAtVersion` and `SyncedWhenQuiet`, for nodes with an address of their own |
| `StoresInvariant`, `StoresTypes`, `EachEventCounts`, `WatchersHaveStore` | `ResourceStoresProofs` | `StoresInv`, `StoresTypeOK`, `NoIdleMessage`, `WatcherHasStore`, for each of the six kinds |
| `FeedsImplemented` | `ResourceStoresProofs` | `Spec => ImplementsFeed`, for each of the six kinds |
| `ControllerTypes`, `LastItemAlwaysDecides`, `DiesOnlyOfDeleted` | `ControllerProofs` | `TypeOK`, `LastItemDecides`, `DiesOfDeletedOnly`, for every kind |
| `StoresAsIfRestarted` | `ControllerProofs` | `StoreAsIfRestarted`, for every kind |
| `TurnsAreAddr` | `IpamProofs` | the turns on which the walk gives an address out meet every address of the pod CIDR but the first two, and nothing else |
| `AddressesInCidr`, `AddressesDistinct`, `FileExactBetweenCalls`, `RefusedOnlyWhenFull` | `IpamProofs` | `TypeOK`, `NoDuplicateAddress`, `FileExact`, `NoneOnlyWhenFull` |
| `FileNamesOwners` | `IpamProofs` | `NamesItsOwn` |
| `CniImplementsIpam` | `IpamProofs` | `CniSpec => Spec`: calls with the mount of the namespace implement `Ipam` |
| `RunningSandboxesConnected` | `IpamProofs` | `Connected` |
| `HostPodsNeverPublished` | `PodStoreProofs` | `HostPodsHidden` |
| `PodTypes`, `RunningPodsNeverMixedUp` | `PodStoreProofs` | `PodTypeOK`, `RunningPodsDistinct` |

**Streams.** That a stream has no gap depends on what is pending, on what is in
the queue, and on how the listing meets the queue, so `StreamGapFree` and
`NoEventLost` are not inductive. `StreamInv` says where each request is in the
history of versions. A queue holds the last versions offered to it, in order
(`QueueIsSuffix`), so `LeftQueue(s)` divides history into what has left the queue
and what waits in it. While a registered request lists, nothing has left the
queue that the listing will not reach (`ListingOK`: `LeftQueue(s) <= smax[s]` -
this is where it matters that the queue is registered before the version is
read). While it sends, all that left the queue is sent or pending, and what is
pending continues what is sent (`SendingOK`). There is one lemma for each step of
a request; `SessionFrame` and `WriterFrame` say that a session only depends on
its own entries and on the worker, so that a step of one request keeps the others
(`SessionsApart`).

**Refinement.** `FeedInv` adds to `StreamInv` that an idle request is not open,
and that a request that has not finished its listing and has no queue has no
start version (`Early`). Each step is then a stutter of `EventFeed`, or its
`Publish` (`StoreNodeEvent`), `Subscribe`, `Deliver` (`SendNode`), `Answer` (the
end of a `ListNode`), `Unsubscribe` or `Stop`.

**One step back.** What is sent, pending and queued is looked at as one sequence
(`Course`). Sending and dequeuing leave it as it is, `EnqueueNode` appends the
next version, and only where the listing ends, two sequences without a jump are
put together. `CourseOK` says that the jump is either past or still possible,
and in the former case that the course ends with the last version offered.

**Log and map.** `MapInv` says in which step of `SetNode` and `DeleteNode` the map
is ahead of the log (a set) or behind it (a delete), and that they differ at the
node at hand only. `LastOfAppend` is the lemma about logs: an event at the end
leaves the past as it was and decides its own node. `IPInv` does the same for
`NodeIPMap`.

**Client and server.** Each step of `NodeSync` is a step of `NodeStore` or a
restart (`ServerMoves`), and a server just started satisfies `StreamInv`
whichever requests are over (`RestartKeeps`), so all of `NodeStoreProofs` carries
over to every life of the server. Messages are then events of the log, and the
client takes a larger version only.

**What the client has.** `View` says of each address that the client has what the
latest event up to the last message leaves, or, where the stream went back, what
an earlier event left and the latest one is still to come. It is kept because a
stream makes no leap: no message is more than one version ahead of the one before
(`PathInv`). `ClientAtVersion` and `SyncedWhenQuiet` then follow from `LogInv`,
which says what the log amounts to. The hypothesis `FixedAddresses` (a node keeps
an address of its own) is needed: the client keeps nodes by address, and the event
that moves a node carries only the new one.

**The other stores.** `WorkerInv` and `LogInv` say how the log and the map differ in
the middle of an operation, and that of each object the last event tells what the
map has (`Leads`) and every event something other than the one before (`SaysNew`).
`Streams` describes all messages of a request by two numbers: a listing from the
version asked for up to `m`, and then the queue from `c + 1` on, with `c <= m`. So a
watcher that has been sent everything has, of each object, a last message that is
about its last event (`EndsWith`), whatever was repeated between `c` and `m`.

**Items.** `Decided(k)` says where the state of an object is on its way from
the informer to the datastore: in the last waiting item, else in the item at
hand, else in what was handled last. It is needed for every position in the
queue and not only for the last, since taking an item uncovers the next. For
`DiesOfDeletedOnly`, `LookupInv` adds that where an object was looked up and not
found its delete still waits.

**As if restarted.** The map is compared key by key (`MadeAt`). A set item runs the
same operations on the map that a restarted process runs on an empty one, and
`Agree` is what the two have in common under a key after each operation: nothing
has been done yet, or they have the same, or a rule was left as it was since its
service is the same - which `~drift` excludes. A delete item removes what the object
last handled had put there (`DeleteUnsets`). For RdmaIngresses, whose items carry the
object, this needs `UndoInv`: the object in a delete item is the one that was told
of before it, in the queue, in hand or in the datastore (`ToldBefore`). A dropped
tombstone does not break it, as the object is then told of again before it can be
deleted again.

**The walk.** `Inc` carries, `Walk` is a recursive function and `Turn` a set of
turns, so what the walk meets takes induction. The induction theorems of the
library have an operator as a parameter, which no prover here can instantiate;
`Least` and `InductionUpTo` get induction over sets from its well-founded orders
instead, and that is enough: the walk stays inside the CIDR up to some turn, every
address inside it is the successor of one (`Before` orders them), and so each but the
first two is met. The solution of the recursion itself is shown to exist by the
same induction, as is that of `ApplyAll` for lists of operations.

**Addresses.** `HonestInv` strengthens `NamesItsOwn` by the buffers: what a call
has read and not yet written names no wrong sandbox either. That is all: nothing
about locks, order or the walk is needed, which is why the property survives
overlaps and kills. `NoDuplicateAddress` and `FileExact` hold until `disturbed`, and
need to know at every step of the one call under way what the file says
(`FileSays`) and what it is going to say (`BufSays`): together `CallsInv`. `Cni`
changes nothing of `Ipam`'s variables beside its steps, so all of this holds of it
(`CniImplementsIpam`); that a sandbox comes to run in `ActivateInterface` only, and
that its file is only removed where it stops, gives `Connected`.

**Pods.** `HostPodsHidden` does not use the filter on `NodeIPMap`. What keeps pods
of the host out is that `Allocated` never has a container for an address outside
the pod CIDR; so the order in which the controllers start, which
`controller.go:63` cares about, does not matter for this. For
`RunningPodsDistinct`, `PluginInv` says that kubelet's calls never disturb `Ipam`, so
that `CallsInv` and `HonestInv` carry over, and `PodInv` that what was reported and
what is published has, or had, the address of its container.

## 6. What is only model-checked, and why

- Liveness (`EveryEventDelivered`, `DeadWatchRemoved`, `ClientCatchesUp`,
  `Settles`, `AddressReturned`, `RunningPodPublished`): fairness and `ENABLED` are
  out of reach of the prover.
- The four runs of section 4, which are counterexamples.
- What the handlers compute of one object (`IPWithPorts`, `RetrieveConfig`), and that
  `Unhandled` and `Tellable` are the inputs their code panics of: the proofs hold
  whatever these operators say, and the runs evaluate them.

## 7. Not modelled

- The Rust pod informer: its body is commented out.
- Start-up, command line, logging, the printed result and the iptables rule of
  the plugin: no state of the program, or pure I/O.
- Generated clients, informers, listers and deep copies, and the serialisation and
  the stubs of the gRPC code. Its messages are mapped, to those of
  `ResourceStores`.
- What a failed call of the plugin leaves outside the program's files: a pair of
  interfaces on the host, and a namespace that `ip netns delete`, whose error is
  not looked at, did not remove.
- A call of the plugin without a pod name, which returns at once.
- A configuration of the plugin that does not parse.
- The 32 bits of a version on the wire, and the memory of event maps and work
  queues, which only grow. No bounded model reaches either limit.
- Which attributes a message carries: `sendNodeStream` leaves out the subnet and
  the mask that `ListNode` sends. The client reads neither.

## 8. Plan

Done: the node store, its client, every kind of controller, handler, store and
service, the plugin with its files, the pods, and the proofs of section 5. Left:

1. `ClientExact` without `FixedAddresses`, for a property that says what the client
   has of a node whose address has moved.
2. `Controller` with a datastore as its map, as one composition: `StoresInv` and
   `StoreAsIfRestarted` together say what a watcher has of the cluster.
