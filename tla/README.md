# A TLA+ verification of RakSAMP

RakSAMP is a server and a console client for SA-MP, a multiplayer modification
of a driving game. Both are built on a copy of the RakNet 2 networking library
that lives in `src/raknet/`. This directory models the parts of the repository
whose correctness depends on orders of events: what the network does to
datagrams, what two sides of a connection believe of each other, and what the
server's tables and the clients' copies of them say about each other.

Contents: [parts of the system](#the-system), [modules and code](#modules-and-the-code-they-model),
[runs](#runs), [properties and how they could break](#properties-and-the-bugs-that-break-them),
[fairness](#fairness), [proofs](#proofs), [findings](#what-the-models-found),
[abstractions and gaps](#abstractions-and-what-is-not-modelled), [plan](#plan).

To repeat everything, in this directory:

    tlc -workers 2 -config Vehicles.cfg MCVehicles   (any pair of the table below)
    tlapm Roster_proofs.tla

## The system

```
 scripts (Lua) ---- events, functions ----+            window, console, settings
                                          |                       |
 server/src: netgame, RPCs, players, vehicles      client/src: netgame, netrpc, main loop
        playerPool, vehiclePool                    playerInfo, vehiclePool, g_myPlayerID
                |  RPC, Receive                            |  RPC, Receive, Connect
        RakServer : RakPeer                         RakClient : RakPeer
        remoteSystemList, banList                   requestedConnectionList, one slot
                |                                          |
        ReliabilityLayer (one per slot)  <== UDP ==>  ReliabilityLayer
```

Each process has two threads that matter. RakNet's network thread runs
`RakPeer::RunUpdateCycle`: it reads the socket, advances every connection, and
hands packets to the user through a queue. The program's main thread calls
`UpdateNetwork` and `Sleep(5)` in a loop, and handles those packets: the game
tables are its own, with one exception. The network thread answers the server's
queries itself (`SocketLayer.cpp:417`), and on a ping it runs `onNewQuery` of every
script (`query.cpp:47`); what such a script does, it does to the same tables, without a
lock. The main thread in turn reads `remoteSystemList`, which belongs to the
network thread, without a lock.

| Component | State | Operations | Talks to | What is hard | What makes it correct |
|---|---|---|---|---|---|
| **ReliabilityLayer** (`raknet/ReliabilityLayer.cpp`) | send queues, resend list and timer; receive window `hasReceivedPacketQueue`, ordering list, ordering and sequencing indices | `Send`, `Update` (`GenerateDatagram`), `HandleSocketReceiveFromConnectedPlayer` | its twin at the other end, by datagrams | loss, repetition, reordering; acknowledgements lost; 16-bit numbers; give-up times | at most once; order of ordered and sequenced channels; reliable messages arrive; the dead-connection timer |
| **RakPeer connections** (`raknet/RakPeer.cpp`, `rakpeer.h`) | `remoteSystemList` with a `connectMode` per slot, `requestedConnectionList`, ban list | open requests and replies, connection request, acceptance, confirmation, refusal, `CloseConnection`, `Disconnect`, time-outs | ReliabilityLayer; the application, by packets | half-open connections, crossing goodbyes, late open requests, slots used again | one slot per address, agreed arrivals, a goodbye before the next arrival, every attempt ends, slots are freed |
| **Player pool and tables** (`server/src/players.cpp`, `RPCs.cpp`, `netgame.cpp`; `client/src/netrpc.cpp`, `netgame.cpp`) | `playerPool`, `playerCount`; `playerInfo`, `g_myPlayerID`, `iGameInited` | `RPC_ClientJoins`, `addPlayerToPool`, `removePlayerFromPool`, `InitGame`, `ServerJoin`, `ServerQuit` | RakPeer by index (`GetPlayerIDFromIndex`) and by packets | the slot changes hands while a join is handled; RELIABLE calls are not ordered | count covers the pool, own index, own entry, players know each other, joins succeed |
| **Vehicle pool** (`server/src/vehicles.cpp`, `ScrFunctions.cpp`; `client/src/netrpc.cpp`) | `vehiclePool`, `iVehicleCount`; the client's `vehiclePool` | `addStaticVehicle`, `addVehicle`, `removeVehicle`, `SpawnAllVehiclesForPlayer`, `WorldVehicleAdd`, `WorldVehicleRemove` | scripts, on two threads; all connections by broadcast | no lock; fills at the count, removes anywhere; broadcasts to clients that have not joined; a join that sleeps between vehicles | never beyond the pool, count covers, tables agree, as far as scripts' calls do not overlap |
| **Resend list and acknowledgement ranges** (`raknet/DS_BPlusTree.h`, `DS_RangeList.h`, `DS_OrderedList.h`) | a B+ tree of the unacknowledged messages; a sorted list of ranges of numbers to acknowledge | `Insert`, `Delete`, `Get`; `Insert`, `Serialize`, `Deserialize` | ReliabilityLayer | rotating, splitting, borrowing and merging pages; index keys that must follow the leaves; ranges that touch; datagrams with too little room | both are sets; a search finds what is there |
| **Split packets** (`raknet/ReliabilityLayer.cpp` 2067-2308) | `splitPacketId`, `splitPacketChannelList` | `SplitPacket`, `InsertIntoSplitPacketList`, `BuildPacketFromSplitPacketList`, `DeleteOldUnreliableSplitPackets` | ReliabilityLayer | parts that never arrive; parts between those of other messages; ids that wrap | whole messages only, in their place, none stranded |
| **User and network thread queues** (`raknet/SingleProducerConsumer.h`) | a ring of cells, four pointers | `WriteLock`, `WriteUnlock`, `ReadLock`, `CancelReadLock`, `ReadUnlock`, `Clear` | RakPeer's `bufferedCommands`, `requestedConnectionList` and packets | two threads without a lock | a queue that may be looked ahead in; memory is used again |
| Client session (`client/src/main.cpp`, `cmds.cpp`, `netgame.cpp`) | `iConnectionRequested`, `iAreWeConnected`, `iGameInited`, `iSpawned` | main loop, `resetPools`, `sampConnect` | RakClient | state of an old session in a new one | planned |
| Route playback (`client/src/vehplayer.cpp`) | `rec_state` and files | `vehplayer` loop | the client's sync packets | states left by disconnects | planned |
| Scripts, chat, spawning, query port, window, bit streams, encryption, sockets, vendored libraries | | | | | see [gaps](#abstractions-and-what-is-not-modelled) |

`PROJECT.json` lists every component with its sources, and under `hazards` the
places of this code that tests would hardly reach, with the properties that
watch them.

## Modules and the code they model

Every definition's source lines are in `PROJECT.json` under `map`.

| Module | Models |
|---|---|
| `SerialNumbers` | The comparisons of wrapping counters: hole counts of the receive window, `IsOlderOrderedPacket`. |
| `MessageChannel` | Abstract: what `PacketPriority.h` promises about messages from one side to the other. |
| `ReliabilityLayer` | One direction of one connection in detail. Implements `MessageChannel`. |
| `RangeList` | The ranges of acknowledgements, as operators on sequences. |
| `BPlusTree` | The B+ tree, as operators on nested pages. |
| `ResendSets` | Abstract: two sets of message numbers that wrap, a datagram between them, and what must hold of the messages behind the numbers. |
| `ResendTree` | The resend list and the acknowledgement list, driven by transmissions and acknowledgements. Uses `BPlusTree` and `RangeList`, implements `ResendSets`. |
| `SplitPackets` | Long messages and their parts. Implements `MessageChannel` for whole messages. |
| `LookaheadQueue` | Abstract: a queue whose consumer may look ahead, mark what it saw, and go back. |
| `SingleProducerConsumer` | The ring of cells between two threads, one memory access at a time. Implements `LookaheadQueue`. |
| `SlotLifecycle` | Abstract: what an application may rely on about the indices it is told of. |
| `Connection` | The connection handshake and its end, between client addresses and one server. Implements `SlotLifecycle`. |
| `Roster` | The game's player tables, over slots that come and go. |
| `Vehicles` | The game's vehicle tables, over clients that connect and join. |
| `MC...` | Instances for TLC: model values, sets, symmetry. |
| `..._proofs` | Theorems and their proofs. |

The models are stacked by assumption, not by composition in one state space:
each uses of the one below what that one shows. `Connection` takes its
connected messages to arrive at most once, in any order, until one side is
gone, which is what `ReliabilityLayer` gives RELIABLE messages. `SplitPackets`
takes parts to arrive in the same way, below the whole messages that
`ReliabilityLayer` delivers; `ReliabilityLayer` takes the resend list and the
acknowledgements to be sets, which `ResendTree` shows; both sides of
`Connection` and `Roster` take the queue between the threads to be a sequence,
which `SingleProducerConsumer` shows. `Roster` takes
slots to be assigned first free first and reports to come in the order of
`SlotLifecycle`. `Vehicles` takes one connection per client.

### ReliabilityLayer

A message is known by its position among all `Send` calls; its header has only
the wrapped numbers computed from it (`Number`, `index`). Variables carry the
names of the class's members. `Send` is `Send`; `Update` is `DeclareDead`
(the test at its top) followed by what `GenerateDatagram` may put into a
datagram: `Resend`, `Transmit`, `SendAcks`. One receive is `ReceiveAck` or
`ReceiveMessage`, the latter with every effect of the handler: the
acknowledgement, duplicate test, window move, and delivery of the message and
of all it releases. The receive window is `base` and the sequence
`hasReceived`, in which 0 means received and any other value is the time until
which a missing message is waited for. `Lose` and `Tick` are the network and
the clock. The priorities, the bandwidth limit and the resend times decide
when a message is sent and so are left open.

### ResendTree, BPlusTree, RangeList

A page of the tree is a record of its keys and children, so a tree is one
value. The operators have the names of the member functions; a `ReturnAction`
is part of the result they return. `ResendTree` gives them the work the
reliability layer gives them: `Transmit` inserts the next numbers, which wrap,
`Receive` puts a number into the receiver's range list, as often as the message
arrives, `SendAcks` serialises what fits into a datagram and clears it,
whether or not that datagram arrives, and `ReceiveAcks` deletes each number of
each range, again when the datagram is repeated. A late duplicate of a message
that was acknowledged is represented by the repeated datagram of
acknowledgements: both lead to the deletion of numbers that are not there.

### SplitPackets

A part is `<<message, index>>`. `Send` cuts a message as `SplitPacket` does:
`CountOf`, `PartBytes` and `PartBits` are its arithmetic. `ReceivePart` is the
handler from the point at which the part is known not to be a duplicate:
`DeleteOldUnreliableSplitPackets`, the test for an older sequenced message,
`InsertIntoSplitPacketList`, `BuildPacketFromSplitPacketList`, and the delivery
of the whole message. `Lose` is a part that never comes: an unreliable one that
is lost, or one the receiver gave up on. `GrowOld` is the passing of ten
seconds. `IdIsFree` is the assumption that makes a 16-bit id enough: when an id
is used again no part of the message that had it before is on its way or kept.
The code does not see to it, and without it TLC mixes parts of two messages.

### SingleProducerConsumer

A cell is a `DataPlusPtr`. Each action is one access to memory the other thread
can see, in program order, which is what the volatile members and the
processors of the game's platforms provide for the pointers and flags; the
object itself is not volatile, and that its assignment comes before the flag is
an assumption. `LookAtReader`, `LookAtFlag`, `AddCell`, `LinkCell`, `WriteLock`
are the steps of `WriteLock`; `SetReady` and `WriteUnlock` those of
`WriteUnlock`; `BeginReadUnlock` and `ReadUnlock` those of `ReadUnlock`. The
reader is RakPeer's: it takes the first item, or scans all of
`requestedConnectionList`, turns a request in the middle into a hole, and
cancels back to the first. `new DataPlusPtr` sets no member, so a new cell's flag
is either.

### Connection

A peer is one attempt's address (`RakClient::Connect` opens a new socket each
time). `offline` holds the one-datagram messages before a connection, which may
be lost, repeated and late for ever; `toServer` and `toClient` hold the
messages of an established reliability layer. `ServerStep` and `ClientStep`
have an action per packet handled and per reason for which `RunUpdateCycle`
drops a slot. `ServerDrops` leaves the slot's address and mode behind, as the
code does: `CloseConnectionInternal` clears `isActive` only. `holding` says that the
slot's reliability layer keeps something that is not waited for by anybody:
`orderingList`, once it was used, or parts of a message that stays incomplete.
`IsFinished` is the test of `RunUpdateCycle`, `IsDataWaiting` included.

### Roster

The network thread's part of an arrival is `Connect` and `ServerReceives`, of a
departure `Leave`. The main thread's part is `BeginJoin` (`RPC_ClientJoins` up
to the calls of the scripts, after which the network thread may have moved on),
`FinishJoin` (the rest: `addPlayerToPool`, `InitGameForPlayer`,
`SendPlayerPoolToPlayer`) and `HandleGone` (`removePlayerFromPool`).
`ClientReceives` handles one call. `InOrder` says whether RELIABLE calls happen
to arrive in the order they were sent.

### Vehicles

Scripts run on both threads: on the main thread from the packet handlers, on the
network thread from queries. A call of a vehicle function is therefore a sequence of
steps, in which `script[t]` says where thread `t` is. `AddStaticVehicle`,
`CreateVehicle` and `RemoveVehicle` are the test at the beginning; `Fill` the stores into the
entry; `Announce` the broadcast, which reaches each connection, joined or not (`Hearers`);
`Clear` the stores of `removeVehicle`; `LoadCount` and `StoreCount` the two halves of
`iVehicleCount++` or `--`. `RemoveVehicle` takes any number, as the code does:
what lies beyond the pool may look like a vehicle.

A join is `BeginJoin` (`InitGameForPlayer`), then for each entry `SkipVehicle`, or
`CopyVehicle` and `SpawnVehicle` with the sleep after it, then `FinishJoin`. The
main thread runs no script meanwhile; the network thread may.

Two history variables say how far the scripts have gone. `unsafe` is set by a
call that begins while the other thread is in one, and by one about an entry the pool
does not have: the code survives neither, and scripts make no further calls in the model
(`MayCall`, a bound). All three properties are about states before that. `raced[c]` holds
the entries that a script was changing while the join was telling `c` of them, up to their
next announcement.

## Runs

| Run | Config and module | Question | Bounds and why they are enough |
|---|---|---|---|
| `reliability` | `ReliabilityLayer.cfg`, `MCReliabilityLayer` | Does the layer keep the promise of `PacketPriority.h`, and hold nothing back it could deliver, on a channel that mixes ordered, reliable sequenced and unreliable sequenced messages? | 3 messages: two that overtake and one that releases or is overtaken. `Timeout` 0 and two instants: every gap may be given up. Numbers do not wrap. |
| `reliability_live` | `ReliabilityLayerLive.cfg` | Within the give-up time, is what is acknowledged delivered, is each message delivered once, and does every message arrive and every resend end? Are comparisons of wrapped numbers exact? | 2 messages, ordered and unordered, over a network that loses and repeats. `Timeout` 1 and two instants: nothing expires. Comparisons: all pairs up to 6 apart, in one turn of a 4-bit counter. |
| `reliability_wrap` | `ReliabilityLayerWrap.cfg` | Is an ordered channel still delivered in order when its numbers wrap, and does the receiver stay less than half a turn behind the sender, which the comparisons of wrapped numbers need? | `NumberRange` 6 and 7 messages: both counters wrap. `MaxAge` 2 keeps a third of the range in use. |
| `connection` | `Connection.cfg`, `MCConnection` | Does an address have one slot, and is an index handed on only after a goodbye? | 2 peers, 2 slots: two slots for one address are possible, and a slot's second user. One open request suffices, as datagrams repeat for ever. |
| `connection_live` | `ConnectionLive.cfg` | Are players announced after both sides agree, does every attempt end, are slots freed? | 2 peers, one without the password, 1 slot: refusal, expiry and contention for the slot. |
| `connection_kick` | `ConnectionKick.cfg` | (violated) Does the slot of a kicked player become free? | 2 peers, one without the password, 1 slot |
| `roster_in_order` | `RosterInOrder.cfg`, `MCRoster` | With calls in order: does the count cover the pool, is a client's index its own, do clients keep their own entry, learn of each other, and get into the game? | 3 clients, 2 slots: a slot's second user while the other slot is in use, and a pool entry beyond both. |
| `roster_pool` | `RosterPool.cfg` | (violated) Does the pool hold every player in the game? | the same |
| `vehicles` | `Vehicles.cfg`, `MCVehicles` | While calls do not overlap and name entries of the pool: does every store stay inside the pool, does the count cover it, and does the client's table agree with it, whatever the network thread does between the steps of a join? | 2 entries and the number beyond them, 2 models, 1 client, 3 calls on their way: a full pool, a vehicle overwritten while another exists, an entry removed, replaced or filled between any two steps of the join. Clients share nothing but the broadcasts and the one join at a time. 1.5 million states; a third entry or a second client is beyond five minutes, and left to the proofs. |
| `resend_tree` | `ResendTree.cfg`, `ResendTree` | Are the resend list and the acknowledgement list sets, and does the tree stay valid, whatever the network does to the acknowledgements? | Order 4 (32 in the code: the branches depend on full, half full and excess only), up to 21 unacknowledged messages in bursts of 3: three levels, rotations both ways, borrowing and merging of leaves and of index pages. 27 numbers for 30 transmissions: they wrap. A datagram has room for one range. |
| `split` | `SplitPackets.cfg`, `MCSplitPackets` | Does the user read whole messages only, in their place, and is none stranded? | 3 messages of one, two or three parts on one channel, at most 6 parts together, ordered, reliable sequenced or unreliable (which stand for what the receiver treats differently: order, overtaking, expiry); an id range of 2: an id is used again, and two messages are collected at a time. |
| `queue` | `SingleProducerConsumer.cfg`, `MCSingleProducerConsumer` | Do two threads without a lock have a queue between them? | A ring of at least 3 cells that may grow to 6, 2 items, 4 waiting at a time: the writer meets the reader, a new cell is added before one with either flag, the ring shrinks again. |

The bounds in the guards are named constants: `MaxMessages`, `MaxParts`,
`MaxTime`, `MaxAge` (with `IsFresh`: the condition under which 16-bit numbers may be used
at all, stated in `InternalPacket.h`), `MaxRequests` (6 in the code),
`MaxCalls`, and `MayCall` of `Vehicles`. Every `.cfg` turns deadlock checking off: a bounded number of sends,
attempts or clients runs out, and then the system rightly stops.

Symmetry is used in `vehicles`, which checks invariants only and only carries
the models, and in `queue`, for the cells, which are told apart only by their links, and the
items, which are only carried. What `queue` checks of a behaviour is a
property of its steps, so symmetry is sound for it.

That calls may come in any order is left to the proofs of `Roster`: `TypeCorrect`,
`CountNeverShort` and `OwnIndex` hold for both values of `InOrder`.

## Properties, and the bugs that break them

An operator `X_mutant` is `X` with a plausible bug. Nothing uses it; replacing
the body of `X` by it makes TLC refute the property in its run.

| Run | Property | Broken by | The bug |
|---|---|---|---|
| `reliability` | `SequencedDelivery` | `DeliverSequenced_mutant` | the test for an older packet is missing |
| | `NoneLeftWaiting`, `DeliveryInv` | `Released_mutant` | a closed gap releases one waiting message instead of the run of them |
| | `AckTimerRuns` | `AfterAck_mutant` | the timer is restarted though nothing is waited for |
| | `ImplementsPromise` | `DeliverOrdered_mutant` | ordered messages are delivered as they come |
| `reliability_live` | `AckedMeansDelivered` | `Marked_mutant` | skipped numbers are marked as received |
| | `NoDuplicateDelivery` | `IsDuplicate_mutant` | only numbers behind the window count as duplicates |
| | `OlderIsExact` | `IsOlderOrderedPacket_mutant` | one branch without the wrapped half |
| | `HoleCountIsExact` | `IsBehind_mutant` | a quarter of the range for a half |
| | `EventuallyDelivered` | `Resend_mutant` | no resends |
| | `EventuallyAcked` | `AcknowledgementsAfter_mutant` | duplicates are not acknowledged again |
| `reliability_wrap` | `InStep` | `MoveWindow_mutant` | the window's base wraps at the largest number instead of the range |
| | `OrderedDelivery` | `DeliverOrdered_mutant` | as above |
| `connection` | `TypeOK` | `AssignSlot_mutant` | the address of the slot is not set |
| | `OneSlotPerPeer` | `IsKnown_mutant` | half-open slots are not found |
| | `ImplementsLifecycle` | `Goodbye_mutant` | only lost connections are reported |
| `connection_live` | `ArrivalsAreAgreed` | `IsAllowed_mutant` | the password is not compared |
| | `AttemptEnds`, `SlotsAreFreed` | `MayExpire_mutant` | only one mode of the handshake expires |
| `roster_in_order` | `TypeOK` | `IsInPool_mutant` | an empty entry is removed |
| | `CountCovers` | `AddPlayerToPool_mutant` | the count is not raised |
| | `MyIndexIsMine` | `WelcomeIndex_mutant` | the count is sent for the index |
| | `OwnEntryIntact` | `QuitHearers_mutant` | the player at the index is told as well |
| | `FirstKnowsSecond` | `JoinCalls_mutant` | the pool's entry is announced for the index |
| | `EntersGame` | `IsWelcome_mutant` | a name in the pool keeps its index from joining |
| `vehicles` | `InsidePool` | `HasRoom_mutant` | off by one at the limit |
| | `CountCovers` | `DoesVehicleExist_mutant` | a vehicle that does not exist is removed |
| | `VehiclesAgree` | `Hearers_mutant` | a broadcast goes to players in the game only, and misses one whose join has passed the entry |
| `resend_tree` | `ResendListIsValid` | `Stay_mutant` | a page keeps one key too few when it splits |
| | `SearchFindsAll` | `BorrowRight_mutant` | the parent's key is not replaced when an index page borrows |
| | `NothingIsForgotten` | `InsertBefore_mutant` | any smaller number extends the range |
| | `ImplementsSets` | `Kept_mutant` | one range too many is cleared |
| `split` | `TypeOK` | `NextId_mutant` | the id does not wrap |
| | `WholeMessages` | `IsComplete_mutant` | one part too few is enough |
| | `NothingIsStranded` | `IsExpired_mutant` | old parts of reliable messages are thrown away as well |
| | `KeepsPromise` | `IsOlder_mutant` | the test for an older packet is missing |
| `queue` | `RingIsWhole`, `NoCellIsShared` | `IsAtReader_mutant` | the writer looks at the flag only: it fails between the two steps of one `ReadUnlock` |
| | `RingStaysSmall` | `ClearFlag_mutant` | the flag of a cell that was read stays set |
| | `ImplementsQueue` | `IsReadable_mutant` | the reader compares with the writer's other pointer and looks at no flag |

## Fairness

* `ReliabilityLayer`: weak fairness of `Transmit`, `Resend` and `SendAcks`
  because the network thread calls `Update` for every slot in every cycle, and
  strong fairness of the receipt of a datagram, which says that one sent again
  and again gets through. Nothing makes the application send or time pass.
* `Connection`: weak fairness of what each side's own clock and cycle bring
  about: open requests are repeated and given up, handshakes expire, finished
  connections are dropped, and a connection whose other side is gone is found
  dead, as resends go unanswered. Nothing is assumed of the network, so an
  attempt ends although every datagram is lost. One thing is assumed of the
  application: that its sends leave pauses. A cycle that carries out a
  deferred send looks at none of these timers, since `timeMS` stays 0 in it
  (`RakPeer.cpp:4350`).
* `Roster`: weak fairness of the main thread's handlers (`UpdateNetwork` is
  called every 5 ms) and of deliveries, which is what `EventuallyDelivered`
  says. Nothing makes a client connect or leave.

## Proofs

TLAPS checks the following for every value of the constants that the modules'
`ASSUME`s admit.

**`ReliabilityLayer_proofs`.** `Delivery` proves `DeliveryInv`, which is
inductive while no number wraps (`NoWrap`: fewer messages than half the number
range; for the wrapped case see `ReliabilityWrap_proofs`). None of the three
delivery properties is inductive by itself: that a message is not delivered
twice depends on the window's record of it (`WindowInv`: what was delivered or
waits is received or behind the base); that an ordered message is the next one
depends on the indices (`IndexInv`: within a stream they grow with the
messages) and on the read index splitting delivered from undelivered messages
(`OrderInv`); sequenced messages need the same of theirs (`SequenceInv`). The
central lemmas are `WindowStep` (how a message moves the window, whatever was
given up), `ReleasedProperties` and `ReleasedBatch` (what a closed gap
releases) and one lemma per kind of delivery. `Types`, `NoDuplicates`,
`Ordered` and `Sequenced` follow. `Refinement` proves that the layer implements
`MessageChannel`: a step that changes `delivered` extends it and keeps the
contract. `AckTimer` needs no assumption on numbers.

`NoneWaiting` follows from `OrderInv`: what waits is ahead of the read index.
`Acknowledged` proves a second invariant, `AckInv`: what is acknowledged, and
what the sender forgot, the window has recorded. That is not yet
`AckedMeansDelivered`, because the window also records what it has given up.
`AckedUnlessGivenUp` adds `TakenInv` (what is recorded was delivered or waits,
or, on a sequenced channel, was passed by), which holds as long as no skipped number is overdue (`NothingOverdue`); that is
a condition on the behaviour, stated as `Spec /\ []NothingOverdue => ...`, since
without it the property is false (see [below](#what-the-models-found)). `Acked` has it from the clock
instead (`NoGiveUp`, which is the setting of `reliability_live`). `OlderExact` and
`HoleCountExact` are the arithmetic of the wrapping numbers for every even
range and counts on either side of a wrap; `OlderIsAlwaysExact` and
`HoleCountIsAlwaysExact` are the properties of the run.

`NoWrap` cannot simply be dropped from the delivery theorems. An unreliable
message that is lost, or an ordered one that is given up, leaves its number
unread for good, and a message half a range later is taken for an old one.

**`ReliabilityWrap_proofs`.** The same promises for any number of messages, so
for connections on which every counter wraps again and again. Behind a wrapped
number stands a count: `TrueIndex` is how many ordered (or sequenced) messages
of the channel came before, `TrueBase` the last count before the sender's that
has the number in `base`, and so on for the read positions. `Big` is the layer
over these counts, with a counter too wide to wrap. `Linked` and `CountInv` say
that the wrapped numbers are the counts' remainders and that a channel's
indices have no gap; `WrapInv` adds `DeliveryInv` of `Big`. `StepMaps` shows
that every step of the wrapping layer is a step of the wide one, so that the
lemmas of `ReliabilityLayer_proofs` are used a second time and not proved a
second time. `SendAcks` alone is different: it sends the lowest numbers first,
and these need not be those of the lowest counts.

The argument needs two things. `FewInUse` is the constant's half of the
condition in `InternalPacket.h`: the sender keeps fewer messages than half the
range, one less when there are sequenced streams (`IsOlderOrderedPacket` needs
the room). `InStep` is the receiver's half: it is less
than half a turn behind. `InStepDelivery`, `InStepNoDuplicates`,
`InStepOrdered`, `InStepSequenced`, `InStepNoneWaiting` and `InStepRefinement`
have the form `Spec /\ []InStep => ...`, for all mixtures of streams. That
`InStep` is a hypothesis there is due to the code, which does not ensure it: with
unreliable sequenced messages TLC finds it violated, when half a turn of them
is lost.

Where every message is reliable (`AllReliable`), `InStepUnlessGivenUp` proves
`InStep` itself, again under `[]NothingOverdue`: what the receiver waits for
the sender still keeps (`AckInv` of `Big`), what the sender keeps is fresh, and
what is recorded was taken (`TakenInv` of `Big`), so neither the window nor an
index can be further behind than the oldest message in use. `HeadOpen`, that the
window starts at a number that is missing, is what ties `base` to that message.
`WrapAckedUnlessGivenUp` is `AckedMeansDelivered` with wrapped numbers.
`AlwaysInStep`, `WrapOrdered` and `WrapRefinement` replace the condition on the
behaviour by `NoGiveUp` and so are of the form `Spec => ...`; the instance of
`reliability_wrap` meets their assumptions, and TLC evaluated `StepInv` in all
of its states before it was proved.

**`Acknowledgement_proofs`.** About `RangeList`, `InsertExact`: for every list that can be searched and
every number, `Insert` returns a list that can be searched and stands for the
old set and that number. The argument is by the cases of the code: `Found`
says where the binary search ends, and each branch changes one range next to
that place, so the ranges on either side keep their order. `SerializeExact`:
what is written and what is kept divide the list's set. `SerializeMoves`: with
room for one range at least one is written. None of them bounds the list, the
numbers or the datagram.

About `ResendSets`, `NeverForgotten`: over sets, for every size of the number
range and every number of new messages at a time, what has not been received can be
resent, and no acknowledgement, late or repeated, is of a message that took its
number over. The invariant adds only that the sets hold numbers. The work is the
arithmetic of the wrap: among the last turn of messages each is the current one
of its number (`LastTurnIsCurrent`), so a number that is not given away stays with its
message (`CurrentStays`). It rests on the condition of `Transmit`, that a number
is not given away while it is unacknowledged, to be acknowledged or under way; the
code relies on this and does not test it, 65536 numbers being more than are
in use.

`InsertImplementsReceive` and `SerializeImplementsSendAcks` join the two: over
the set a range list stands for, `Insert` is the step `Receive` of `ResendSets`
and `Serialize` its step `SendAcks`. That the tree is a set as well, and so
`ImplementsSets` as a whole, is TLC's.

**`Connection_proofs`.** `ConnectionInvariant` proves `ConnectionInv`.
`OneSlotPerPeer` is nearly inductive (`Unambiguous`). The other two need to know
what a slot's mode says of the other side: `HandshakeInv`, a handshake is only
in progress with a peer that gave the password and whose connection request has
been used up; `ClientInv`, a client says that it is connected only after its
application heard so; `PresentInv`, the player the application takes to be at
an index is the one in the slot, whose mode is one of those that
`ReportedModes` lists: its end will be reported. A second connection request
would put a slot of a known player back to the handshake and lose its goodbye;
that it cannot come is why `Requested` is part of the invariant. `Types`,
`OneSlot` and `Arrivals` follow. `Refinement` proves that `Connection`
implements `SlotLifecycle`: the welcome is an arrival, dropping a slot whose
mode is reported is a departure, everything else leaves `notices` alone. There
is one lemma per action, over a few about what actions of one kind leave
(`QuietStep`, `AssignStep`, `WelcomeStep`, `DropStep`).

**`Roster_proofs`.** `RosterInvariant` proves `RosterInv`: types, the count, and
four facts about slots. `SlotsAgree` is the heart: the client in an active slot
plays, believes the slot's index, and has no `InitGame` with another index in
its mail. `FinishJoin` addresses whoever `GetPlayerIDFromIndex` finds, by then
perhaps the next client, or the last one of a slot that is free
(`LastUserLeft`): either way the index in the call is the receiver's own.
`TypeCorrect` needs `CountCovers`, because the decrement in
`removePlayerFromPool` would otherwise leave `Nat`; `CountCovers` holds because
a join that overwrites an entry counts it anyway and a leave uncounts only an
entry that was full. `OwnIndex` is `MyIndexIsMine`. `OwnEntry` is
`OwnEntryIntact` for calls in order, from a second invariant, `OwnInv`: what is
in a client's mail about its own index stands before `InitGame`, and the client
is not in the game yet, so it drops it (`DropsNews`); once `InitGame` has been
sent, the connection is confirmed, which keeps `removePlayerFromPool` from
telling the client of the end of an earlier one, and the join being handled is
not that of an earlier client at the index (`NoOtherJoins`). This holds because
one join is finished before the next begins, and because the answer to a join
goes to whoever is in the slot by then.

`FirstKnows` is `FirstKnowsSecond` for calls in order. It needs to know that
each player's join happens once: `JoinInv` says in which single place a join is
(not sent, in the mail to the server, received, being handled, done), that the
ends of earlier connections at the index are handled before it, and that the
player is told to begin when it is done. Over that, `KnowInv`: of two players
whose joins are done, one knows the other, where `Knows` means that the news is in the
client's table, or in its mail with nothing later about that index and nothing
before it that would drop it. Which of the two it is changes with neither of
them acting, when one leaves and another takes the index; the invariant therefore speaks
of slots and not of the order of joins.

**`Vehicles_proofs`.** Everything is stated for `~unsafe`, that is up to the first
call that overlaps another or names an entry beyond the pool; up to there it
holds for any clients, models and size of the pool, and for every
interleaving of calls, on either thread, with the steps of a join.
`VehiclesInvariant` proves `VehiclesInv`, types and
`CallInv` together: one thread at most is in a call (`OthersIdle`), the count stands still
while it is, so that the entry it tested is the one it fills (`CallOK`), and the vehicles are
at most the count, one more once an entry is filled and not counted, one less
once one is cleared and not counted. The last is what keeps a removal from taking
the count below zero. `StaysInside` is `InsidePool`, `CountNeverShort` is
`CountCovers`.

`MailInvariant` proves `MailInv`: take a client, and an entry that something was said of
(`IsSaid`: not static, nor just filled and not announced yet); what the entry will be once the client
has handled its mail (`EndsWith`: what the last call about it that counts says, or
the client's table if there is none) is what was said last, which is what the server
has unless a removal was announced and not done (`Said`). If the join has not come to the entry, it
may be nothing; if a script was changing the entry between the join's look and its RPC,
it may be another vehicle, but it is one. The
copy that the join holds is the entry itself as long as no script has come between
(`CopyInv`). A client that has not begun to join has an empty table and no `InitGame` in its mail,
and what precedes `InitGame` in the mail of one that has does not count
(`BegunInv`). With no mail left this is `VehiclesAgree`, which `Agreement` states.

**`SplitPackets_proofs`.** For all lengths of messages, sizes of parts, ranges of
the id and orders of arrival. `CountFacts` and `PartsFacts` are the
arithmetic of `SplitPacket`. `IInv` has five parts, none of which is inductive
alone. `Numbered`: the messages counted together have the indices from zero on.
`TransportInv`: what is collected under an id is of one message and not complete;
this rests on `IdIsFree`, the condition of `Send`. `QueueInv`: what was
delivered is whole and in its place, what waits is ahead of the read index, and
the read index splits delivered from undelivered. `TakenInv`: of a message that was
handed on, no part is left, without which it could be completed a second time.
`ReliableInv`: every part of a reliable message is on its way, lost or
collected, so `DeleteOldUnreliableSplitPackets` deletes none of them. The central lemma is
`ReceiveFacts`: a part is ignored, or collected, or completes its message.
`TypeCorrect`, `OnlyWholeMessages` and `NoneIsStranded` follow, and `Refinement`: handing
a message on, with all it releases, is one step of `MessageChannel`.

**`SingleProducerConsumer_proofs`.** For all numbers of cells and of waiting items, all contents of
new memory and all interleavings of the two threads. The model's properties
walk along the links; the invariant numbers the cells instead: `IInv` says that
there are `cell`, `N`, `w` and `ahead` such that `cell` enumerates the `N` cells
from `readPointer` on (`Enumerated`), every pointer and everything held has
its number in the order held, `w`, `ahead` (`Placed`), each cell links to the
next but the one that is being added (`Linked`), what lies behind the writer
was assigned and a flag ahead of it is garbage (`Filled`), and there is a reason
for every cell above the least (`Small`). Most steps keep the numbers.
`ReadUnlock` turns them by one, `AddCell` puts a cell in, `Clear` takes some
out, and there the work is. `WalkFinds` ties the walk to the numbers. `AlwaysWhole`,
`NeverShared` and `StaysSmall` are the properties of the run; that the writer
looks at `readPointer` before the flag is what `LookAtReaderKeeps` and
`LookAtFlagKeeps` rest on. `Refinement`: `WriteUnlock`, `ReadLock`,
`CancelReadLock`, `MakeHole` and `ReadUnlock` are the steps of
`LookaheadQueue`; no other access to memory can be seen. The theorem holds of the model's memory, in
which accesses happen in program order.

The invariants that the prover needs were checked by TLC first, on the instances
of the runs.

Only model-checked: liveness and anything under fairness, which the prover does
not handle; everything about `BPlusTree` and `ResendTree`, whose pages are nested to any depth and
whose operators are RECURSIVE: what they compute is shown by induction over data,
which is out of the prover's reach, as are such operators themselves. The two
violations are TLC's.

## What the models found

Two runs end in a counterexample and are recorded under `findings`.

1. `connection_kick`. `IsDataWaiting` asks whether `orderingList` is empty. That is
   the list of the channels' lists; it gets an entry per channel with the first
   message that comes out of order and never loses one. A player who is kicked
   after that is in DISCONNECT_ASAP for ever: the slot is not freed, nobody is
   told, and nothing is sent that could go unanswered. The same happens with a
   part left in `splitPacketChannelList`.
2. `roster_pool`. `addPlayerToPool` writes `playerPool[playerCount]`,
   `removePlayerFromPool` clears `playerPool[index]`. After a leave that was not
   the last arrival, players are overwritten or left behind.

Also seen on the way, and not runs of their own:

* A receiver gives a missing message up after the timeout and moves its window
  on. When the resend comes after all, it is acknowledged and then deleted as a
  duplicate (`ReliabilityLayer.cpp:454`, `:482`): the sender is content with a
  RELIABLE message nobody received, and an ordered channel waits for it for
  ever. Both sides use the same timeout, but the receiver's starts when the gap
  is seen and the sender's starts anew with every acknowledgement.
* A client that disconnects just after the open reply sends a RELIABLE
  connection request and a RELIABLE_ORDERED goodbye. The goodbye may come first,
  and the server bans the address for nonsense (`RakPeer.cpp:4633`).
* `ClientJoin` is not ordered after the message that confirms the connection.
  Overtaking it, it is dropped as that of a bot (`RPCs.cpp:137`), and nothing
  repeats it.
* In a cycle that carries out a deferred send, `timeMS` stays 0
  (`RakPeer.cpp:4350`): no open request is repeated or given up, no handshake
  expires and no keep-alive is sent. A server whose scripts send in every cycle
  never expires a half-open slot.
* `new DataPlusPtr` leaves `readyToRead` as the memory was. Where it is set, each
  write finds that cell full and adds one before it: the memory of the items
  read is never used again (`HasStaleFlag` in `SingleProducerConsumer`).
* A part that fills its block loses the odd bits of a last byte
  (`ReliabilityLayer.cpp:2138`): a message whose bytes are a multiple of the block
  arrives up to seven bits longer than it was sent.
* `Send` says that a split message might have to be upgraded to reliable
  (`ReliabilityLayer.cpp:908`) and `SplitPacket` that all parts are reliable
  (`:2150`); neither is done, so an unreliable message of many parts is lost with
  any of them.
* The split packet id wraps; parts left over from a message 65536 long ones ago
  are taken for parts of the new one, though the comment at
  `ReliabilityLayer.cpp:2169` says it is ok.
* `playerCount` drifts upwards: A and B join, A leaves, C joins over B's entry, B
  and C leave, and the count is 1 with nobody there. With every such round it
  grows, and `addPlayerToPool` has no limit.
* `GetPlayerIDFromIndex` returns
  the last player of a free slot, since it tests the mode and not `isActive`
  (`RakPeer.cpp:1454`).
* `ServerJoin` and `WorldVehicleAdd` are lost on a client
  when they overtake `InitGame`.
* `resetPools` clears only the first entry of each
  table (`netgame.cpp:402`: the size of one element).
* `CreateVehicle` returns its
  last argument to the script, not the vehicle (`ScrFunctions.cpp:159`).
* `removeVehicle` followed by `addVehicle` overwrites an existing vehicle, which
  every client then does as well, so that the tables still agree.
* `onNewQuery` of every script runs on RakNet's network thread (`SocketLayer.cpp:417`,
  `query.cpp:35` and `:47`), while the main thread may be in a script or a handler. Without
  the condition `~unsafe`, TLC takes `iVehicleCount` below 0 with valid numbers only: an
  increment is lost between overlapping calls, and later removals are not.
* The join loop sleeps after each vehicle. Without `raced`, TLC finds the client that
  keeps a vehicle that is gone: the join has looked at the entry, `onNewQuery` removes
  and announces it, and the join sends it.
* An RPC from `onNewQuery` makes the network thread a second producer of
  `bufferedCommands`, which is a queue for one (`RakPeer.cpp:3500`; `RakPeer.cpp:5050` says not
  to use multiple threads on the same instance).
* `RemoveVehicle` does not test its number (`ScrFunctions.cpp:164`), and
  `scripts/basic.lua:14` goes one beyond the pool. If something not zero lies there,
  `iVehicleCount` is lowered though no vehicle was removed.

## Abstractions, and what is not modelled

* Datagrams hold one message or one acknowledgement; the parts of a larger one
  are handled one after another.
* Both directions of a connection are alike and share nothing, so one is
  modelled.
* Peers live on different hosts: a ban is of an IP address and is modelled as
  that of the peer.
* Each client process connects once. What a second session inherits from the
  first belongs to the planned `ClientSession`.
* `FinishJoin` is one step although the code sleeps 5 ms between calls: the
  receiver of each call is looked up anew, so calls of one join may be split
  between two clients of one slot. `BeginJoin` and `FinishJoin` are separate so
  that the slot may change hands in between; further splits are planned.
* The pool of `Roster` has an entry for each client that ever connects, as
  `addPlayerToPool` does not test its limit.
* `VehiclesAgree` leaves static vehicles out: `addStaticVehicle` announces
  nothing. It holds for calls in order; out of order no agreement holds. It says
  nothing once calls of scripts have overlapped or gone beyond the pool (`unsafe`):
  what is then overwritten is outside the model.
* In `Vehicles` the stores into one entry are one step, and so is one RPC: that one
  thread reads an entry half filled, or that both send at once, is not modelled. Nor is
  what the two threads do to one Lua state.
* Not modelled: bandwidth, MTU and statistics (they decide when, not what);
  security keys, off; pings, offline queries and cross connections, which the
  game does not use; bit streams, compression, encryption, sockets; chat,
  spawning, scores and the sync packets, which are relayed; the query port's answers,
  which only read (the scripts it runs are in `Vehicles`); window, console and settings; vendored Lua, TinyXML and
  SQLite; RakNet plugins the game does not use.

## Plan

Done, in this order, the most important behaviour first: `ReliabilityLayer` with
`MessageChannel` and the refinement proof; `Connection` with `SlotLifecycle`;
`Roster`; `Vehicles`; then what these take for granted: `RangeList` with its
proofs, `BPlusTree` and `ResendTree`, `SplitPackets`, `SingleProducerConsumer`;
the proofs about `Connection`; the proofs that clients
and server agree on vehicles and that a player keeps its own entry; the
proofs about acknowledgements, players that know each other, split packets, the
queue between the threads, resending with numbers that wrap, and delivery with
numbers that wrap.

Next, extending the models:

1. `ClientSession`: the client's main loop, `resetPools` and the flags that
   survive it, over several connections.
2. `FinishJoin` in steps, one per call; the bound of the player pool.
3. Reordered delivery in `Vehicles`; entering and leaving vehicles; route
   playback.

New properties go into the runs above where the instance fits, to keep the
number of runs small.
