# A TLA+ verification of iosFreeDOS2

iosFreeDOS2 (qxDOS) runs DOSBox as an iOS app: a SwiftUI front end, an Objective-C++
emulator object, a C++ bridge over DOSBox's static state, touch controls, a catalog of
disk images, two DOS programs that copy files to and from the host, and a virtual network
(libslirp, in the repository, behind a connection of its own) for the guest. This directory
holds TLA+ models of its concurrent and stateful parts, the TLC configurations that
check them, and TLAPS proofs of what matters most. Paths are relative to the root of the
repository; `VM` is `qxDOS/Views/EmulatorViewModel.swift`, `EM`
`qxDOS/Bridge/DOSEmulator.mm`, `BR` `dosbox-ios/dosbox_bridge.cpp`; the files of libslirp
are named without their directory, `dosbox-ios/libslirp/`.

## 1. Inventory

Everything of the user interface runs on the main thread, one block of the main queue at
a time. Next to it run the global queue (loading disks, resolving bookmarks, verifying
downloads), URLSession's threads, and one serial queue per `DOSEmulator`, on which
DOSBox's shell runs until it ends. DOSBox itself is a submodule and not in the
repository: what the models say of it is read off its use and marked external.

| Component | State | Operations | Talks to |
|---|---|---|---|
| Engine bridge (BR) | `s_running`, `s_frame_ctx`, the frame callback, the atexit registration; DOSBox's subsystems and its shutdown request | `dosbox_init`, `dosbox_run`, `dosbox_atexit_cleanup`, the key and character injectors | called by EM; calls DOSBox, SDL, and the main queue (`dispatch_sync_f` of the teardown) |
| DOSEmulator (EM) | `_shouldRun`, `_diskData`, `_diskPath`, `s_frame_pending` | `loadDisk:`, `startWithBootDrive:`, the block on `_emulatorQueue`, `frame_callback`, `getDiskData:` | delegate calls to VM through the main queue |
| View model, session (VM) | `isRunning`, `isStarting`, `startCancelled`, `emulator`, `gfxImage`, the save timer | `start`, `cancelStart`, `stop`, `emulatorFrameReady`, `emulatorDidExit`, `saveAllDisks` | makes EM; writes the image files |
| View model, disks and catalog (VM) | paths, bookmarks, `manifestDrives`, boot drive, catalog, states of the downloads, pending and automatic downloads, stored version, `Disks/` | fetch and parse of the catalog, use, download, delete, import, remove, create, attach by default, resolve bookmarks | URLSession, UserDefaults, the file system |
| Touch controls | `activeKeys` of the D-pad, `isPressed` of the buttons, the stick's tap, visibility | drag, press, release, tap, hide | `sendScancode` and the injectors |
| Keyboard | Fn, Alt and Ctrl modes | `sendKey`, `sendScancode` | the injectors |
| File transfer | the two streams of `int_e0_hostio.cpp`; R.COM's and W.COM's handle and byte | INT E0h AH=01h-05h; the copies | DOS, stdio |
| Machine configurations, touch layouts | lists in UserDefaults | add, update, delete, activate | VM, the settings |
| Mouse input, DOSBox configuration file | delayed releases; text | | SDL, DOSBox |
| Network connection (`dosbox-ios/ethernet_slirp_static.cpp`, slirp.c) | the poll set, `registered_fds`, forwarded ports, the timers, the cached name server; the lists of sockets | `Initialize`, `SendPacket`, `GetPackets`, `SetupPortForwards`, `slirp_pollfds_fill`, `slirp_pollfds_poll` | DOSBox's adapter; the host's sockets |
| Interface queues (if.c, mbuf.c, arp_table.c) | the fast and the batch queue, a list per session, the ARP table, the pool of mbufs | `if_output`, `if_start`, `if_encap`, `arp_input`, `m_get` | everything that sends to the guest |
| TCP (tcp_*.c, sbuf.c, socket.c) | a tcpcb with its timers and reassembly queue, a socket with two rings of bytes | `tcp_input`, `tcp_output`, `tcp_timers`, `soread`, `sowrite`, `tcp_connect` | guest and host |
| UDP and ICMP (udp.c, udp6.c, ip_icmp.c, socket.c) | a socket per guest's port or ping, its last destination, its last packet, its expiry | `udp_input`, `sosendto`, `sorecvfrom`, `icmp_input`, `icmp_receive`, errors | guest and host |
| IP (ip_input.c, ip_output.c) | the queues of fragments | `ip_input`, `ip_reass`, `ip_slowtimo`, `ip_output` | the protocols, the interface queues |
| Services (bootp.c, tftp.c, ip6_icmp.c, ndp_table.c, dhcpv6.c) | leases, TFTP sessions, the neighbour table, the advertisement timer | a handler per packet | guest |

What is hard in it, and what has to be true:

* **One DOSBox, many emulators.** Every `start()` makes a new `DOSEmulator` over the same
  static state, on which `dosbox_init` runs on the main thread and `dosbox_run` on the
  emulator's. Correct means: one owner at a time, the callback's unretained context is
  alive, an init builds on a clean state, and each session is announced once.
* **A thread that waits for the main thread, and the other way round.** The teardown of
  GFX is a `dispatch_sync` to the main queue; `exit()` waits on the main thread for
  `s_running`. Correct means: `exit()` ends, and the teardown is always awaited.
* **Starts, cancels and late loads.** The view has flags of its own, which loaders read
  from other threads. Correct means: the view shows the running screen exactly while
  something runs, machines start with their disks, timers are invalidated.
* **Images copied back while the guest writes.** Correct means: nothing the guest wrote
  is lost, and an image never lands in another file.
* **Downloads of one disk from three sides, with retries, over versions of a catalog and
  launches of the process.** Correct means: nothing waits for ever, what is shown as
  there is there, versions of images and catalog agree, the user's images are spared.
* **Presses and releases as differences.** A control sends an event only when it believes
  something changed, over gestures that may be dropped, taps with delayed releases and a
  bounded queue emptied by another thread. Correct means: no key sticks, held keys are
  down, Shift surrounds the character it belongs to.
* **A copy, byte by byte, over two file systems, both of which can fail.** Correct means:
  "File transferred." is true, no stream stays open, nothing is emptied in vain.
* **A network of guests' packets that come in any order, twice, or not at all.** The
  library answers on one thread, but what the guest, the hosts and time do between two
  calls is up to them. Correct means: each side of a TCP connection gets the other's bytes
  once and in order, whatever must be sent again is kept and timed; a datagram's answer and
  error come back under the right name; fragments make up the datagram they came from; no
  address has two owners; descriptors, sockets, mbufs and files are given back on every
  path; and everything that waits for the guest, or for a host, ends.

`PROJECT.json` lists the hazards line by line under `hazards`, with the properties that
cover each, and a note where none does.

## 2. Modules

| Module | Models | Builds on |
|---|---|---|
| `Machine` | what the bridge promises: an abstract machine with one owner at a time | |
| `Session` | VM's session, EM and BR together, with the main queue, the loaders, the emulator queues and the process | implements `Machine` |
| `DiskPersistence`, `MCDiskPersistence` | drive C:'s image over sessions: load, guest writes, `saveAllDisks` and its occasions | extends `Session`, each step joined to one of its steps |
| `DiskCatalog` | VM's disks, catalog, downloads, bookmarks, relaunch | |
| `Input`, `MCInput` | touch controls, keyboard, the injectors, SDL's queue | |
| `FileTransfer` | INT E0h, R.COM and W.COM | |
| `SlirpGlue`, `DnsAddr`, `MCSlirpGlue` | the network connection with its forwards and polls, the lists of sockets; the name server's cache | |
| `Mbuf` | the pool of packet buffers, and the geometry of one | |
| `IfQueue`, `MCIfQueue` | the two interface queues, ARP, expiry | extends `Mbuf` |
| `Sbuf`, `TcpOutput`, `TcpInput` | the ring buffers; tcp_output, its timers and the end of a connection; tcp_input with its reassembly | each extends the one before |
| `TcpConn`, `MCTcp` | a connection: a guest that may send anything, the two of `TcpInput` and `TcpOutput`, the host's socket | extends `TcpInput` |
| `Fragments` | ip_input, ip_reass and ip_output | extends `Mbuf` |
| `Datagrams` | UDP over both families and pings | |
| `Bootp`, `Tftp`, `Ndp` | DHCP; TFTP with its clients; neighbours, advertisements, DHCPv6 | |
| `Services`, `MCServices` | the five above side by side | extends `Bootp`, INSTANCEs the others |
| `SessionProof`, `CatalogProof`, `InputProof`, `TransferProof`, `ServicesProof`, `IfQueueProof`, `GlueProof`, `TcpProof` | theorems | the modules they prove about |

### Session

The view model's flags, the bridge's statics and the history of the process keep their
names. `mainQ` is the main queue: FIFO, its head run whole on the main thread
(`MainBlock`), interleaved with the user's taps (`Start`, `CancelStart`, `Stop`, `Exit`).
`loader[e]` follows the block on the global queue of the e-th `start()`; it reads
`startCancelled` when it reaches a disk (VM:233) and its verdict is a block of the main
queue, which reads it again. `pc[e]` follows the block of EM:272-290 through
`dosbox_run`:

    idle -> queued -> shell -> destroy -> gfx -> clear -> tail -> posted -> exited

`queued` is a successful `dosbox_init` (`InitOk`); `shell` is SHELL_InitAndRun; `destroy`
HOSTIO_Destroy and DOSBOX_DestroyModules; `gfx` the wait in `dispatch_sync_f`; `clear` the
code before `s_running` is cleared; `tail` the rest of the block; `posted` the exit
notification in the queue; `exited` its delivery. An exception takes the short way from
`shell` or `destroy` to `clear`. `InitRefused` and `InitFails` are the two other outcomes
of `dosbox_init`; the failed one may leave part of DOSBox up, as its handler does.
`FrameStore` and `FrameDispatch` split `frame_callback` between its test-and-set of
`s_frame_pending` and its dispatch. `Stop` is `_exit`, `Exit` is `exit`, whose atexit
handler spins (`AtexitSpin`) until `s_running` is clear or its bound is reached
(`AtexitForce`); while it does, the main thread serves no block.

`up` is the set of subsystems that are initialised; `overlapped`, `lostInit` and `threw`
are history variables, used only by properties, which say where the code's guarantees end:
a start while an older load or engine is alive, an init that failed, and an exception.

### DiskPersistence

A file's content is where it began (`origin`) and the set of guest writes it holds, all
that the properties tell apart. `saveAllDisks` reads and then writes (`SaveRead`,
`SaveWrite`) on the main thread, which does nothing else in between, while the guest's
thread does (`GuestWrite`). The occasions are the 30 s timer and willResignActive
(`"tick"`), `emulatorDidExit` (`"exit"`) and `stop` (`"stop"`): for the last two the
caller's own step of `Session` is joined to `SaveWrite`. One drive stands for three, which
the code treats alike. Images are files below Documents/, the only ones `saveAllDisks`
writes back.

### DiskCatalog

`vm` is a record of the view model's fields with what it keeps in UserDefaults and
`Disks/`; the methods are operators from `vm` to `vm` that call each other as the code's
do (`Read`, `Parse`, `DeleteAllDownloadedDisks`, `RefreshDownloadStates`, `AutoAttach`,
`AttachCatalogDisk`, `RemoveDisks`). A download is a thread of its own:

    net -> failed | unstaged | staged -> retry | verify -> replace -> landed | rejected

with blocks on the main queue after the handler and at the end. A disk can be downloaded
by the user, after the bookmarks were resolved, and after the catalog was read
(`Starters`), all three at once, as `attachOrDownloadCatalogDisk` does not look whether a
download is under way. `Relaunch` may come between any two steps and keeps files, stored
version, bookmarks, boot drive and the cached catalog. `lost` is history: the disks whose
image was deleted under a download, or removed for a replacement that then failed.

### Input

A control's `held` is its `activeKeys` or its pressed key; `touch` says whether a finger
is on it, which a cancelled gesture changes without `onEnded` (external). The main thread
pushes the events of one call one by one (`pushes`), and DOSBox may poll between two
pushes; SDL's queue refuses events when full, which nobody looks at. `meant` is a history
field of an event: what the character was meant to arrive as. The D-pad's angles are the
sixteen sectors of pi/8 that DPadView's comparisons distinguish.

### FileTransfer

`pc` is the position in R.COM or W.COM; each INT is a step with all its outcomes. `buffer`
is what `fputc` has been given and the host's file has not: it may be written out at any
later call, in part if the host is full, and is gone after `_exit`. DOS closes an aborted
program's handle, and no host stream. `short` records that a byte was lost without a word,
at the places where neither program looks.

### SlirpGlue and DnsAddr

All of it runs on the emulator's thread, so that an action is a whole call: `Initialize` (a
new connection with the forwards of its settings, each of which may be refused),
`slirp_cleanup`, the sockets a packet of the guest makes (`GuestTcp`, `GuestUdp`,
`GuestPing`), and `GetPackets`: fill, poll, and the events of each socket. Descriptors are
the lowest that is free, so that they are used again at once, which is what makes a stale
index or a stale registration read another socket's events. What TCP does between two polls
is `TcpConn`'s; here a connection asks to be polled or does not, and ends sometime. A failed
poll has the effect of one without events. `DnsAddr` is the cache of the host's name
server and the reading of the system's list, its slip over several families included.

### IfQueue and Mbuf

A packet is a number, in the order of `if_output`, and `packets` has its mbuf: socket,
destination, date and M_DOFREE. `fastq` and `batchq` are sequences of lists; a list is what
`ifs_next` links: the packets of one session.
`if_start` sends, requeues, asks ARP once or drops, as the code does in one pass; the ARP
table is a ring that the guest's messages and `arp_table_add` fill. `Tick` is the time until
an unanswered packet expires. `Mbuf` counts buffers on the free list and off it, and keeps
their size, offset and length, as `m_inc` and `m_cat` change them.

### TCP: Sbuf, TcpOutput, TcpInput, TcpConn

A connection is one record, the tcpcb with its socket; each stage of `tcp_input` (trim,
reset, acknowledgement, window, text, FIN) and of `tcp_output` is an operator from record to
record, so that a stage which returns early leaves the rest out. Sequence numbers wrap at
`SeqSpace` and are compared as `SEQ_LT` does. Bytes are numbered, so that the properties
tell which byte arrived where. The guest is any TCP: it sends any part of its stream at any
time with its present acknowledgement and any window, so that segments overlap, repeat and
overtake each other; what slirp sends may be lost. A timer that runs may end at any moment.
`Connected`, `Readable` and `Writable` are the host's socket as `slirp_pollfds_poll` finds
it, with partial writes, errors and the host's half-close. A guest that vanishes and dials
again from its old port is the second life of `GuestIss`.

### Services

The five parts share no variable, hence `service` says which one moves in a behaviour, and
one run checks all of them. Two settings of the application are chosen in `Init` with both
their values: IPv6 (`in6_enabled`, off in the application) and the TFTP directory (`prefix`,
none in the application). `Fragments` counts in units of four bytes, offsets in eight; its
queues are a set, as a datagram has one and `ip_input` finds it by the datagram's id.
`Datagrams` numbers the packets, so that an answer or error names the one it is about; its
lists of sockets are sets, as a port has one socket and a ping's is found by its packet.
`Bootp` reads the options of a request in their order, up to where the packet ends.
`Tftp` has the clients beside the server: they ask again and acknowledge again.
`Ndp` is the table, the guests' solicitations and advertisements, packets that wait for
an address, and the router's timer.

## 3. Runs

Runs marked "violated" check one statement of the repository's documents or comments that
the code does not keep: section 6 says how.

A property of a run is often the conjunction of a module's named invariants, which stand
above it in the module with a comment each.

| Run | Configuration | Shows | Bounds |
|---|---|---|---|
| session | `Session.cfg` | `EngineOwned`, `FramesSafe`, `ViewTrue`; inits on a clean state; every wait ends; `Session` implements `Machine` | 2 starts, 2 spins |
| shutdown_inherited | `ShutdownInherited.cfg` | violated: `NoInheritedShutdown` | 2 starts, 1 spin |
| disk_persistence | `DiskPersistence.cfg` | only writes made during a save are lost; only the drive's or the mounted file changes | 2 starts, 1 spin, 1 write, 2 images |
| disk_fresh | `DiskFresh.cfg` | violated: `SavedDataIsFresh` | 2 writes |
| catalog | `DiskCatalog.cfg` | waits are accounted for, images are present and marked, versions agree, the user's images are kept | 1 disk, drive C:, 2 launches, 1 attempt, catalogs of version 2 and spoilt ones, blank disks, downloads from a URL |
| catalog_live | `CatalogLive.cfg` | every download and every request ends | 1 launch, 2 attempts, imports, catalog of the bundled version |
| input | `Input.cfg` | no key sticks, held keys are down, Shift is right, keys come up | 4 inputs, queue of 3 |
| file_transfer | `FileTransfer.cfg` | "ok" means copied, no stale bytes, nothing emptied in vain | bytes 0 and 1, files of up to 3 |
| if_queue | `IfQueue.cfg` | sockets, mbufs and ARP entries accounted for; a session's packets in order; the queues drain | 2 sessions and none, 1 guest, 2 MACs, a table of 1, 4 packets |
| tcp | `Tcp.cfg` | what is unacknowledged is kept and timed, windows are honoured, host and guest get each other's stream | sequence space 32, rings of 2, streams of up to 3 bytes, 2 connections, 2 lists out of order |
| glue | `SlirpGlue.cfg` | descriptors accounted for, events read by their own socket, forwards stand, queries follow the host's servers | 3 descriptors, 2 settings, 2 lists of servers, 2 ticks of expiry |
| services | `Services.cfg` | fragments whole, nothing leaked, leases unique, files exact, neighbours true, answers and errors named, routers advertised, sockets expire | 2 datagrams in 4 fragments, 2 packets, 4 DHCP requests, 2 TFTP clients with 5 packets, 2 guests with IPv6 |

Why the bounds are enough:

* **Two starts** are what the hazards of a session need: an older load, engine, frame,
  exit notification or timer against a newer one. A third start meets no state that
  differs from what a second one meets, since the bridge has one `s_running`, one
  context, and refuses. For the properties that are proved, this is no assumption.
  Two spins of the wait in `exit()` (100 in the code) distinguish none, one and the last.
* **One write** is enough for a loss, as losses are of single writes; the refuting runs
  take two, so that one can be made before and one during a save. Images are symmetric:
  no step and no property tells them apart, and each run that uses the symmetry checks
  safety only.
* **One disk, one drive** in the catalog: the races are between downloads of *one* disk,
  which share a row, a pending drive and a file; different disks share nothing but the
  queue. One attempt and two attempts are the last and the last but one. Two launches are
  needed for stale versions and bookmarks; a version that is not the bundled one, and a
  catalog that does not parse, are what the version check distinguishes. Drive A:, which
  takes no catalog disk of the type hard disk, and D:, which the code treats as C: save
  for the boot drive, are left to the proofs, which hold for any set of them.
* **A sequence space of 32** is more than four times the rings and windows together, so
  that comparisons modulo 2^32 and modulo 32 agree, and the initial numbers 30 and 29 make
  every connection wrap within its first segments. The guest's second number, 5, is above
  all that its first connection uses, as `StreamAssumption` asks. Rings of two bytes wrap with every third
  byte; streams of up to three bytes overfill them. One retransmission is the limit
  (`TCP_MAXRXTSHIFT`, 12 in the code), so that giving up happens; the guest's segments are
  any part of its stream, hence all overlaps of up to three bytes, in a queue of two.
  `ListenMss = 0`: a guest that repeats its SYN,ACK with an MSS option makes the code
  reserve its buffers again; see section 6.
* **Three descriptors** are a forward and two of the guest's sockets, or two forwards and
  none left; two lists of servers are enough for a change, one in which an address of the
  other family comes last and one without IPv6.
* **Four packets** in the interface queues: two of a session that is downgraded, one of
  another and one of none. A table of one entry is overwritten with every answer.
* **Four fragments** of a datagram of eight units and one of three: both ends, a middle,
  and one that overlaps or repeats; the mtu of six units cuts packets of nine in three.
* **Two packets** of three ports and two families, to seven destinations: an answer to the
  first may come after the second was sent, which is all that so_faddr and so_m confuse.
* **Four inputs** are press, another press, a loss of touch, and hiding; a queue of three
  is smaller than the four events of a shifted character, so it fills.
  `CHECK_DEADLOCK FALSE` in the input run and the network's, where the number of inputs,
  packets or ticks is bounded: when all are handled, nothing is left to do.
* **Files of up to three bytes** have a first, a middle and a last one.

## 4. Fairness

* `Session`: weak fairness of each emulator's main-queue blocks, loader and the steps its
  thread takes after the shell (`Winding`), and of the atexit handler. The code
  blocks none of these for ever: dispatch queues give their blocks a thread, the run loop
  serves the main queue. Nothing is assumed of the user, nor of the guest: a shell
  may run for ever, and no property says that it ends.
* `DiskCatalog`: weak fairness of the launch blocks and of each download. URLSession's
  transfers time out and verification and moves are finite. Not of the user, not of a
  relaunch.
* `Input`: weak fairness of the delayed release, of the main thread's pushes and of
  DOSBox's poll. Not of the user, who may hold a key for ever.
* `IfQueue`: weak fairness of `if_start`, which `GetPackets` runs with every poll, and of
  time. Not of the guest, who need never answer ARP: expiry alone drains the queues.
* `Services`: weak fairness of the poll's timers and of the pass over old sockets, and of
  time; nothing is assumed of the guest and the hosts.
* `TcpConn` and `SlirpGlue` state safety only: nobody promises that a segment arrives.

`Machine` itself asks for the announcement of a session that ended, which `Session`'s
fairness of `Winding` and the main queue implies: a run checks it, the proof covers the
safety part.

## 5. Proofs

All proofs are checked by TLAPS from nothing, from no assumptions but the named ones on
the constants (`BoundsAssumption`, `DiskAssumption`, `CatalogAssumption`,
`NamesAssumption`, `InputAssumption`, `TransferAssumption`, `BootpAssumption`,
`TftpAssumption`, `NdpAssumption`, `DatagramAssumption`, `DnsAssumption`, `GlueAssumption`,
`MbufAssumption`, `QueueAssumption`, `FragmentAssumption`, `TcpAssumption`,
`StreamAssumption`), which TLC evaluates in the runs. Besides ranges and types most only say
that a name which stands for nothing ("nobody", "zero") names no client or guest. The two of
TCP say more. `TcpAssumption`: the largest window fits the receive buffer, as 65535 bytes do
in the code's 131072. `StreamAssumption`: the streams, the buffer and a segment together stay
within half of the sequence space, as otherwise `SEQ_LT` orders nothing; and the first number
of a guest's next connection lies above all that its last one has used, which is what a TCP's
clock for initial numbers is for (section 6 has what the code does with another guest).

**SessionProof**, for any number of starts and any length of the wait. `TypeOK` is not
inductive: a frame is addressed to `s_frame_ctx`, which must be set while a shell can make
frames (`ContextSet`), so `TypeInv` is the flags, the data and `ContextSet`. The engine's
exclusive ownership rests on the main queue: `QueueInv` says that no block is queued twice
and that each block finds its emulator where it expects it (a `loaded` block one that is
idle, a `teardown` block one that waits, an `exit` block one that has posted). `FrameInv`
says that there is one frame at a time, in hand or queued, addressed to the emulator whose
shell made it. `OwnerInv`, their conjunction with `EngineExclusive`, is inductive; it gives
`TypeCorrect`, `EngineIsExclusive`, `FrameContextIsLive`, `FramesAreCoalesced`,
`TeardownIsAwaited`, and with the last `EngineIsOwned`. That no frame is shown after its
session's end needs the order of the main queue: `StaleInv` says that an exit is queued
behind all the frames of its emulator (`FramesFirst`, which a block leaving the head or
joining the tail keeps), which gives `FramesAreSafe`. `CleanInv` (without an exception, something is up only while an
emulator is before its teardown's end) gives `InitIsClean`. `ViewTrue` speaks of flags that are
set on the main thread and read on others; `ViewInv` adds what makes it inductive while
starts do not overlap: only the latest start is loading or running, a start that is still
wanted shows the running screen, a skipped load was cancelled, and the one timer belongs to
a machine whose load is over. `ViewIsTrue` is that. `BridgeIsOneMachine` is the refinement
of `Machine`'s safety part: each step moves one emulator along `Machine`'s states or
leaves them all (`SameState`, `MovedState`), and `EngineExclusive` gives `Boot` its guard.

Then the disks, for any number of images, writes and starts. `DisksRefineSession` says that
every behaviour with disks is one of `Session`'s without fairness, so that its
safety theorems hold with disks. `OnlyMounted` is the action property
`OnlyMountedChanges`; it needs `SaveInv`: the main thread handles nothing between reading
and writing an image, so the file it writes to is still the drive's. `DisksAreTrue` is
about the guest's writes, which `saveAllDisks` may undo: `DisksInv` joins `OwnerInv` and
`ViewInv` of the session to where a disk is. The running machine is the view's emulator and
has not been told to stop (`Attached`), it was started with the disk in the drive
(`Mounted`), and the data of a save under way lacks no write but those made since it was
read (`Writings`).

**CatalogProof**, for any catalog, set of drives and number of attempts. A method of the
view model only makes it `Calmer` (it ends waits and progress, and starts none) except where
a download starts with it. With that, `Core` (types of `vm` and `task`,
`DownloadsAccounted`, and `RetriesLeft`: who waits for a retry has an attempt left) and
`Rest` (types of the rest) are inductive, which gives `CatalogTypeCorrect`, hence that no
attempt counter passes below zero, and `DownloadsAreAccounted`.
`CatalogDisksAreMarked` rests on `Marked`, method by method: each keeps the marks of the
disks that stay in their drives and marks the one it attaches. `VersionsAgree` rests on
`Agrees`: only `Read` changes the catalog or the stored version, and it changes them
together unless nothing parses. `DrivesTellTheTruth` adds `Present` to `Core`: what is shown,
or has just landed, is in `Disks/`, is lost, or a download is about to put it there. Each
method is `Truer`: it shows nothing that neither is there nor was shown without being there
before. `CreatedDisksStay` is the action property `CreatedDisksKept`; each method `Keeps`
the user's image or changes the stored version.

**InputProof**, for any layout of pads, buttons and keys, any characters and any limit of the
queue. `WillBeDown` is said of a sequence of events, and what makes it provable are lemmas
about sequences (`AfterMore`, `AfterFirst`, `Sends`): the key's last event decides, so that
an action need only say which keys it leaves up and which down. With them, `InputInv` (the
types, that no more taps are due than were made, and `KeysInv`, which is `NoStuckKey`,
`HeldIsDown` and that every event of a character under way finds Shift as it needs it) is
inductive and gives `NoKeySticks`,
`HeldKeysAreDown`, and by the order of the events around a character `ShiftAround`, the
safety part of `KeysArrive`.

**TransferProof**, for any set of bytes and files of any length. `Inv` says which stream
and handle are open at which place of the programs (`Streams`), that what has been written
and what is buffered are together no longer than what has been read (`Room`, which also
keeps every file in bounds), and that they *are* what has been read but for the byte under
way (`Copied`, `CopiedR`, `CopiedW`). The reported copy is then the source at the end of
the file, which gives `ReportedIsCopied`; `NothingIsStale` is the same fact half way, and
`StreamsAreClosed` and `NothingIsEmptied` follow from `Streams`. Every property of
`FileTransfer` that its run checks is proved.

**ServicesProof**, for any guests, ports, destinations, addresses, clients, files and sizes of
tables. One service moves at a time (`OneMoves`), so that each invariant is about one of them.
For DHCP, `SlotsStand` says that whoever has been given an address has its slot, and an
answer's slot is free or the client's own, whichever of the three searches found it
(`SlotIsFree`); what a search finds is one of the slots it looks through (`FirstIsOne`, by the
smallest element of a set of natural numbers). That gives `LeasesAreUnique`.
`NeighborsAreTrue` needs `Rowed`: rows are empty or a guest's, and no guest has two, since
`ndp_table_add` looks for the guest's row before it takes another's. For datagrams,
`DatagramInv` says that a port has one socket (`OnePerPort`) and that a port which waits for
an answer has its socket still, holding the packet asked about or a later one (`Waits`),
whatever was sent again, answered, forwarded or has expired in between; it gives
`AnswersAreNamed` (with `NamedRight`: translating in undoes translating out for an
unchanged destination) and `ErrorsQuoteRight`. `FilesServedExactly` is about TFTP's
sessions, packets and clients together. `ServedInv` says that a session has its client's
size of block, that every block on the wire is the file's at its own number in units of that
client's size, and every OACK that size (`GoodPacket`), and that a client has a beginning of
the file (`GoodClient`). A handler is a chain of effects, each of which keeps `Good`; a block
that comes in turn extends the beginning (`BlockFollows`), and one that is not full can only
be the last. The size must be the client's and not the session's, as a session can be lost
and begun again between two blocks.

The module's second part is about fragments, for any datagrams, any size of the interface, of
mbufs and of headers (`FragmentAssumption` only says that an mbuf has room for the link's header and the largest
frame, as `SLIRP_MSIZE` does), any sessions, ports and order of events. A kept fragment of a
datagram holds the datagram's own units for its place, in an mbuf with room for them and for
the header in front (`Kept`), and `Lists` are sequences of these that are in order and do not
overlap. `ReassKeeps` shows that `ip_reass` keeps a list one: the piece before, what is left
of the new fragment and what is left of those behind it are joined (`PrecededKeeps`,
`SucceedingKeeps`, `ListsJoin`), where the first fragment that begins later and the first
that is not covered exist (`AfterIs`, `UncoveredIs`). A list that `Complete` accepts is then
the whole datagram (`WholeIs`, by induction along the concatenation, `ContentsJoin` and
`CatFits`). `PartsOk` says that the parts ip_output cuts a packet into follow one another,
fit and end where the packet ends. `FragmentInv` (one queue for a datagram, each of
them a list; the count of mbufs; what was received and sent) is inductive; that the counts are
right needs the mbufs of the queue that changes to be apart from those of the others
(`MbufsSplit`, `MbufsJoin`). It gives `FragmentsAreWhole`. `NothingIsLeaked` adds two
counts. `MbufInv`, over `DatagramInv`, says that the mbufs which sockets hold are the
allocated ones not yet freed: an answer, an error, another packet of the same port and the
expiry each add or remove one socket of those that hold one (`HoldingAdded`,
`HoldingRemoved`, `HoldingReplaced`). `FilesInv` says that the open descriptors are the
sessions with an open file, through every path by which a session ends or its row is taken
by another client.

**IfQueueProof**, for any sockets, guests, table, thresholds of downgrading and number of
packets. `Invariant` speaks of two queues, their mbufs and the counts wherever they are, in
the variables or in the middle of `if_output`: each packet that has an mbuf has one place,
in a session of its socket (`Placed`); so_queued and the pool count them (`Counted`); and
(`Ordered`) a socket that was not downgraded has its packets on one queue, in order and after
those that went out, a socket without low delay has them in one session, and a packet of a
socket goes to the socket's guest. The last is needed as `if_start` skips a session whose
guest is unknown: what it skips in the fast queue and what it sends later are then never of
one socket. The operations are shown to keep it by what they do to places: `CutThins` and
`LeftThins` say what is left when each session loses a beginning (by induction along the
queue, `UpTo`, as `Sessions` is a recursive function), `Joining` and `Starting` what a packet
at the end of a session or in one of its own changes, `Downgrades` what a session moved to the
front of the other queue does. `StartsKeeps`, `EnqueueEnters` with `EntersKeeps`, and
`DowngradeKeeps` make up `if_output`. `NothingIsLostCountOf` and `PacketsStayInOrder` follow.
`IInv` is the invariant of the variables, `ArpInv` that of the ARP table: one entry per
address. TLC finds them invariant on the run's instance.

**GlueProof**, for any number of descriptors, any settings, servers and ports, and any time
of expiry. An operation hands on a record; `Whole` is what holds of it between its steps: no
descriptor is two sockets' (`Apart`), the registered ones are those of the sockets that are
no forwards, once each (`Registered`), forwards listen, or are UDP sockets that never expire
(`Kinds`), and they are exactly those recorded (`Recorded`). What opens a socket takes a free
descriptor (`FreeIsFree`), what closes one closes the guest's own (`DetachOwn`), as forwards
are neither connected nor expire. `Indices` says that an index is that of the socket's own
descriptor in the polls; filling keeps it for the kinds already indexed while it detaches
sockets of the others (`FillKeeps`), which gives `EventsAreOwn`. The loops of the code are
recursive functions in the model. Their properties are shown by induction over a set of
numbers (`UpTo`, from the library's `WFMin`): that the recursion has a solution, and then
what each step adds: the sockets in a set, with their places (`OnlyPlaces`), the
forwards of a rule port by port and of the rules one by one (`RuleKeeps`, `RulesKeep`), and
the TCP sockets visited, of which those still to come are still open (`PollTcpKeeps`).
`GlueInv` is inductive and gives `DescriptorsAreTrue` (counting by a bijection),
`EventsAreOwn`, `ForwardsAreTrue` and `QueriesFollow`: every property of `SlirpGlue`
that its run checks is proved.

**TcpProof**, for any streams, windows, buffers, sequence space and number of connections: a
connection's receiver, through all of `tcp_input`, `tcp_reass`, `tcp_output`, the timers and
the host's socket. `RxInv` is inductive. Its part `Rx` relates the connection to the guest and
the host's end:

* `Numbered`: the next byte expected and the window's edge are places in the guest's stream,
  within half of the space of its first number, so that `SEQ_LT` compares places (`DiffIs`,
  `PlusPlus` and the lemmas above them); the edge is never beyond what the ring can hold.
* `Flowing`: the ring holds, wherever it wraps, the bytes that follow those the host has
  (`Holds`); what waits out of order are pieces of the stream, in their place and within the
  window offered (`PieceOK`); a state past the guest's FIN, or the drain of the ring before
  the host is told of the end, means that all of the stream has been taken (`Ended`).
* `Beginning`: before the handshake is done nothing has been taken yet.
* `Linked` and `Old`: the connection is of the guest's present life, or of its last one and in
  TIME_WAIT. Without `Old` the invariant is not inductive, as a SYN of the next life arrives
  at the old connection.

Each stage of `tcp_input` is a lemma that takes a `Ready` connection and a segment of the
guest's to a `Ready` one, or by `tcp_output` to a `Done` one, which may have sent a SYN. What
`tcp_output` leaves alone is stated once (`Outputs`), for every round of its loop; the loops
over the queue and over the timers are recursive functions, followed by induction over a set
of numbers (`UpTo`). `StepRx` says that losing any of the answers only moves the guest along.
`HostStream` is the theorem: `HostGetsStream` in every behaviour. TLC finds `RxInv` invariant on
a small instance.

**Model-checked only.** Liveness under fairness (`WaitsEnd`, the fair part of `Machine`,
`RequestsEnd`, `KeysComeUp`, `QueuesDrain`, `SocketsExpire`, `RouterAdvertised`) is out of
the prover's reach, as is everything about ENABLED. Of `TcpConn`, what the sender promises
(`SenderTrue`, `TimersCover`, `WindowHonoured`, `GuestGetsStream`) is model-checked only: it
needs an invariant of its own about `snd_una`, `snd_nxt`, `snd_max` and what the guest has
acknowledged, and does not hold for a guest that repeats its SYN,ACK with an MSS option
(`ListenMss`), so that no proof is for every value of the constants.

## 6. What the code does otherwise than it says

The first two are runs that TLC ends with a counterexample.

1. **A session inherits the shutdown request of the last one** (`NoInheritedShutdown`).
   `docs/restart-static-state.md` says that `dosbox_init` clears it; only `dosbox_start`
   does, which nothing calls.
2. **The save on exit is stale** (`SavedDataIsFresh`). `getDiskData:` re-reads the file
   only while `_shouldRun`, which is cleared before the exit is posted: `emulatorDidExit`
   writes back the copy made when the session began, over all that the guest wrote.

The models have the following too, which the documents or comments promise otherwise;
each is named by a property's exclusion or a hazard's note.

3. **A disk chosen after a session is overwritten.** The old emulator is never let go of,
   and `saveAllDisks` pairs its data with the present paths (VM:525).
4. **A tap lets go of a held button** if both have the same key, as in the DOOM preset
   (`StickView.swift:83`).
5. **The diagonals on the right are missing**: up and down are pressed only up to 3pi/8 on
   that side, where the comment says pi/8 (`DPadView.swift:107`).
6. **Ctrl and Alt modes send neither** (VM:357).
7. **The first found name server is not the one that is used**: a server of the other
   family behind it is copied over it, as `found` is still 1 (slirp.c:296).
8. **A closed window is not always probed**: tcp_output.c:236 wants a persist timer
   whenever data waits that the window does not allow, but a bare acknowledgement that is
   sent on the way leaves without one.
9. **The end of the reassembly queue can be taken for a segment** (`astray`).
   `tcp_reass` presents "through completed sequence space" in a loop whose end test
   (tcp_input.c:185) compares with the control block where the rest of the function compares
   with the queue's end (`tcpfrag_list_end`). What it then reads as a sequence number is
   zero, in a 64-bit build with IPv4 or a fec0:: guest, so that it goes on if `rcv_nxt` is
   zero too. The model stops there, and every other property holds up to it.

The models also have these behaviours, which no property is held to because no
document promises otherwise or because the properties' exclusions name them:

* an init that fails leaves the view on the running screen, with its timers (EM:272;
  `lostInit` in `ViewMirrorsEngine`);
* starting again while an older load is under way can drop the newer start or leak its
  timer (VM:216; `overlapped`);
* an exception out of the shell or DestroyModules leaves GFX up for the next init (BR:486;
  `threw`);
* a write of the guest between the read and the write of `saveAllDisks` is undone (VM:528;
  `duringSave`);
* `setDiskPath`, `createBlankHDD` and `downloadFromURL` leave the mark of a catalog disk on
  a drive that no longer holds one (VM:451);
* the default disk can be downloaded twice at once, after the bookmarks and after the
  catalog (VM:870), and the second replaces the first's image while it may be mounted;
* a verification error of an automatic download is shown, although lines 862-863 want it
  silent: the mark goes before the verification (VM:769);
* a new catalog deletes every image in `Disks/`, also those the user created, and only the
  default disk comes back, although VM:662 says that disks will be redownloaded (VM:670);
* a catalog that does not parse is cached first; the next launch falls back to the bundled
  one, which may be another version and then deletes all images (VM:595);
* `downloadFromURL` moves its temporary file in a block that may run after URLSession has
  deleted it (VM:910);
* a full DOS disk makes R.COM report a transfer, as it does not look at AX (dos/r.asm:58);
  neither `fputc` nor `fclose` is looked at (dosbox-ios/int_e0_hostio.cpp:141);
* a session that is downgraded while older packets of it wait on the fast queue is sent out
  of order, which the comment at if.c:66 wants to prevent;
* TCP: after a window probe the guest's older acknowledgement makes `snd_wnd` negative, and
  what follows exceeds the window (`WindowHonoured` excludes it); the reassembly queue is
  not bounded (`MaxQueue` bounds the guest); a SYN,ACK that the guest repeats with its MSS
  empties the socket's buffers; so does, in TIME_WAIT, the SYN of the guest's next connection
  if its number is below the window (`tcp_dooptions` comes before the states), and the host
  never gets what waited for it (the proof of `HostStream` met this, TLC confirms it with
  the numbers 29 and 25, and `StreamAssumption` excludes it); a connection whose guest is gone behind a closed window is
  probed for ever, an idle one never dropped; what waits in `so_rcv` is lost when TIME_WAIT
  ends first;
* datagrams: answers get the name of the port's last destination, errors quote its last
  packet; what went to 255.255.255.255 or ff02::1 is answered by the loopback's name;
* DHCP: leases never end, and an answer that has no address to give loses its mbuf
  (bootp.c:204; `lost`);
* TFTP: the number of an acknowledgement is not looked at, and a lost last block is not
  repaired, as its session is gone (tftp.c:419); an error while reading takes the ports
  from an mbuf that has been freed (tftp.c:253); open files outlive `slirp_cleanup`;
* IP: a reassembled packet is passed on with the header length of the fragment that came
  last; a packet with the reserved bit ends the queue of fragments with its id;
* IPv6: `guest_in6_addr` keeps the first address for ever, and a neighbour advertisement
  registers its sender instead of its target.

## 7. What is not modelled

* **DOSBox, SDL, iir1, FreeDOS**: external or third-party. Their interfaces
  appear as nondeterministic outcomes: the shell ends, throws or runs on; events are
  polled one by one; a DOS call succeeds, fails or writes nothing.
* **Of libslirp**: urgent data, the emulations of `tcp_emu` and `udp_emu` (FTP, IRC,
  CU-SeeMe) and commands behind a forwarded address, which the application sets none of;
  the proxy; saving a virtual machine's state (state.c, stream.c, vmstate.c); NC-SI;
  checksums; the fallback of pings over the echo port, which iOS does not take; Unix
  sockets; the length of TCP's timers, any of which may end at any time; headers and byte
  orders. Messages between the modules are not composed: what `Datagrams` sends does not
  pass through `IfQueue`.
* **The parser of the catalog** and all formats: a catalog is a version, or nothing.
* **Layout, texts, progress values, hashes.** A verification accepts or rejects.
* **`stop:` of DOSEmulator and `dosbox_start`**: nothing calls them.
* **Export of a disk**: it copies an image out and changes no state of the app.
* **The imgmount fix**: it replaces a DOSBox command over tables that are not in the
  repository.
* **Build scripts, assets, help texts, test programs for the guest.**
* **Mouse, machine configurations, touch layouts, the configuration file, the command lines
  of R and W**: planned, see below.

## 8. Plan

Done: the session with its refinement of `Machine` and proofs; disks and their proofs;
the catalog and its proofs; input and its proofs; file transfer and its proofs; the network,
with proofs of everything but TCP's sender. In order of weight:

1. Proofs of TCP's sender (`SenderTrue`, `GuestGetsStream`) for `ListenMss = 0`, beside those
   of the receiver and with its lemmas about sequence numbers.
2. `Configurations`: ConfigManager's list and its active machine, two writes to
   UserDefaults with a crash between them, and TouchLayoutManager beside it
   (`qxDOS/Views/MachineConfig.swift`, `TouchControls/TouchControlLayout.swift`).
   Abstract specification: there is always an active machine, and it is in the list.
3. `Mouse`: taps, long presses and drags with their delayed releases, over the queue of
   `Input`.
4. `BootConfig`: the mount and boot commands that `dosbox_write_config` produces, against
   a reference of what each set of drives should boot.
5. `CommandTail`: the parsing of R's and W's command lines, with 16-bit counters, against
   a reference over bounded lines.
