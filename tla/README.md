# Kindle HID Passthrough: a verification project

Kindle HID Passthrough lets a Kindle use Bluetooth keyboards, page turners and
gamepads: a Python daemon opens the Bluetooth chip's UART, runs a Bluetooth host
(bumble) over it, connects to the configured devices and feeds their reports to
`/dev/uhid`. The hard part is not HID. It is that one radio, one transport and
one `HIDHost` at a time are shared by a reconnect loop, by scans and pairings
asked for over HTTP, by the system's suspend and resume, by two protocol handlers
that race for the connection, and by a shutdown, all cancelling each other at
every `await`; and that the files the daemon keeps its devices and keys in are
rewritten from several threads without a lock.

This directory holds TLA+ modules of that, TLC configurations that check them,
and TLAPS proofs of what matters most. `PROJECT.json` ties every definition to
source lines, every property to a run, and every property of a passing run to a
mutant of the code that breaks it. Paths below are relative to
`src/kindle_hid_passthrough/` unless they start with `src/`.

## 1. Inventory

| Part | State | Operations | Talks to | Here |
|---|---|---|---|---|
| Connection manager `daemon.py` (`HIDDaemon`) | `running`, `_suspended`, `_resume_event`, `host`, `_host_task`, `_paired_host` | `run`, `suspend`, `resume`, `disconnect`, `scan`, `pair`, `stop` | creates and cancels the host task, powers the chip | `HidDaemon` |
| Controller `controller.py` | `_op_lock`, `is_scanning`, `is_pairing`, `_suspended_by_system`, results, device cache, cursor process | `request_*` (HTTP threads), `_do_*` (event loop), powerd callbacks | schedules coroutines on the loop | `HidDaemon`; device cache and `/remove` in `DeviceStore` |
| HTTP API `api_server.py` | none of its own | one handler per path | reads the daemon's flags across threads | guards in `HidDaemon` |
| Power monitor `power_monitor.py` | a `lipc` child | suspend and resume callbacks | controller | callbacks in `HidDaemon` |
| HID host `host.py` | transport, device, connection, protocol, future, event, UHID device, reports of a stale key or an unplug | `run`, `continue_after_pairing`, `cleanup`, `pair_device` | both mixins, chip hooks, UHID | `HostLife`, `HostConnect`, `HostCleanup`; descriptor and reports in `InputDevice` |
| BLE handler `ble.py` | filter accept list, initiator, rotation scan, wildcard scan, report IDs | connect, restore or pair, GATT discovery, subscribe, translate reports | shares the host's connection fields and `_radio_lock` | `HostConnect`, `InputDevice`, `DeviceStore` (each partly) |
| Classic handler `classic.py` | `hid_host` and its channels, listener, connection tasks | page loop, incoming links, pairing, SDP | the same | `HostConnect`, `HostCleanup`, `InputDevice` (each partly) |
| Transport `transport.py` | the file descriptor of the UART | open with EBUSY recovery, reset | chip hooks, CPU latency pin | `Transport`; outcomes in `HidDaemon` |
| Chips `bt_chip.py`, `bt_mtk.py`, `bt_brcm.py`, `bt_setup.py` | powered, warm | prepare, power off, ensure powered, hooks | transport, daemon | `Transport`; a flag in `HidDaemon` |
| CPU latency `cpu_latency.py` | a descriptor, saved cpuidle states | hold, release | transport open and close hooks | `Transport` |
| HCI resync parser `hci_parser.py` | buffer, time of the half-read packet | `feed_data`, `reset` | the transport feeds it, bumble's host is its sink | `HciResync` |
| Stores `config.py`, `device_cache.py`, `pairing.py` | `devices.conf`, descriptor cache, keystore | add, remove, load, save, validate | HTTP threads, loop and host all write | `DeviceStore`; `devices.conf` as a set in `HidDaemon` |
| Button mapper client `button_mapper.py` | the blocks of the mapper's config | register, unregister, register all | the mapper reads the file | `DeviceStore` |
| UHID `uhid_handler.py` | a descriptor on `/dev/uhid`, whether it is a pointer | strip, create, forward, destroy | kernel | `InputDevice` |
| Scanner `scanner.py` | a transport of its own, the devices found | scan, open, close | chip hooks | a user of `Transport`; its operation in `HidDaemon` |
| KOReader plugin, BTManager, MapperManager | polled status | the HTTP API | API | not modelled |
| Command line, detection, logging, install scripts, cursor overlay, kernel module copy | | | | not modelled |

What is hard here, and what makes each part correct:

* **The daemon.** Everything between two `await`s is atomic, everything across one
  is not: `_suspended` is tested and then awaited past; `_resume_event` is set and
  cleared by five parties; `cleanup()` of one host can be entered three times at
  once. Correct means: no two users of the radio; a suspended daemon is really
  off; a resumed one never sleeps on; the progress flags fall; requests finish; a
  signal ends the process.
* **The host.** Cancellation lands at whichever `await` is current and may be
  swallowed there; two handlers write the same fields. Correct means: the handlers
  end with the race, the radio lock is never held by a dead handler to the harm of
  a live one, what is served is what won, and a dead link is noticed.
* **Clean-up.** Three callers interleave. Correct means: the transport is closed by
  somebody, last, and the input device goes with it.
* **The transport and the chip.** `prepare()` blocks the loop for seconds while
  Amazon's daemons go on; one latency pin serves every transport; a descriptor
  may outlive its owner. Correct means: the pin lasts exactly as long as the UART
  is open, no hand-off hits a transport of this process, the chip stays ours
  once taken, and a leak never makes the device unusable.
* **The stores.** Each file is read, emptied and written in separate system calls,
  by HTTP threads beside the loop, and a write may fail or be cut off by a kill.
  Correct means: a device nobody touches keeps its line, its block and its bond; a
  removal that met no other writer leaves nothing; `/status` shows the list of the
  file; the daemon sleeps for want of devices only when there are none.
* **The parser.** The UART drops bytes, so that payload becomes a length, and
  reads end anywhere. Correct means: how the bytes were split into reads changes
  nothing, no complete packet is held back, and after a silence the parser starts
  clean.
* **The input device.** The descriptor is patched twice and the reports of a knob
  and a keyboard are told apart by their looks. Correct means: no digitizer
  reaches the kernel unless there is nothing else, and no key stays down.

The list of hazards, each at its line, is in `PROJECT.json`.

## 2. Modules

| Module | What it models | Composed with |
|---|---|---|
| `HostLife` | a host task as the daemon sees it: phases, cancellation, transport, reports. The abstract specification | extended by `HidDaemon`, implemented by `HostConnect` |
| `HidDaemon` | `run()`, the controller's operations under `_op_lock`, requests, powerd, signals | extends `HostLife` |
| `HostConnect` | `HIDHost.run()` with the BLE and Classic handlers, links and their set-up tasks | `INSTANCE HostLife WITH` a refinement mapping |
| `HostCleanup` | `HIDHost.cleanup()` called concurrently | justifies `AfterCleanup` of `HidDaemon` |
| `Transport` | opening with EBUSY recovery, reset and close, the chip's hand-off and power, the CPU latency pin | stands below `HidDaemon`'s `HostOpens`: its users are hosts and scanners |
| `HciResync` | `ResyncingPacketParser` over a lossy UART | reads from the transport |
| `DeviceStore` | `devices.conf`, the mapper's blocks, the keystore, the descriptor cache and the cached device list | stands below `HidDaemon`'s `devices`; its jobs are the operations there and the host's |
| `InputDevice` | the report descriptor from peer to kernel and the reports after it | what the set-up of `HostConnect` ends with |
| `HidDaemonProofs`, `HostCleanupProofs`, `HostConnectProofs`, `TransportProofs`, `HciResyncProofs`, `DeviceStoreProofs`, `InputDeviceProofs` | theorems | extend their component |
| `HostConnectLifeProofs` | what is served, losses, and the refinement of `HostLife` | extends `HostConnectProofs` |
| `MCHidDaemon`, `MCHostConnect`, `MCHostCleanup`, `MCTransport`, `MCHciResync`, `MCDeviceStore`, `MCInputDevice` | model values and inputs | extend their component |

**Granularity.** One asyncio loop runs all coroutines, so an action is a segment
from one `await` to the next, with everything the code does there. HTTP handlers
run in other threads; in `HidDaemon` what they do to shared state is a single read
or write, and in `DeviceStore`, where it is not, an action is a system call.
`run()` once woken stands in the loop's ready queue before anything made ready
later: `LoopSettled` in `HidDaemon` says so, and an operation whose first step was
already due (`"fresh"`) may still come before it. That one window is the race at
`daemon.py:138`.

**Cancellation** is modelled as Python 3.10 does it (the version the build uses,
`src/justfile:9`): `Task.cancel()` is delivered at the awaited thing; `wait_for()`
passes over a cancellation when its future is done. `CancelledHosts` in `HostLife`
and `CutPage`, `CutBle` and `Cancel` in `HostConnect` are these rules. They say of
`host.run()` that a cancellation may be lost at the opening of the transport
(`transport.py:97`, `:107`), the controller's reset (`transport.py:163`), the set-up
of the connected device (`classic.py:440-448`, `:485`, `:492`) and the drain
(`host.py:256`); of the BLE handler that it may lose one in its window and its scan;
and `ClassicLinkUp` says the same of an `on_classic_connection` task that a second
link replaces while it is at one of its own waits (`classic.py:109-146`, `:181-183`).

**HidDaemon.** `runPc` is the `await` that `HIDDaemon.run()` is at; `LoopTop`,
`PassGate`, `StartHost` and `AfterHost` are the code between its waits. Each
operation slot in `task` holds a request from its submission (`"asked"` for a
`/pair` whose flag is set and whose coroutine is not yet scheduled, then
`"fresh"`) through the FIFO of `_op_lock` to its steps: `Suspend`, `Joined`,
`Cleaned`, `Opened`, `RadioOpEnds`, and so on. `host` is the `HostLife` record.
`paired` and `orphan` follow a paired host from hand-over to use, or to where
nothing refers to it. Two history variables carry no behaviour: `userOff` (the
last thing a client asked for was `/stop`) and `races`. In `races`, `"radio"` says
that a known race has been met, so that the safety run can show that nothing *else*
breaks exclusion, and `"swallowed"` that the present host goes on although it was
cancelled, so that the liveness run can show that nothing else holds a request up.

**HostConnect.** `phase` is the `await` of `run()`, `ble` and `page` those of the
handlers, `conn[l]` that of the `on_classic_connection` task of each Classic
link. A link is one use of a physical connection: it comes up, may drop, and is
never up again, so that a peer coming back is another link. `heard` are links
with `_on_disconnection` registered; `event` and `report` what that callback and
the unplug callback leave. `configured` says what `devices.conf` calls for:
addresses (`"ble"`: the accept list), the wildcard (`"wild"`: the scan handler of
`ble.py:262`, with its `attempt` at a link) or Classic. `astray` is what cancelled
handlers leave the controller at. A wildcard handler leaves its scan, which nobody
stops, so that a winner may be set up under it, or an initiator. A Classic handler
whose `connect_task` is cancelled releases the lock while the controller pages on
(`classic.py:232-235`, `:265-272`), until `PageLapses`. `latest` is the link whose
task `_classic_conn_task` is: the only one a new link cancels. A task that passes
over that stays in `outlived` and runs on beside the new one, so that older tasks
may settle the future, or forget the connection, of a later link. `intr` is the link
that the interrupt channel of the one `hid_host` belongs to. `LifePhase` maps `phase`
and `future` to `HostLife`. The constant `May` bounds which links may come up with
which configuration. `address` is the link that `current_device_address` was taken
from; `connected_protocol` is assigned wherever it is, and follows from it
(`protocol`).

**HostCleanup.** `pc[c]` is the `await` of caller `c` in `cleanup()`. `Early`
callers (`stop()`) do not wait for the host task; `Cancellable` ones (`run()`, by
`main()`) may be cancelled inside it. The await on each channel disconnection is
taken to be cut off with the wait, where Python 3.10 may leave the inner task a
step longer.

**Transport.** `pc[u]` is where a user (a host or a scanner) is, from
`ensure_powered()` to `close()`; `fds` are the users whose descriptor is open and
`stale` says that one is open that nobody refers to. `kind` and `deep` are fixed
in a behaviour: the chip, and whether `CpuLatencyHold._plan()` finds idle states to
keep the kernel out of. `held` is what it then has, a PM QoS request, the sysfs
flags, or nothing, as each of them can fail at every `acquire()`; the flags of all
such states count as one, `disabled`. The signals of the hand-off and of its
recovery may find nobody, because `pgrep` timed out or has missed a process, or be
refused (`bt_brcm.py:40-41`, `:75-82`, `:121-129`), and writes to sysfs may fail
(`cpu_latency.py:138-140`, `:159-160`): the code logs it and goes on, so that
`FreezeBtd`, `KillBsa`, `RecoverBtd`, `Acquire` and `Release` may each have no
effect. The history `missed` keeps what was last tried in vain. `step` is
where the blocking `prepare()` is: unless it is `"free"` the loop does nothing
else, and only `btd`, `bsa_server` and other processes move. A descriptor is
leaked by an open cut off by its time-out or a cancellation and by a close that
takes more than 3 s; bumble's close inside `create_bumble_device()` does not
suspend, so a failed reset is one step. The age of `bsa_server`, the waits for
its firmware download and the wake handshake of `pre_open()` take time and change
nothing here. `races` records that two users overlapped (the daemon's own races,
`HidDaemonRadio`), or that a chip was re-warmed under a paired host.

**HciResync.** Bytes are the numbers 0 to 255 and `Info` is the table
`RX_PACKET_INFO`; `Feed` is `feed_data()` up to its loop, `Drop` and `Deliver` one
turn of it, `Wait` its end. A read may be any member of `Reads`: what the UART
lost is what is not in it. The histories `wire`, `at`, `gone` and `packets` say
what was read, when, how far the parser got, and what it delivered where;
`slipped` says that the timer was left running by a byte that has been dropped.
The properties compare the parser with the reference: a pass over the whole of
`wire` with the operators `Hopeless`, `Complete` and `Total`, which know nothing
of reads.

**DeviceStore.** `pc[t]` is the next system call of thread `t`: the event loop,
an HTTP thread in `/remove`, or one in `/status`. A rewrite is `ReadList` (what
was read is in `got`), `CutList` (`open(.., 'w')` empties the file) and
`WriteList` (the text reaches the file from offset 0 when it is closed, over
whatever another thread put there: `Over`). The keystore is whole, truncated
(`Cut`) or a mixture of two texts (`Mixed`), and neither of the last two parses;
a thread whose open keystore has been replaced or renamed meanwhile
(`detached`) writes to a file that has no name any more. The event loop's jobs do
not interleave with each other, because they have no `await`; they interleave
with the threads, with failing writes (`Fails`) and with a kill and respawn
(`Crash`). `devices.conf`'s mtime is a tick of a clock that several writes may
share. The history `harm` names what has gone wrong so far and `meddled` the
jobs during which somebody else changed a file, so that the properties say: this
is lost *only* by these.

**InputDevice.** A descriptor is a sequence of items: usage pages, usages, report
IDs, an item whose data looks like a report ID, collections, inputs, an item cut
off. `phase` follows it from the peer through `_inject_consumer_usage_range()`
and the loop of `strip_digitizer_collections()` (`Strip`, one item a turn) to
`UHID_CREATE2`. `held` is what the peer last said in each of its reports, `kernel`
what the kernel last took for each report it knows (external: it drops reports
with an ID that is not declared). `Remapped` and `Translated` are the forwarding of
BLE reports; on Classic they pass as they are. Whether `pointer` is right is
modelled and used by nothing here (the cursor overlay reads it).

## 3. Runs

| Run | Question | Bounds | States |
|---|---|---|---|
| `HidDaemonSafety` | Exclusive radio unless one of the four known races was met; off when suspended; no lost wake-up; flags fall | 1 device, 2 operation slots (symmetric), all nine requests, unplug reports, failing writes; no signals (they are in the next run) | 1.2 M |
| `HidDaemonLiveness` | Requests complete, the daemon reconnects, a shutdown ends | 1 device, 2 slots; pair and remove; unplug reports, failing writes, signals | 151 k |
| `HidDaemonRadio` | violation: two users of the radio | 2 scans | |
| `HidDaemonCancel` | violation: `suspend()` waits for ever on a host that swallowed its cancellation | 1 slot | |
| `HostConnectRace` | The lock, the drain, what is served, a loss noticed, the drain ends, and `HostLife` is implemented | 2 Classic links where Classic is alone, 2 BLE and 1 Classic with the wildcard, else 1 of each; every configuration, `run()` and hand-off | 548 k |
| `HostConnectLoss` | violation: the loss of the served BLE link is absorbed | both protocols | |
| `HostConnectUnplug` | violation: an unplug is recorded for another device | both protocols, 1 link each, of two devices | |
| `HostCleanupSafety` | Concurrent clean-ups close the transport, last; the input device goes; nothing is sent after the close | `run()`, `suspend()`, `stop()` | 8.7 k |
| `TransportSafety` | The pin follows the transport; no hand-off hits a user; the chip stays ours; refusals are foreign | 2 users (symmetric), both chips; PM QoS, sysfs or neither; signals and writes that fail; 3 retries, crashes | 1.4 M |
| `HciResyncSafety` | What is delivered does not depend on how the bytes were read; nothing is withheld; the time-out and its timer | `MaxWire`: 7 bytes on the wire; reads of 1 to 3 bytes out of {0, 2, 4}; `MaxTime`: 3 ticks | 0.95 M |
| `DeviceStoreSafety` | What a device nobody touches can lose; what a removal leaves; what `/status` and `run()` believe | 3 addresses (two symmetric), 1 remover, 1 poller; `MaxLines` 4, `MaxJobs` 3, `MaxTime` 1; the view `LiveView` leaves out what no step reads again | 1.5 M |
| `InputDeviceSafety` | Only clean collections reach the kernel; a key the peer released is released | descriptors of 1 or 2 collections, whole and malformed (an end with data too); 6 report values of 1 to 3 bytes; `MaxDescriptor` 15 items | 1.5 M |

Why these bounds are enough to meet the interesting cases. In `HidDaemon` the lock
and the flags relate at most two operations (one holding, one waiting or one
submitting), and the third party, `run()`, is always there; one device is enough
for the device list to be empty or not, and for `/remove` to meet a pairing. In
`HostConnect` the properties of what is served and of a loss are about one protocol
alone: there, two Classic links let a peer come back while its first link is being
set up, has failed, or has a task that outlives its cancellation. With both
protocols a link of each lets each handler win or lose to the
other, and the wildcard handler's two attempts get a link each. In the liveness run
of `HidDaemon` a pairing and a removal meet every phase of the daemon between them:
both suspend and resume it, a pairing hands a host over, a removal takes the last
device away, and the writes of either may fail. The three callers of `cleanup()` are all the code has. In `Transport` a
second user is what a leaked descriptor or a late close can hit, and the retries
are the code's own number.

In `HciResync` seven bytes hold two short packets with noise before and between, or
an ACL header with an impossible length; 0, 2 and 4 begin no packet, an ACL
packet and an event, and as lengths they make packets of every kind. In
`DeviceStore` three jobs let a rewrite meet another one and a third party look at
what they leave; a second and a third address let a list shrink to another's
length, and the lost-update cases appear with the first two. `MaxLines` stops an
append where two devices each have a duplicate; one tick tells equal mtimes from
different ones. In `InputDevice` two collections let one be stripped and one
stay, a nested collection is where a depth count can go wrong, and two reports
of a knob and a key interleave in every order.

`CHECK_DEADLOCK FALSE` is set where the modelled life ends: every call of
`cleanup()` over, the host task over, the input device gone.

### What the violation runs say

Four real disagreements between a comment and the code; `findings` in
`PROJECT.json` quotes both sides.

1. `host.cleanup()` may be entered by `suspend()` while `run()` is inside it. The
   second caller can raise at `host.py:465`, and its caller opens the next
   transport while the first one is closing (`HidDaemonRadio`).
2. A cancellation that arrives while `host.run()` drains its handlers is swallowed
   (`host.py:256`); `suspend()` then waits, with the lock, until the device leaves
   (`HidDaemonCancel`). The same happens where the cancellation meets an answer
   that the opening, the reset or the set-up was waiting for (`transport.py:97`,
   `:107`, `:163`, `classic.py:440-448`, `:485`, `:492`).
3. A Classic authentication failure left from before BLE took over makes `run()`
   take the loss of the BLE link for it, and wait for ever (`HostConnectLoss`).
4. A virtual cable unplug is recorded for `current_device_address`, which is the
   BLE device's while its handler is restoring the bond, or once it has taken over:
   `daemon.py:208` then removes a device that unplugged nothing (`HostConnectUnplug`).

### Disagreements without a run of their own

These are stated as definitions too, with the line they quote. To see one, copy
the safety configuration of the module, name the definition as its only INVARIANT
and run TLC.

| Definition | The code |
|---|---|
| `StartsOnlyResumed` (`HidDaemon`) | `daemon.py:138` waits with `if`, not `while`: a `suspend()` that runs between `resume()` and the loop task's wake-up does not hold the loop back |
| `StopHonoured` (`HidDaemon`) | `/stop` during a scan or a system suspend answers "Already stopped" (`api_server.py:146`) and is undone by that operation's `resume()` (against `controller.py:314`) |
| `FirstWins` (`HostConnect`) | each handler writes the shared connection before it settles the future (`ble.py:100`): the host may serve another link than the winner (against `src/README.md:151`) |
| `PinWhileOpen` (`Transport`) | `run()` calls `ensure_powered()` before it looks at `_paired_host` (`daemon.py:155`): if `bsa_server` has come back since, the chip is handed over again under the paired host's open transport, which loses the latency pin (against `cpu_latency.py:62`) |
| `ResetsOnlyCorrupt` (`DeviceStore`) | `validate_keystore()`, before a scan or a pairing, meets a keystore that an HTTP thread's `remove_pairing_key()` has truncated and not yet written, and moves it away (`config.py:229` against its own `config.py:222`): every bond is lost, since the thread then writes into the `.bak` file |
| `ForwardsDeclared` (`InputDevice`) | `_on_ble_hid_report()` takes the smallest report ID for the consumer report: a keyboard whose only report is number 1 has its keys, when they are not two bytes long, forwarded as report 5 (`ble.py:494`), which its descriptor does not have (against `ble.py:468`) |
| `GivesUpOnlyStale` (`HciResync`) | `_drop_byte()` leaves `_partial_since` running: a packet begun after the dropped byte is given up too early (against `hci_parser.py:64`) |

What else the models show of the code, without a line that says otherwise:

* Two threads that rewrite `devices.conf` take each other's truncated file for the
  list (`"misread"`) and a device nobody touched is gone; the same with the
  mapper's blocks. Two rewrites of the list of different
  length, one over the other, may leave two lines for a device (`"double"`:
  `b, a2` written over `a1, b, a2`), of which `remove_device()` drops the first.
* Two overlapping rewrites of the keystore that differ in length leave a text that
  does not parse (`"mixed"`), which the next check moves away with every bond.
  The keystore otherwise fares better than the list, because a truncated one does
  not parse and is left alone.
* `run()` may look at `devices.conf` in the middle of its rewriting and sleep
  although devices are configured (`"fooled"`, `daemon.py:144`), until something
  resumes it.
* `_save_rotated_address()` goes on to remove the old address when appending the
  new one failed, since `add_device()` swallows its errors; and it puts the new
  address of a device back that a `/remove` has just taken out.
* A cancelled wildcard handler leaves its scan running (`ble.py:283` stops it only
  when the ten seconds are over), under whatever `run()` sets up next. It assigns
  `self.connection` before it looks at the future (`ble.py:303-311`), so that a late
  link replaces the winner's connection and is hung up.
* Cancelling `connect_task` does not stop the controller's page: the lock is free
  and the controller still busy when the BLE handler starts its next attempt.
  `RadioAlone` therefore says of this only what the lock guards.
* An `on_classic_connection` task that passes over its cancellation may settle the
  future with the link it was replaced on, or set `self.connection` to None under
  the new one (`classic.py:155-173`). `ServesWinner` says that nothing else comes
  between the winner and what is served.
* When `pgrep` times out or a signal is refused, `prepare()` still sets `_warm`, and
  `ensure_powered()` takes the chip for ours while `btd` may start `bsa_server` again
  (`WarmIsOurs`).
* A sysfs flag that could not be written back is taken for the original value by the
  next `acquire()`, and stays set from then on (`PinNotLeft`).
* `request_remove()` clears the descriptor cache under the bare address only
  (`controller.py:259`); one saved as `ADDR/P` stays.
* A descriptor with digitizer collections only is passed on unchanged
  (`uhid_handler.py:69`), against the plain reading of `uhid_handler.py:16`. A
  collection that is stripped takes the report ID and the usage page set inside it,
  or before it, with it. The usage range goes after the first bytes `85 01`,
  whatever report they belong to. A consumer usage without a key stays set in
  report 1 until another one is sent; report IDs are scanned from the descriptor
  before it was stripped. A knob that reports its release in one byte is not taken
  for a consumer report (`ble.py:485` asks for two): its key stays down in report 5.

## 4. Fairness

`HidDaemon`: weak fairness of `run()`'s steps and of the host's bounded ones (they
are ready coroutines or waits with a time-out: opening, reset, the 60 s
connection wait, the drain); strong fairness of an operation's step, because
`LoopSettled` only defers it behind `run()` in the ready queue and the queue is
FIFO; strong fairness of the scheduling of a submitted pairing, which only waits
behind a woken `run()`; weak fairness of the end of the shutdown's clean-up. Nothing is assumed of clients, of powerd, of signals, or
of a connected device ever disconnecting (`HostLoses` is not fair), which is what
finding 2 turns on: `OpsComplete` and `ShutdownCompletes` except the time during
which a host goes on although it was cancelled, and nothing else.

`HostConnect`: weak fairness of the 60 s time-out, of the drain, of the windows of
the initiator and the scans, of the wildcard handler's connection time-out and
pauses, of the page attempt's time-out, and of commands the
controller answers. No fairness of peers, of pairing or authentication, and none
of the handlers' idle waits.

`HostCleanup`, `Transport`, `HciResync`, `DeviceStore` and `InputDevice` state
safety only and assume no fairness. In the last three every function runs to its
end without waiting for anybody, so that its ending is not in question.

## 5. Proofs

Every invariant and action property that a passing run checks on a small instance
is proved here for every set of devices, operation slots, requests, callers,
links, threads and addresses, for every stream of reads of any length, and for
every descriptor and report:

* `HidDaemonProofs`: `TypeCorrect`, then `Inductive`: the invariant is the type
  invariant with `LockOK` (an operation is past `_op_lock` exactly when it holds
  it), `OpsOK` (which operations get where, and that the daemon is suspended while
  one is in or past `suspend()`), `TopOK` (`run()`'s first step comes before
  that of any request's operation, though not before the request) and the three properties. Neither `NoLostWakeup` nor `FlagsEnd` is inductive
  alone: that a `clear()` in `suspend()` is harmless needs that only the lock's
  holder suspends and resumes, and that a flag falls with its own operation needs
  that a second scan is not past the lock. `WakeupNeverLost`, `SuspendedWaits` and
  `FlagsNeverStick` follow; `SuspendedWaits`, that a suspended daemon's event is
  clear, is only proved: it is a part of the invariant.

  The radio takes a second invariant, `RadioInv`, on top of the first.
  `RadioExclusive` says who has the radio now; to keep it, one must know who will
  still take it. `Stage` is where the operation that holds `_op_lock` stands, the
  only one there is (`StageFacts`). `LoopOK` ties `run()` to its host's task and
  says what a signal leaves undone; it holds whatever has happened. The other three
  hold until one of the four races is met: `AloneOK`, that `cleanup()` is never
  entered twice and that a suspend enters it only after the host's task is over;
  `OffOK`, that a suspended daemon is off but for the operation that suspended it
  (a woken `run()` would start a host, so it must not be woken); `OwnedOK`, that an
  open transport is `run()`'s, the shutdown's or the suspending operation's, none of
  which is on the radio, and that a paired host is owned by nobody else until
  `run()` wakes for it. None of the three is inductive without the others: that a
  scan finds the radio free needs `OffOK`, `OffOK` survives the return of
  `cleanup()` by `AloneOK`, and `AloneOK` needs the one owner. `RadioInductive`,
  `RadioIsExclusive` and `SuspendedMeansOff` follow; unlike the safety run they also
  cover signals at any moment.
* `HostCleanupProofs`: `CleanupInductive` strengthens the properties with: only
  `Early` callers enter before the host ends (`WaitedForHost`); before it starts
  there is nothing to take down (`NothingYet`); a call raises only once `hid_host`
  is gone for good (`RaisesLate`), and whoever took it is on the way to close the
  transport (`HandedOn`); past the channels `hid_host` is gone (`PastChannels`);
  and once the transport is being closed nothing is left to hang up
  (`NothingLeft`). The step lemma is stated on one
  relation, `StepOf(c)`, that every segment of a call satisfies. `TypeCorrect`,
  `ReturnedClosed`, `SomeoneCloses`, `InputGoes` and `ClosesLast` follow.
* `HostConnectProofs`: `ConnectInductive` has the type invariant, by groups of
  variables that change together, and `HandInv`: who is on the radio holds the lock
  (`AirInv`); no handler runs before the race, paging is over once the BLE handler
  is drained and both once the winner is set up (`PhaseInv`); the steps of the
  wildcard handler are taken only when it was started (`FoundInv`). The lock alone
  does not give `RadioAlone`: a second cancellation leaves it held by a handler that
  is gone, and what a wildcard handler leaves on the radio does not hold it, which
  is harmless because it is cancelled only after paging has ended (`AirInv`); a page
  left at the controller is in `astray` too and not excluded. `TypeCorrect`,
  `RadioIsAlone` and `HandlersAreEnded` follow.
* `HostConnectLifeProofs`: with one protocol configured, `self.connection` is the
  link being worked on, then the one that won, and somebody listens to it from the
  moment it is taken (`WorkInv`, `WonInv`, `HeardInv`); all three make an exception
  for tasks that outlived their cancellation and for a connection one of these has
  forgotten (`Forgotten`). That rests on the Classic tasks other than the latest
  being over, or among those (`TaskInv`), on the absent handler staying away
  (`AbsentInv`) and, for BLE, on the event never being cleared. `WinnerServed` and
  `LossIsNoticed` follow. `LifeInv` relates the phases to the transport and the
  future; with it every step of `HostConnect` is one of `HostLife`, a cancellation
  of it, or a stutter (`HostImplementsLife`): `HandlersLeave` says that the handlers
  change nothing the daemon sees but the future, once, so that the argument is about
  `run()`'s own steps, the peers' reports and the cancellation.
* `TransportProofs`: `Inductive` has the type invariant with three groups.
  `ChipInv`: the kinds' constants, that the chip counts as cold while `prepare()`
  runs, that `btd` stays frozen from the hand-off on unless others restart it or the
  freeze was in vain (`StaysFrozen`), and that the recovery that does not miss it
  thaws it (`Thawed`). `UserInv`: users that met no race are
  one at a time, a descriptor is a user's only at the awaits that have one, and a
  user that tries again finds nothing of ours on the device. `PinInv`: a held pin
  is one the kernel was told of and some user is there for, a flag in sysfs that
  nobody holds was left by a kill or a write that failed (`HoldOK`), and users that
  met no race hold the pin while they use the transport, if it could be had
  (`Pinned`).
  `EvictsNoUser` needs `Turns`, since only the turn-taking says that whoever arms
  the chip finds no descriptor open; `PinHeld` needs both. `PinIsHeld`, `PinGoes`,
  `NoUserEvicted`, `WarmStaysOurs` are read off it, and the two action properties
  `NeverGivesUpFrozen` and `RefusalsAreForeign` follow step by step.
* `HciResyncProofs`: `ParserInductive` has `ParsesWire` with `ClockInv` (calls come
  in time's order), `IdleInv` (what is held between calls is part of a packet),
  `TimerInv` (of which byte the timer is) and `CallInv`. That last one is the
  argument: while `feed_data()` runs, what the buffer held before the call is part
  of a packet, so that either the head is still the one the timer runs for, or
  everything older than this read is gone but at most three bytes of a header that
  has just become complete. Lemmas on suffixes of sequences carry the pass over
  the wire: a packet, and a byte that begins none, stay what they are when more
  bytes come (`PrefixFacts`). `ReadsDoNotMatter`, `NothingWithheld`,
  `TimerIsOfHead` and the action property `SilenceHeals` follow.
* `DeviceStoreProofs`: over `Shape` (jobs are jobs, functions keep their domains)
  there is an invariant for each theorem. `ListInv`: the cached list, and the list a poller is about to
  cache, is the file's when the mtime with it is, unless the file changed twice in
  a tick (`ListingCurrent`). `KeysInv` with `JobsApart`: no job is about the
  bystander, and whatever a thread has read of the keystore to write it back holds
  the bystander's bond (`BondSurvives`). `SleepInv`: while `run()` sleeps either
  `add_device()` is under way, which ends in a resume, or the list is empty and
  no rewriter will put a line back into it (`SleepsForNothing`). `TypesKept` rests
  on lemmas about what a rewriter keeps of a list (`Kept`, `RemoveFirst`) and
  leaves of another's text (`Over`). `ListedInv`: what a rewriter holds to write
  back has the bystander in it, as long as nobody read a truncated list
  (`BystanderStays`). For `RemovalLeavesNothing`, `DoneInv` says, step by step, how
  far a removal that nobody meddled with has come (what it read is still the list,
  what it cut is still cut, what it dropped is still gone); `RemoverInv` says that a
  remover's steps are a removal's, and `OnceInv` that devices.conf has no two lines
  of a device, since `remove_device()` drops one.
* `InputDeviceProofs`: `LoopAt` is the invariant of the loop of
  `strip_digitizer_collections()` at item `i`: the depth is the count of the items
  before it, the segment starts behind the last end, it is tainted exactly when it
  has shown a Digitizer page, and what is kept are the items of the clean
  collections that ended before `i`, each at the place its rank among them gives
  (`Selects`). Where the loop stops, no collection ends further on (`StopFacts`), so
  that these are all (`DigitizersAreStripped`). `NoDigitizerLeft`, that a descriptor
  of which anything was dropped has no Digitizer page at all, is only proved.
  `KeysAreReleased`: on BLE, `KnobInv`, a key that the kernel has down is one that
  report 1 or report 5 still holds; on Classic, `PlainInv`, the kernel has what the
  peer sent last, or nothing. `TypeCorrect`, only proved too, has the bounds of
  the loop's places and the limit on what the kernel accepts.

The argument by counting that these need (a least element, the largest of a bounded
set, the rank of an item) comes from the well-foundedness of `<` on the naturals
(`WFMin` and `NatLessThanWellFounded`), which unlike the induction theorems take no
operator. `Kept` is written with ranks, rather than with the library's recursive
filter, for the same reason.

Three attempts failed for a good reason and changed the model. `RemovedLeavesNothing` was
false beyond the bounds of its run: not only an `add_device()` leaves a second line
of a device, and `"double"` now says so of every change of the list. `KeysRelease`
was false of a knob that reports its release in one byte, which the values of
the run left out; `Assumed` now speaks of knobs with two bytes or more, and the run
has the short report. And a host that was being opened when a signal came had to be
said not to be open yet (`LoopOK`).

Assumptions: only those named in the modules (`NoTaskAssumption`, `OpsAssumption`,
`ReportsAssumption`, `SwitchAssumption`, `CallersAssumption`, `LinksAssumption`,
`StartsAssumption`, `SetupsAssumption`, `MayAssumption`, `RetriesAssumption`,
`ReadsAssumption`, `BystanderAssumption`, `AddrsAssumption`, `ThreadAssumption`,
`DescriptorAssumption`, `ValueAssumption`, `SizeAssumption` and the two
`BoundAssumption`s), which TLC evaluates on every run of the module. Those of
`InputDevice` say that a descriptor is a sequence of items, with report ID 0 reserved
as the HID specification has it, and that a report is a sequence of at least one
byte; `AddrsAssumption`, that there are finitely many addresses.

Only model-checked: every liveness property (`OpsComplete`, `Reconnects`,
`ShutdownCompletes`, `DrainEnds`), since fairness and ENABLED are
out of the prover's reach, and the violations, which are facts about one behaviour.

## 6. What is not modelled, and why

* In `HidDaemon` and `HostCleanup` a close of the transport always ends; the
  descriptor it may leak (`host.py:497`) and the next open's EBUSY path are in
  `Transport`, which in turn takes the order of its users as free.
* In `HidDaemon` `devices.conf` is a set that is read and written in one step; the
  system calls are in `DeviceStore`, which in turn takes the operations as jobs in
  any order.
* The loading of `uhid`, `uinput` and the chip's module, and which idle states
  `CpuLatencyHold._plan()` selects: reads of the system with no state to go wrong.
* Which links of `HostConnect` are of one device: a link stands for its address, so
  that a device that comes back is a new link. `UnplugNamesSender` is therefore
  checked with a link per protocol only. `DeviceStore` takes the address that
  `daemon.py:208` removes as any (`BeginForget`).
* The pairing dialogue, GATT and SDP discovery: sequences of requests to a peer
  that may answer anything; to the models they succeed, fail or never end.
* The steps of `HIDHost.start()`: one task, in one order, each of them a command the
  chip answers or the host gives up on (`HostFails`).
* The polling clients (KOReader plugin, BTManager, MapperManager): they keep no state
  the daemon depends on. The `/scan-status` answer that comes before the scan has
  begun (`controller.py:114`) would need them.
* The cursor process, the log, status and autostart paths, the syntax of a
  `devices.conf` line, the identity keys in the keystore, the reload signal to the
  mapper.
* bumble, the kernel, the chip's firmware: external, with any answer in any order
  the code allows for.
* The command line tools, Kindle detection, logging, user interfaces, install
  scripts, the vendored kernel module: no state shared with the daemon.

## 7. Plan

1. Done: `HostLife`, `HidDaemon`, `HostCleanup`, `HostConnect`, `Transport`,
   `HciResync`, `DeviceStore` and `InputDevice` with their runs and the theorems
   above.
2. Proofs next: that each race in `races` is needed (a behaviour that meets only
   that one), and lemmas that relate `HostCleanup` to `AfterCleanup` of `HidDaemon`
   as `HostConnectLifeProofs` relates `HostConnect` to `HostLife`.
3. `ApiClient`, the clients' polling loops against the API's guards.

Runs stay few: one or two questions for each new module, and a violation run gives
way when the finding can be read off a definition.
