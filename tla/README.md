# QCC730 SDK: TLA+ models and proofs of upgrade, boot, host rings and timers

The QCC730 SDK is firmware for a Wi-Fi microcontroller: boot loaders, an
application framework on FreeRTOS, drivers, a host interface and demos. Much of
the Wi-Fi stack is delivered as binaries, and lwIP, mbedTLS, littlefs, httpd and
the MQTT client are third-party code. What the repository owns in source, and
what is hardest to get right in it, is the path that replaces the firmware of a
device in the field (download, install, boot on trial, accept or go back, with
the power failing anywhere), the lock-free rings it shares with a host
processor, and the timers. This project models those. Paths below are relative
to the repository.

## 1. Inventory

### Firmware descriptors (`modules/fw_upgrade/fw_upgrade_mem.c`)

*State.* Flash starts with two or three sectors, each with one firmware
descriptor (FWD): a signature, a rank, a status byte and a list of images. Rank
0 is golden, `0xFFFFFFFF` is trial, anything between was accepted. Flash is NOR:
a write clears bits, only an erase sets them. RRAM holds the FDT: entries for
the two SBLs and one for the APP.
*Operations.* Find trial, current and highest rank; choose the FWD to
overwrite; erase; set a field; accept (rank, then the old FWD's status); reject
(status, rank, SBL entry); ten partition handles for reading and writing images.
*Hard.* Each is several flash writes, with the power failing between them, and
the SBL reads the same bytes with rules of its own.
*Correct when* some accepted image is bootable at every instant, a valid FWD is
complete, ranks are distinct, golden and the running image are never touched.

### Second-stage boot loader (`bootloader/SBL/src/sbl_main.c`, `system/sbl_flash_fwd.c`)

*State.* In RAM, the valid FWDs sorted into the slots trial, current, golden; in
RRAM, the APP entry (which FWD, started as what, with which mask) and the code.
*Operations.* Select, prepare the entry (full load, or RAM-only when the entry
says the code in RRAM is this image's), load and verify, commit the SBL entry
and the APP entry, try the next slot or reset on an error.
*Hard.* It overwrites the code of the old image before it knows that the new one
is sound, and the ROM loader (PBL) switches SBLs behind its back.
*Correct when* an application is always started again, and RRAM holds what the
entry says.

### Upgrade engine (`modules/fw_upgrade/fw_upgrade.c`) and API (`drivers/fw_upgrade/qapi_firmware_upgrade.c`)

*State.* One session context (status, state, image index, byte counts, digest,
buffer), the image header table, the plugin's connection.
*Operations.* `fw_upgrade` and `fw_upgrade_session_resume` block and run the
state machine: trial info, erase, connect, receive, config file, images,
duplicate images, finish, finalize. `cancel` and `suspend` come from another
task. `Done` accepts or rejects; `Init_Verify_FWD` runs after a boot.
*Hard.* Each field is read and written under a mutex, but a decision and the
step that follows it are not one critical section, and `cancel` frees the
context.
*Correct when* the context outlives its worker, every call returns and tells the
truth, resume continues exactly where the data stopped, and a FWD becomes valid
only with every image complete and verified, or copied from the running set.

### OTA demo and plugins (`demo/common/ota`)

The console command starts a task for each upgrade or resume and issues cancel
and suspend itself. The plugins deliver the file in pieces. In both, `resume`
ignores the offset it is given and returns OK; `FwUpgradeSession` follows the
documented contract of a plugin instead.

*State of the TFTP plugin* (`plugins/tftp/ota_tftp.c`). A session (status, error
code, block numbers, retries), a ring buffer under a mutex, a group of signals,
a socket.
*Operations.* `init`, `recv_data` and `fin`, called by the engine's task; a
receive task that requests, stores, acknowledges and retries.
*Hard.* Two tasks share the session with part of it unlocked; packets are lost,
repeated and late; a wait for room that is not repeated.
*Correct when* the engine gets the file and nothing else, a success without data
means its end, nothing is acknowledged that is not stored, and calls return.

### Host rings (`modules/core/hostif/ring_if_lib`, `data_svc/src/data_svc_hfc.c`)

*State.* Rings in memory shared with the host over SPI: elements with buffers, a
read and a write index; on the firmware's side how far a ring to the host has
been cleared, notifications, a queue of updates and a timer for all rings.
*Operations.* To the host: attach a packet, clear what has been read. From the
host: take a packet, replace its buffer. The host's interrupt and the timer
post updates to the threads.
*Hard.* Nothing is locked, each side sees only the other's index, and
notifications are merged or lost.
*Correct when* each ring is a channel (every packet once, in order), a buffer is
freed only after it was read, and neither side waits for ever.

### Hosted boot loader (`bootloader/HOSTED_SBL`)

*State.* Two rings of two elements, the loader's state and packet count, RRAM.
*Operations.* Take a request, ask for the image packet by packet, write each to
RRAM, report, go on, reset or boot.
*Hard.* The rings hold one message each; a reset loses them and not the RRAM.
*Correct when* an image that was reported is there, and the host gets to the end
of what it began.

### Timers (`modules/hal/qcc730/qtmr/timer.c`)

*State.* A pool of timers, the list of armed ones sorted by expiry, one hardware
comparator, a timer task, the queue of the owner's task.
*Operations.* Define, set, stop, free; the interrupt; the task's walk over the
list; the owner's handler; sleep.
*Hard.* The task gives the mutex back in the middle of its walk, and the
comparator is not programmed meanwhile.
*Correct when* no armed timer is forgotten, none expires twice or after it was
stopped, periodic ones keep their phase, and messages are handled.

### Other parts

* *SBL storage, FDT, authentication, ELF loader*: seen only through their
  results (an entry is written; an image loads, is refused, or fails late).
* *The other copy of the DFU loader* (`bootloader/SBL/src`): nothing calls it.
* *Flash, QSPI and RRAM drivers*: a write or an erase is a step of the modules
  above; command sequences and polling are not modelled.
* *Wi-Fi driver, supplicant, system services, network protocols, AT commands,
  console, peripherals, boards, tools*: driven by binary libraries, third-party,
  register access or text processing. Not modelled; PROJECT.json says why for
  each.

The hazards of this code, each at its line, are listed in PROJECT.json, with the
properties that cover them or the reason none does yet.

## 2. Modules

| module | what it is |
|---|---|
| `FwdTable` | descriptors and the two programs' ways of reading them, as operators |
| `OtaBoot` | EXTENDS it: application, SBL and PBL over flash and RRAM, with power failures |
| `OtaBootInv` | the inductive invariant |
| `OtaBootProofs` | the theorems |
| `FwUpgradeSession` | the session state machine, its tasks and its calls |
| `FwUpgradeSessionProofs` | its theorems |
| `ImageInstall` | EXTENDS `FwdTable`: areas, image entries, handles and flash contents over several upgrades |
| `ImageInstallProofs` | its theorems |
| `OtaTftp` | the TFTP plugin, its receive task, the network and the server |
| `OtaTftpProofs` | its theorems |
| `HostChannel` | abstract: a bounded channel |
| `HostEvents` | a ring to the host; implements `HostChannel` |
| `HostEventsProofs` | its theorems |
| `HostCommands` | a ring from the host; implements `HostChannel` |
| `HostCommandsProofs` | its theorems |
| `DfuLoader` | the hosted boot loader's download; its ring to the host implements `HostChannel` between two starts |
| `DfuLoaderProofs` | its theorems |
| `HresTimer` | the timers |
| `HresTimerProofs` | their theorems |
| `MC...` | the sets of packages, images, files and areas for TLC |

### FwdTable and OtaBoot

A descriptor is `[magic, status, images, sbl, rank]`. `SlotTable` and `SlotMask`
are the scan of `boot_sbl_get_fwd_info`; `TrialIndex`, `CurrentIndex`,
`HighestRank` that of `fw_upgrade_get_trial_active_fwd_index`; `SelectTrial` and
`FirstCurrent` the choices of the FWD to overwrite and to invalidate. The two
programs accept different statuses (`AppValid`, `SblValid`), and the model keeps
that. `NorStatus` is a NOR write to the status byte.

In `OtaBoot`, `img` says what really is in an image area (none, partial, or a
set that boots, is refused, or fails while loading), `rram` whose code RRAM holds
completely. `pc` names the next step of the program that runs: `off`, the SBL's
`select` to `commitApp`, the application's `verify` and `idle`, and the steps
of an install, accept or reject. Each write to flash or RRAM is an action, and
`PowerFail` is enabled between any two; RAM is then lost and flash and RRAM stay.
The exception is the header of a new FWD, written field by field: until the
status is written nobody reads it, so it counts as one write. PBL is external:
it starts the second SBL once while it is new and reverts when it did not
confirm itself. The factory state has one image set, golden in the three-FWD
layout.

### FwUpgradeSession

`ctx` is the context with its status and state, `hdr` the header table, `wk` the
tasks inside `fw_upgrade` or `fw_upgrade_session_resume`, `con` the console's
call in progress, `link` the plugin's connection, `img` and `valid` the flash. A
worker alternates `check` (the loop reads the status) and `body` (one case of
the switch, an action each); then `fin`, `mark` (the FWD becomes valid),
`reboot`, `status` (read again) and `suspend` or `free`. Cancel and suspend are
a check and an update, two steps each, and everything interleaves. When the
context is freed, a worker still inside loses it (`mine` becomes FALSE), and its
next access sets `bad = "stale"`, which is what the assertion in
`fw_upgrade_set_state` would hit; `"null"` is the use of a header table or a
digest that is not there. What the C program does after that is undefined, so
the model stops.

Lengths are counted in chunks. A chunk carries the file and position it came
from, and whether it is undamaged; the digest records whether all it has seen
was in place. The network delivers any number of chunks up to the buffer size.
With `EnvFails`, flash, memory and network calls may fail. The result of one of
them is not looked at: `fw_upgrade_process_duplicate_images` reads each block of
the running set's image (`fw_upgrade.c:1214`; the copy of the file system at line
1139 does check) and writes whatever the buffer holds. `BodyDupImages` lets such
a read fail without a word (`blind` in `img`), besides a copy that stops at any
image for an error the code does notice.

`Polite` means that the console lets a call take effect before the next one: it
resumes when no call is in progress, and does not cancel a session it has
already asked to cancel or suspend until its worker is back. With `Polite =
FALSE` it may call at any time.

Simplifications: `fw_upgrade_session_fin` is one step; the read one past the
header table in `PREPARE_CONNECT` matches no image; the FS2, RAMDUMP and
USERDATA entries that are added to every FWD are in `ImageInstall`; the user
callback and the stored error code are left out.

### ImageInstall

`flash` says of each unit which image, version and offset it holds, or that it
is erased; a write to a unit that is not erased spoils it, as in NOR flash.
`ent` are the image entries of the descriptors, `free` the partition handles
left. A session `s` goes through the states that concern flash: choose the area
(`TrialArea` with the unsigned subtraction of the code), erase the FWD and the
second file system, take over the entries the sets share, check the package,
open each image, erase block by block ahead of the writes, copy the images and
the file system that need not be downloaded, finalize. It may fail in each,
which releases what the code releases, and the device may reboot. A block of a
copied image that could not be read is written all the same, with what the buffer
held (`CopiedBlind`, `Stale`), and the session goes on. Accept, reject
and the loader are one step each here; `OtaBoot` has their details.

The disk sizes of a package are added up by `Sums`, a recursive function that
gives every partial sum; `Fits` compares the 32-bit total with the area, as the
code does once it has read the header. `FactoryAssumption` says what a
device is delivered with: entries apart from each other, behind the descriptors
and inside the flash, in the two-FWD layout inside the two halves. A program of
the factory may reach from one half into the other; then the code starts the
area behind it. `PackageAssumption` says what the parser has checked of a package,
and that its sizes add up in 32 bits: the code adds them in a `uint32_t` and does
not look for a carry.

### OtaTftp

`eng` is the engine's task in `init`, `recv_data` and `fin`, `task` the receive
task; `sess`, `ring` and `sig` is what they share. Steps end where the code
takes or gives the mutex, waits for a signal or calls the network. `net` and
`up` are sets of packets: a packet is lost by staying there and overtaken by not
being the next; the server sends one block at a time and resends. How much data
the engine expects it knows from a header, which may promise more than the file
has; then it reads until a success without data. `late` says
that `TFTP_TIMEOUT` has passed. `first` says that the engine's task has the
higher priority and so runs until it waits, as in the demo: 7
(`modules/console/qcli_pal.h:23`) against 6 (`lwipopts.h:59`).

### HostEvents and HostCommands

`own` and `ctrl` tell the control ring from the data ring: who attaches, who
clears, how much is taken per notification and in which order an element is
given back and refilled. Every access to an index the other side moves is a step
of its own. The host is external: it reads or puts one packet at a time, moves
its index and interrupts. What the two directions share, the interrupt and the
timer, appears in each module as a step that may happen at any time
(`HostInterrupts`, `TimerStopped`, `TimerStarted`). The data thread's queue
(`qcspi_hfc_data_queue`) holds callbacks of both directions: `note` in
`HostCommands` is that queue, with the updates of this ring and of the other one
in the order they were posted. An update that meets a full queue is dropped, after
the timer was stopped; `lost` records that it was this ring's and that none of its
updates is waiting.

The refinement of `HostChannel` maps the channel's contents to the elements
between the read index and the write index; in `HostCommands` an element whose
packet was handed over but which is kept because no new buffer could be had does
not count.

### DfuLoader

One action per state of `sys_loader` and message, with the two steps of
receiving a request (the size is read from the element after the index was
moved) and of sending (write, then move the index) apart. `rram` records for
each packet's place which transfer, offset and length were written there, or that
the write failed; that of an image the loader does not know is refused by
`rram_verify_address` every time. The host is external and keeps to the protocol.
So the comparisons of the rings with their shadow copies, which would make a ring
that differs look empty or full, always succeed and are left out.

### HresTimer

`timer_set` is two steps (remove, insert) because it reads the clock in between;
the task's walk is `TaskTake`, then for each expired timer `TaskExpire`,
`TaskSend`, `TaskNotify` and taking the mutex again, then `TaskEnd`. `gen`
numbers the armings so that a message can be traced to one. The build is that of
`fwconfig_QCP7321.h:138` (`QTMR_DRV`), where only a new comparator value
switches the comparator on; the counter runs through sleep
(`nt_socpm_sleep.c:4419`).

## 3. Runs

Boot and descriptors (`MCOtaBoot`). Packages are image sets with or without an
SBL that boot, are refused before loading, fail after RRAM was overwritten, or
have a foreign signature. Two power failures cover an interrupted operation
whose recovery is interrupted again; ranks up to 3 or 4 allow several accepted
upgrades, after which the descriptors repeat up to a shift of ranks.

| run | expect | shows |
|---|---|---|
| `all` | pass | two-FWD layout, every package, Done with reboot: something bootable remains, distinct ranks, valid is complete, RRAM matches, only the running trial is accepted, and the application starts again unless a set in flash fails while loading or brought an SBL |
| `inductive` | pass | three-FWD layout, everything allowed, Done without reboot: the inductive invariant, golden and the running image are untouched |
| `badload` | violation | a trial whose load fails is selected again for ever |

Sessions (`MCFwUpgradeSession`). Two or three images of lengths 2, 0 and 1 and a
buffer of 2 or 3 chunks: an image ends inside, at the end of and across a
buffer, and an empty file system is in the middle. The server offers either
format. Three or four calls suffice for start, suspend, resume and one more.
`cancel` has two workers, so that a new session can begin while the old worker
leaves; `resume` has one.

| run | expect | shows |
|---|---|---|
| `cancel` | pass | polite starts, cancels and suspends: the context outlives its worker, a success is not denied, nothing is held afterwards, every call returns |
| `resume` | pass | all four calls at any moment: a valid FWD has every image, verified or copied as far as the code can tell (`ValidIsVerified`), and the connection stands where the data go on (`StreamAligned`) |
| `complete` | pass | with a working environment the upgrade completes |

Install (`MCImageInstall`). Blocks of two units, up to five units per buffer, so
that an image begins and ends at, before and behind a block boundary; a factory
set that keeps to its half of the flash and one that does not; packages of both
formats, one that does not fit. Three upgrades use every area twice.

TFTP (`MCOtaTftp`). A ring of two blocks, block numbers modulo 5, files of 2, 4
and 5 blocks, one with an empty last block, and an empty file: the ring and the
numbers wrap around, and the end is met at once, inside and behind a block.
One fault (duplicate, foreign or odd packet, failing call) and one resend on top
of any loss and reordering.

Rings (`MCHostEvents`, `MCHostCommands`). Three and five elements, a queue of two,
three failing allocations: full, empty and wrapped rings, and a queue full of
either ring's updates.

DFU (`MCDfuLoader`). Rings of two elements, as in the code; images that are
empty, end at or inside a packet, or are too large; three requests, one failing
write and one loss of power: an image is loaded, another over it, and the device
restarts in between.

Timers (`MCHresTimer`). Two handles, three timers, a queue of two messages, three
calls, durations 1 and 2 and a period of 2 within 4 ticks: timers overtake each
other, expire together and late, and the queue is full.

| run | expect | shows |
|---|---|---|
| `install` | pass | installed images are in flash, complete and unspoilt but for blocks of a copy that could not be read; the area is free; both file systems survive; what becomes valid is the package; the running data are kept |
| `tftp` | pass | the engine gets the file; success without data is its end; acknowledged is stored; the download ends |
| `events` | pass | unread packets are kept, the ring is a channel, the control ring does not stay jammed |
| `commands` | pass | the host finds buffers, the ring is a channel; a packet of the data ring is served unless its update was dropped, and every packet is when the host goes on interrupting |
| `dfu` | pass | a reported image is whole, the loader's messages arrive once and in order, a transfer comes to its end |
| `timers` | pass | the list is sound, the comparator programmed, a timer expires once or was stopped, messages are delivered, phases kept, and due timers expire |

`TypeOK` of each module holds in its runs' configurations as well; it is part of
`IInv` in `inductive`, and proved for every module under the hypotheses section 4 names.

`badload` states what a comment says; PROJECT.json quotes the line under
"findings".

More disagreements can be reproduced with a configuration kept here, or by
changing one:

Boot and upgrade
* `OtaBootAcceptCrash.cfg` (`CurrentAgreed`): a power failure inside an accept
  leaves two accepted FWDs, of which the SBL boots one and the application calls
  the other current.
* `OtaBootAcceptTwice.cfg` (`AcceptsRunningTrial`): Done without a reboot, a second
  upgrade, Done: an image that never ran is accepted.
* `OtaBootSblRevert.cfg` (`BootsAgain`): power fails during the first load of a new
  SBL's APP, the PBL reverts the SBL, and no application starts again.
* `SblConfirmedWithTrialApp` fails with `OtaBootAcceptCrash.cfg` on
  `SblPackages` and without power failures: an upgrade with an SBL and a second
  upgrade before the reboot, which erases the trial FWD and is then refused
  because no SBL entry is aged. The next boot confirms the SBL without the APP
  it came with, although `fw_upgrade.c:745` says that an SBL must be upgraded
  together with an APP.

Sessions
* `SessionDoubleCancel.cfg` (`ContextAlive`): a second cancel frees the context
  under the worker.
* `SessionSuspendEarly.cfg` (`NoNullUse`): suspended before an image is being
  written, a resume uses what is not there.
* `Completes` fails with `SessionComplete.cfg` on `EmptyLast` in the all-in-one
  format, and `NeverStarved` with `InstallTwo.cfg` on its `EmptyLast`: the loop
  over the buffer (`fw_upgrade.c:912`) ends before it looks at an empty last
  image, and the session ends INCOMPLETE.
* `OkMeansValid` fails with `EnvFails = TRUE`: the result of the flash write that
  makes the FWD valid (`fw_upgrade.c:1725`) is ignored.
* `SessionCopy.cfg` (`ValidIsIntact`) and `InstallCopy.cfg` (`SetsExact`): an image of
  the running set cannot be read while it is copied (`fw_upgrade.c:1214`); what the
  buffer held is written, nothing compares the copy with a digest, and the FWD
  becomes valid over it.
* `SuccessReported` fails with `wk[w].ret = "ok"` as its conclusion as soon as
  the console suspends: a suspend accepted after the loop has ended does not
  keep the FWD from becoming valid, and the call reports SESSION_SUSPEND.
* `NothingHeld` fails with `Polite = FALSE`: when a cancel frees the context
  while the worker is between two states, finalize finds no context and returns
  without closing the plugin's connection.
* `InstallHandles.cfg` (`AreaFree`): finalize (`fw_upgrade.c:1728`), reject
  (`fw_upgrade_mem.c:626`) and each mount (`modules/fs/littlefs_fs.c:169`) keep
  the handle of the partition they look up; five upgrades without a reboot use up
  the ten handles, the search for the end of the running set fails, and the area
  chosen overlaps it.

Download
* `NoOverrun`, and `EndMeansEndAlways`, fail with `TftpOne.cfg` on `SlowEngine`, an
  engine task that does not outrank the receive task: the wait for room
  (`ota_tftp.c:306`) is an `if`, and the status is read before the last data are
  (`ota_tftp.c:519`).

Host rings
* `CommandsPoison.cfg` (`LosesOnePerFailure`): a failed allocation leaves an element
  with a length and no buffer (`ctrl_ring_hdlr.c:411`); the search for elements to
  refill stops at it, and the ring loses a buffer with every packet from then on.
* `NeverJamsAny` fails with `EventsBoth.cfg`: while the data ring's thread frees
  one element, the sender and the host may go once round the ring. The read index
  then equals the index to clear, the thread takes the ring for cleared and drops
  `ring_idx_clear_pending` (`ring_svc_api.c:855`), and no element is freed again.
* `CommandsShared.cfg` (`ServedData`): the queue is full of updates of the ring to the
  host when the interrupt for a packet comes. The timer is stopped
  (`ring_ctx_holder.c:279`), the packet's update dropped (`data_svc_hfc.c:379`; the
  failure is printed and reported as success), and the packet stays until the host
  interrupts again or the timer is started by the clearing of a ring.
* `ServedCtrl` fails with `CommandsBoth.cfg`: two interrupts that became one
  notification leave a packet in the control ring until the host interrupts
  again.

Hosted boot loader
* `AreaKept` fails with `DfuBoth.cfg`: the range check
  (`wifi_fw_sys_img_loader.c:866`) lets a packet through that starts where the
  area ends.

Timers
* `Programmed` and `Expires` fail without their condition `reprogram`:
  `hres_timer_pre_sleep` turns reprogramming off (`timer.c:1368`) and only
  `hres_timer_sleep_adjust`, which nothing calls, turns it on again. The
  interrupt programmed before the sleep still comes, and so does a wake-up.
* Read from the code, not modelled: defining a timer again overwrites its handle
  and leaks the old timer, which the comment at `timer.c:1062` rules out;
  `hres_timer_set_64` reports success when `timer_set` refuses the task; a message
  about a timer that was freed is still delivered.

*Fairness.* `OtaBoot!FairSpec` has weak fairness of the boot steps: from reset
to the start of the application the processor executes straight-line code that
waits for nobody; upgrades, Done and power failures are not fair.
`FwUpgradeSession!FairSpec` has weak fairness of each worker and of the console
inside a call: they are FreeRTOS tasks that are runnable, and the only waiting,
for the network, is bounded by the plugin (`TFTP_RECV_TIMEOUT` and
`TFTP_MAX_RETRY_COUNT` in `demo/common/ota/plugins/tftp/ota_tftp.c`). The
console need not make another call.

`OtaTftp!FairSpec` is fair to the two tasks and to time, not to the network or
the server. `HostCommands!FairSpec` is fair to the threads, the interrupt and
the timer. `HostEvents!FairSpec` also asks that the host reads its events and
interrupts now and then: a host that has stopped reading jams any ring.
`HresTimer!FairSpec` is fair to the counter, the interrupt, the tasks and to
waking up: the idle task sleeps with a wake-up programmed. In
`DfuLoader!FairSpec` the loader's loop runs and the host goes on with what it
has begun; it need not begin anything, and an RRAM write need not succeed.

Deadlock is checked in every run. In `OtaBoot` a boot loader that loops for ever
(`pc = "dead"`) is one, so `all` and `inductive` also show that the SBL always
finds something to boot. A session model that has met undefined behaviour, or
whose tasks are all idle, may stutter. The cfgs of `tftp` and `dfu` switch the
check off: a download that is over, a server that has given up and a device that
has booted stop.

## 4. Proofs

### Boot and upgrade

`OtaBootProofs` proves, for both layouts, every set of packages and every bound
on power failures and ranks:

* `TypeCorrect`, and `Invariance`: `IInv` always holds;
* `ValidFwdIsComplete`, `RanksDiffer`, `GoldenStays`, `RunningStays`, with no
  further hypothesis;
* `SomethingBootable` and `AcceptedTrialRuns` under `DoneReboots`; without it
  both fail, see `OtaBootAcceptTwice.cfg`;
* `RramRunning` under `Auth`: without the hash check a RAM-only load over code
  that a power failure left incomplete goes unnoticed.

The assumptions are `FwdSupportNumAssumption` (two or three FWDs) and
`OtaBootAssumption` (the shape of the packages; accepted ranks stay below the
trial value: a device would have to accept 2^32 - 2 upgrades).

None of the properties is inductive. That a valid FWD is complete depends on
which sector an upgrade works on, so `IInv` says what each program relies on
between two of its writes:

* `TrialInv`: a valid trial is always in the sector the next upgrade would
  overwrite. Hence erasing that sector also removes the only trial, and there
  are never two;
* `UpgradeInv`: during an upgrade the job's sector is still that sector, it is
  not the running one, and its status is still erased;
* `RejectInv`, `AcceptInv`: what the first write of a reject or an accept has
  established for the second;
* `SblInv`: the table in SBL RAM is the scan of the descriptors minus the slots
  given up, and after a load RRAM holds the selected image;
* `AppInv`, `RunningInv`, `AcceptedInv`: the APP entry names the running image;
  with a reboot after each Done it is never stale, so an accepted image has run.

Each action is a lemma that preserves `IInv`, split by conjunct; facts about the
scans are lemmas of their own. The action properties follow from `IInv` and one
case split on `Next`.

### Upgrade session

`FwUpgradeSessionProofs` proves, for every set of images, both formats, any
buffer, any number of tasks and calls, and with the calls to flash, memory and
the network failing or not, noticed or, in the copy of an image, unnoticed:

* `TypeCorrect`, `ValidAreVerified` and `StreamIsAligned` under `OneAtATime`: the
  console waits for its calls (`Polite`), or one task makes the start and the
  resume;
* `SuccessIsReported`, with no hypothesis;
* `ContextIsAlive` and `NothingIsHeld` under `Polite` and `ResumeWorks`: no resume
  is called for, or the flash can be opened again when it is.

`ValidAreVerified` has every image complete, and verified unless it was copied with
such a read (`blind`): more is not true of the code, see `SessionCopy.cfg`.
`ResumeWorks` is needed. A resume whose flash initialisation fails sets the status
to not started before it finalizes the session; a cancel then takes it for a
session nobody works on and frees the context, and a new session may start. The
worker of the resume goes on and finalizes and frees the context of the new one.
Without `Polite`, `SessionDoubleCancel.cfg` has a shorter way.

`IInv` has five parts besides the types. `Unique`: at most one worker is inside
with the context. `Bounds`: which lengths and which image the context may stand
at in each state. `Written`: the images before the current one are in flash,
those after it untouched, and the digest is right about the current one.
`Verdict`: a valid FWD, and a session in its last states, has all images.
`Stream`: the count of what was read is the place in the file of what was
written, and the connection or the buffer goes on from there. `Verdict` needs
`Written`, which needs `Stream` for damaged or misplaced data, so all are proved
together. `Held` (`Owned`, `Agreed`, `Kept`) is added for the last two theorems:
it relates the status to the worker inside and to the console's call in progress.
`Report` stands alone. Where images begin in an all-in-one file is a recursive
function; what its sum bounds is proved from a least counterexample.

### Install

`ImageInstallProofs` proves, for every size of block and flash, every factory
table and set of packages of `FactoryAssumption` and `PackageAssumption`, every
buffer and any number of upgrades, with every step failing or not, any block of a
copied image read or not, and a reset at any moment:

* `HandlesLast`: when `MaxHandles >= 2 * MaxSessions + MaxMounts + 1`, `Supplied`
  always holds: an upgrade that chooses its area, or copies the entries of the
  data areas, has two handles left;
* `TypeThm`, `IntactThm`, `AreaThm`, `PairThm`, `InstalledThm`, `DataThm`, from
  `[]Supplied`;
* `InstallThm`: with that many handles, all of them from `Spec` alone.

`Supplied` is needed. The code keeps handles that nobody can close again, and
with one handle left the search for the end of the running set stops at its first
entry: `InstallHandles.cfg` shows the area that results. With ten handles and one
mount the bound of `HandlesLast` allows four upgrades, and that counterexample
has a fifth. The proof counts lost handles and valid descriptors together: an
upgrade that is over has added two at most.
A reset gives all handles back, so the bound, which counts all upgrades, asks for
more than a device that reboots after each of them needs; the theorems from
`[]Supplied` have no bound on upgrades at all.

`AreaFree` is about one moment of an upgrade, and what it says depends on every
upgrade before. `IInv` says that some factory table f explains the flash
(`InvOf(f)`):

* `Sets`: every set that may run has its data areas where f has them, the two
  file systems perhaps exchanged, and its programs in the area of its FWD. Hence
  every upgrade computes the same two areas (`Lo`, `Hi`), however often the sets
  have changed;
* `Clear` and `Room`: the trial area from the address the upgrade has come to
  is free, and the images still to come fit into it. `Room` is about partial
  sums, because a partial upgrade first writes the images it downloads and then
  those it copies, which are two sums over the same package;
* `NewSet`, `OpenEntry`, `Entered`: the entries written so far are those of the
  package, in the area or, for the file system, in the one not in use;
* `Intact`, `Complete`, `Partly`, `FsErased`, `ToCopy`: what is in flash. `Partly`
  carries the block-by-block erase: behind the data of the open image the flash is
  erased to the end of the block, so that no write meets a unit that is not.

`SetsIntact` for the new set follows from `Complete` at the step that makes it
valid, and for the other sets from `Clear`: what an action writes is inside its
entry, and no valid set has anything there. A set keeps its contents in the sense
of `Keeps`: each unit is the image's own or, in a copy, the `Stale` one of a block
that could not be read; a copy of a copy keeps that. `SetsExact` is not provable,
see `InstallCopy.cfg`. Induction over sums is done by a
least counterexample (`Least`), the wrap-around of 32 bits by `PackageAssumption`.

### TFTP plugin

`OtaTftpProofs` proves, for every size of block, ring, read and file and any
number of faults of the network:

* `TypeCorrect`;
* `StoredBeforeAcked`, for any number of files downloaded one after the other;
* `StreamIsIntact` for one file (`NFiles = 1`);
* `EndIsEnd` for one file and a network without empty datagrams from elsewhere.

With a second file, a late packet of the first server may be the first to arrive
and its sender becomes the peer, so the hypothesis is not a weakness of the
proof; `TftpOne.cfg` has one file for the same reason. An empty datagram ends a
transfer without an error in the code.

`AckedIsStored` speaks of the server's block; `Protocol` says of every packet and
acknowledgement under way what it can still do. The server is at most one block
ahead of the client (`Reached`), until the client holds the last number it can
tell from an old one. `Whole` then says what is in the ring: `Contents` relates
its units to the file, what was handed out and the block stored last, and
`InTurn` says that with the engine's task first the ring is empty whenever a block
is stored. `Ended` follows the ways in which a transfer stops.

### Timers

`HresTimerProofs` proves, for any number of timers, durations, calls and messages
in the owner's queue:

* `TypeCorrect`, `ListIsSound` and `PhaseIsKept`;
* `FirstIsProgrammed`: no armed timer is forgotten by the comparator;
* `OnceAndNotStopped`, `AllDelivered`.

`ListSound` needs in addition only that the timer being set is ready and not in
the list (`SettingReady`). `Programmed` depends on why a comparator may be off:
`OffIsPast` says that it was passed by the counter, by the time the task goes by
and, when the task waits, that no timer is due by it. `OnceOrStopped` needs
`Numbered`: no two timers and no message share the number of an arming by
accident. What `Inserted` returns and that it keeps the order is a lemma.

### Rings to the host

`HostEventsProofs` proves, for every ring size N >= 2 (`EventsAssumption`), every
set of packets and every queue length:

* `TypeCorrect`;
* `UnreadIsKept`: clearing never frees what the host may still read;
* `RingIsChannel`: `Spec => IsChannel`, the refinement of `HostChannel`.

Neither of the last two is inductive: an unread element is safe only because of
how far the sender may have come round the ring. `Lap(r, w, u)` says that going
round from the first element that is not cleared, the host has read r elements,
w are published and u are in use, r <= w <= u <= N, and that the rest is free;
`IInv` says that such numbers exist. Each action moves one of them by one. The
index the clearing thread read earlier only matters in that it differs from the
first element, so that r > 0. For the refinement, a step of the host takes the
head of the channel, `Publish` appends to it, and every other step leaves it
alone.

### Rings from the host

`HostCommandsProofs` proves for every ring size, length of the shared queue and
number of failed allocations `TypeCorrect`, `BuffersAreKept` and `RingIsChannel`. The invariant
differs for the two rings. `DataInv`: every unread element has its packet, but for
the first, which may have been handed over without a new buffer; every other
element has a buffer. `CtrlInv`: without a failed allocation the elements that
miss a buffer are among two, or one when the thread is not about to fill it. The
channel starts behind an element that has been handed over, so giving it back is a
step that leaves the channel alone.

### Hosted loader

`DfuLoaderProofs` proves, for every ring size N >= 2, packet size, set of images and
any number of requests, failed writes and losses of power: `TypeCorrect`,
`DoneMeansWhole` and `RepliesAreKept`. Besides `DfuAssumption` it needs that one
of the host's images is the longest (`LongestAssumption`).

`DoneIsWhole` relates what the host was told to what RRAM holds, and between them
are two rings that nothing locks. `Line` says for each state of the loader what is
under way in each ring (at most two messages) and what the host waits for: loader
and host take turns, except that a confirmation may still be unread when the first
packet is asked for, and that the host may want another image before the loader
has read that it may. So the size is read from an element that nobody has used
again, and a packet that is taken is the one asked for last. `Transfer` adds that
the packets counted so far are in their places and that the host does not count on
the image that is being replaced. For `RepliesKept`, a message that is being
published has room (`Published`), so that it is put behind the others.

*Only model-checked*: every liveness property (`BootsUnlessSpoilt`, `CallsReturn`,
`Completes`, `Terminates`, `NeverJams`, both `Served`, `Expires`), which is outside
the prover; and that the SBL never gives up, which is a deadlock check. Every
safety invariant and every other action property that a passing run checks is
also a theorem.

## 5. Not modelled

Besides the components of section 1: the ELF and signature formats; binary
images and a FDT without an APP entry in the SBL; XIP mapping; bytes of images
(an image is a quality, a length or a sequence of units); the HTTP plugin; ring
deletion, statistics and the additional data rings of `SUPPORT_RING_IF`; two
senders on one ring; hosts that break the DFU protocol; `hres_timer_sleep_adjust`
and `hres_timer_deinit`, which have no caller; timers of duration zero.

Most of the repository's lines are register definitions, vector code, shell
commands and glue to binary libraries, in which there is no state machine to
check.

## 6. Plan

1. A resume that does not wait for the suspended call, with two workers.
2. The install of `FwUpgradeSession` and `ImageInstall` as refinements of the
   upgrade steps of `OtaBoot`.
3. The HTTP plugin and client, as far as they are this repository's.
