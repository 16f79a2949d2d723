# Verification of device_google_coral

TLA+ specifications of the programs in the device tree of the Pixel 4
("coral" and "flame"), the TLC configurations that check them on small
instances, and TLAPS proofs about them for all instances. Paths such as
`gpt-utils.cpp:819` are relative to the directory of that part in the tree.

Most of the tree is configuration (audio, thermal, overlays, init language).
The programs with a logic of their own are a library that rewrites partition
tables during an update, and a handful of small HAL services, each a few
hundred lines of C++ with threads, callbacks and sysfs in it.

## 1. Inventory

### gpt-utils: failsafe update of the boot images (`gpt-utils/gpt-utils.cpp`)

- State. On each disk (one eMMC device, or every LUN of a UFS device): a
  primary GPT (header, entry array) and a secondary one; the UFS attribute
  `bBootLunEn`, which picks the boot LUN with `xbl` or `xblbak`. Nothing in
  memory survives a call: the stage of the update is read from the two header
  signatures.
- Operations. `prepare_boot_update(stage)` for UPDATE_MAIN, UPDATE_BACKUP and
  UPDATE_FINALIZE lists the LUNs and runs `prepare_partitions` on each:
  `gpt_get_state`, the stage check, the boot LUN switch,
  `gpt2_set_boot_chain`, `gpt_set_state`. `gpt_boot_chain_swap` exchanges
  the entries of `<name>` and `<name>bak`.
- Interaction. The updater calls it, then writes the images; the boot
  firmware reads the result at any reset.
- Hard. Power loss between any two writes; a header and its array are not
  written together; several disks and a boot LUN are switched one after the
  other, and a failure leaves them in different stages.
- Correct when. At every instant the firmware finds a valid GPT and, through
  it, a complete copy of every image; a finished update restores both GPTs;
  a failed one can be resumed.

### gpt-utils: the disk API of the A/B slots (same file)

- State. `struct gpt_disk`, a copy of a disk's two headers and arrays; the GPTs.
- Operations. `gpt_utils_get_partition_map` sorts partitions by disk;
  `gpt_disk_alloc`, `gpt_disk_get_disk_info`, `gpt_disk_get_pentry`,
  `gpt_disk_update_crc`, `gpt_disk_commit`, `gpt_disk_free`.
- Interaction. A boot control HAL (`bootctrl/Android.bp` links the library
  into one; its code is elsewhere) edits the slot attributes through the
  pointers it gets, disk by disk.
- Hard. A commit writes the header before the array; no CRC is checked on the
  way in; the "backup" copy is read from the primary and never written; the
  disks of one slot are committed one after the other.
- Correct when. The firmware always finds a table in which each partition has
  one active slot; success means switched on all disks; a retry repairs.

### USB HAL service (`usb/usb/Usb.cpp`)

- State. The registered callback, `mUsbDataEnabled`, `mPartnerUp`,
  `destroyThread`, the worker thread, three locks and a condition variable;
  in sysfs the port's type and roles, the partner directory, the UDC node.
- Operations. Eight binder calls on one binder thread; the worker handles
  netlink uevents (`uevent_event`) while a callback is registered.
- Interaction. `queryVersionHelper` is run by both threads under `mLock`;
  `switchMode` waits on a condition variable that the worker signals;
  `setCallback(NULL)` signals and joins the worker; `enableUsbData` and
  `resetUsbPort` write the UDC node that the gadget HAL writes too.
- Hard. Uevents race role switches, time-outs, registration; locks are held
  over a join and over a wait.
- Correct when. No answer of the partner is slept through, a reported role is
  in force, notifications come in order and none is missing, no worker
  outlives its callback.

### USB gadget HAL service (`usb/gadget/UsbGadget.cpp`)

- State. `mCurrentUsbFunctions`, `mCurrentUsbFunctionsApplied`, a lock, the
  FunctionFS monitor (libpixelusb); in configfs the linked functions and the
  UDC node.
- Operations. `setCurrentUsbFunctions`, `getCurrentUsbFunctions`, `reset` on
  two binder threads; a callback from the monitor's thread.
- Hard. Only `setCurrentUsbFunctions` takes the lock; the monitor pulls the
  gadget up by itself, daemons die and restart, another process writes UDC.
- Correct when. Success means the host was shown the whole set, every request
  is answered once, the monitor never shows half a set, no call hangs.

### Power rails (`powerstats/RailDataProvider.cpp`)

- State. The rails found at start, the last reading of each, the message
  queue of the one streaming session, all under `mLock`.
- Operations. `getRailInfo`, `getEnergyData`, `streamEnergyData` on one binder
  thread, and the detached thread of a session.
- Hard. The thread outlives the call that made it and frees the queue; it
  holds `mLock` in `writeBlocking` for up to a second; a parse that fails half
  way leaves half a reading; a 32-bit product.
- Correct when. The queue is alive while used, clients see whole readings,
  sessions end and calls return whatever clients do.

### Dumpstate HAL (`dumpstate/DumpstateDevice.cpp`)

- State. Properties that switch modem logging (`DIAG_MDLOG_PROPERTY`) and the
  modem's file system dump; files under the modem log directory.
- Operations. `dumpstateBoard_1_1` and its modem thread, which stops logging,
  waits, copies the logs, starts logging again, packs and sends the copies and
  removes them; `setVerboseLoggingEnabled`. The process exits after each dump.
- Hard. Waits and commands time out; diag_mdlog rotates its logs; others
  switch logging in between; files are opened without O_TRUNC.
- Correct when. A dump leaves the switches as they were, reports the newest
  logs and nothing of an earlier dump, and ends.

### json-c (`json-c/json_tokener.c`, `json_object.c`)

- State. `struct json_tokener`: a stack of levels (state, saved state, value,
  field name), a buffer, `st_pos`, `quote_char`, `err`.
- Operations. `json_tokener_parse_ex` with one piece of a text after another,
  `json_tokener_reset`; values are printed by `json_object_to_json_string_ext`.
- Hard. Every place of a text may be the end of a piece, so whatever the
  tokener knows there must be in the struct and not in a local; what one text
  leaves behind must not show in the next.
- Correct when. Cutting a text makes no difference; what is printed is read
  back. (No other part of this commit links the library.)

### Smaller parts

- `powerstats/GpuStateResidencyDataProvider.cpp`, `pwrstats_util`: sysfs text
  into tables. `health/Health.cpp`: sensor values into HealthInfo.
- `keymaster/wait_for_strongbox.cpp`: one polling loop at start-up.
- `pixelstats/service.cpp`: hands configuration to a library.
- `init.*.sh`, `init.*.rc`: order of module loading, property triggers.
- `bootctrl`: a build file.
- Everything else is configuration data.

`PROJECT.json` lists the components with what is modelled, and under
`hazards` each place in this code that is hard to test with the properties
that watch it.

## 2. Modules

| module | models | role |
|---|---|---|
| `FailsafeUpdate` | what `prepare_boot_update` promises | abstract specification |
| `GptUpdate` | `prepare_boot_update` and all it calls, the disks, failures | detailed specification; implements `FailsafeUpdate` |
| `OtaScript` | `GptUpdate` driven by one updater | composition, liveness |
| `GptEntries` | `gpt_pentry_seek`, `gpt_boot_chain_swap` | algorithm against its definition |
| `UsbHal` | `Usb.cpp` | two threads and the kernel's Type-C stack |
| `UsbGadget` | `UsbGadget.cpp` | two threads, monitor, configfs, the other HAL |
| `SlotTables` | what `gpt_disk_*` promises to the firmware | abstract specification |
| `GptDisk` | `gpt_disk_*`, `gpt_utils_get_partition_map` and a boot control HAL | disks, crashes, the firmware's view; implements `SlotTables` |
| `EnergyStreams` | what `streamEnergyData` promises to clients | abstract specification |
| `RailData` | `RailDataProvider.cpp` | binder thread, session threads, queues; implements `EnergyStreams` |
| `Dumpstate` | `DumpstateDevice.cpp` | binder thread, modem thread, properties, files |
| `JsonObject` | values and `json_object.c`'s printer | operators |
| `JsonTokener` | `json_tokener.c` and a caller | one action per call, one operator per state |
| `MC*` | instances of the above for TLC | |
| `FailsafeUpdate_proofs`, `GptUpdate_proofs` (with `OtaScript`), `GptEntries_proofs`, `GptDisk_proofs`, `UsbHal_proofs`, `UsbGadget_proofs`, `RailData_proofs`, `Dumpstate_proofs` | theorems | each extends the module it is about |

### GptUpdate

`prim`, `sec` are the header blocks, `parr`, `sarr` the entry arrays,
`bootLun` the UFS attribute. An array is abstracted to the order of the
twins in it (`"normal"`, `"swapped"`) or `"torn"`, which matches no CRC; a
header to its signature, whether its own CRC matches, and the array its
PARTITION_CRC belongs to. That a swap produces exactly the exchanged array is
what `GptEntries` checks.

Every action is one block operation, so that a power loss fits between any
two: `CheckStage` (the two `gpt_get_state` and the stage check),
`SwitchBootLun`, `WriteChainHeader` then `BeginChainArray`, `EndChainArray`
(`gpt2_set_boot_chain` writes the secondary header first, and an array spans
blocks), `SetPrimaryState`, `SetSecondaryState`, `Return`. `IoError` ends the
work on one disk at any of them and `prepare_boot_update` goes on with the
next one; `Crash` loses the call. With `TornBlocks` either may leave the
header that was being written with a CRC that does not match.

Codes that matter are kept: `gpt_boot_chain_swap` returns 1 on a disk without
twins and its caller takes that for success; a stage that is already set
returns 0. `LookupFails` names the symlinks whose lookup may fail though they
exist. With `"twins"` one that cannot be looked up is skipped, so that a call
may get any part of the list of disks (`Listings`). With `"xbl"` the two `stat`
of `gpt-utils.cpp:821` and 865, made for every disk of every call, may fail and
are taken for a device without xbl (`XblLookups`): the boot LUN stays where it
is and the call goes on to its result of 0. Two history variables say what this
has left behind: `skipped`, the disks some call has left out, and `xblMissed`,
that the last UPDATE_BACKUP to reach the switch left the boot LUN at B. The
protected images of the disks not skipped are `Covered`.

The updater and the firmware are external. The updater may call any stage at
any time, writes a copy only after its stage returned 0, goes to the backup
copies only when all main ones are new, and may stop anywhere. The firmware
takes the primary GPT if header and array are valid, else the secondary, and
loads the first twin listed.

### GptEntries

The loop over PTN_SWAP_LIST on an array of entries. A name is a sequence of
parts, so that the prefix tests of `strncmp` mean what they do in the code.
The check and the theorem compare the final array with a direct definition of
"every twin exchanged, everything else in place". `SwapListOK` has what is true
of PTN_SWAP_LIST: no name twice, and none that is another's twin.

### UsbHal

One port. `pc["binder"]` and `pc["worker"]` stand between the accesses to
shared state; each lock is a variable with its holder, the condition variable
has its own waiting states, SIGUSR1 is sent in one action and handled in
another, and it interrupts `epoll_wait` but no mutex; the loop's test of
`destroyThread` and `epoll_wait` are two steps (`EnterEpoll`), and a signal
handled between them is lost. A port status is abstracted to how recent it is
(`rev` counts the partner's comings and goings), how it was read, and
`usbDataStatus`: `"torn"` if the partner changed meanwhile, `"failed"` if a file
could not be read, which the code reports with an error status (`ReadingOf`).
`WriteMode` has both ways in which a write to port_type fails: the file cannot be
opened, and the code goes on to drp; or the kernel refuses what `fclose` flushes,
which the code does not see, and it waits all the same. `refused` (history) is
the second.
`PartnerChange` is the kernel. `LeaveCV` is the time-out of PORT_TYPE_TIMEOUT
seconds or a spurious wake-up.

### UsbGadget

A request is a set of functions. `linked` and `udc` are configfs; `Bind` is
the kernel's rule for pulling up (bound already, empty, or a FunctionFS
function without descriptors: refused). One action per step of
`setCurrentUsbFunctions`, `tearDownGadget`, `validateAndSetVidPid` and
`setupFunctions`; `LinkStep` may link a part and fail. The monitor pulls up
when its descriptors are there, again after a daemon died and came back, and
then runs `currentFunctionsAppliedCallback`. The USB HAL appears as what it
does to the UDC node: `PortReads`, `PortWrites` (read, then write what the
reading calls for) and `PortResets`. The two members read without the lock
are read one after the other, in either order, as the compiler may have it;
before the first request they hold any value, as they are not initialised.

### GptDisk

Attributes of an entry are `active` and `ok`; an array has two blocks, one per
slot, so that a torn array is a mixture. `hdr[l][i]` has the place of its
array, whether its own CRC matches and the array its PARTITION_CRC was made
from. `pc` walks through `gpt_disk_get_disk_info` (two headers, two arrays),
the HAL's edits, `gpt_disk_update_crc` and `gpt_disk_commit` (header, two
blocks). The partition map is a set of partitions per disk: the code's vectors
are only walked through. `missed` are the partitions that exist and whose lookup
fails in this operation: they are not in the map, whose result is 0 all the same.
`unchecked` has, per disk, the partitions whose entries a handle has taken from
an array while the header's CRC of it did not match. `Failed` lets the HAL give up a disk or make its next call on the
handle all the same, which is what the `is_initialized` tests are for. A fault
in a write leaves the old block, the new one, or a header with a wrong CRC; a
failed lookup counts as a fault, too.

`SlotTables` has none of this: a disk has a table of its own and the factory's,
one of them is in force, half of a table may be edited only while it is not in
force, and it comes into force when the operation has been done on all of it.
The partitions concerned are the operation's own (`listed`), so one that was
missed is not promised to change. `Abs` maps `own` to the primary array and `boot` to whether the primary GPT is
valid. `gpt_set_header` is then the step that drops the old table, the last
block that matters the one that accepts the new one.

### RailData

A reading is its timestamp (`clock` is the monitors' time), a sample one
reading of every rail. At start-up `readdir` may list the monitors in any order;
the indices of the rails follow that order. `mLock` has its holder; `parseIioEnergyNode` reads one
monitor per step and may stop at any line, as the code does at a bad one once it
has a timestamp. Before that it skips bad lines, and it does not count the rails
it finds: a file without a timestamp leaves all old readings of its monitor, one
that is cut short the old readings of its last rails, and both count as read. A
number that is none is read as 0, and 0 is taken for a timestamp. `misread` (history) has the
monitors of which such a file was taken (`Misread`), `Trusted` are the rails of
the others. `streamEnergyData` makes queue and thread, `Describe` hands the queue out
under the same lock. `WriteTimesOut` is `writeBlocking` on a full queue: the
lock is held and the sample is counted. The queue's memory `fmq[k]` survives
in the client after the service has freed its end.

`EnergyStreams` knows readings, queues and sessions that are new, open or over,
and neither lock nor thread. A sample may be put only while all rails of each
monitor that has not been given up (`misread`) have been read together (`Whole`); in `RailData` that is so at
`WriteSample` and `WriteTimesOut` and may not be at other times. A parse, of
either thread, is `Refresh`, whether it fails or not.

### Dumpstate

`pc` is the binder thread, `tpc` the modem thread; the sections of the report,
each with its time-outs, are one step each. A file is the dump that wrote it
last and whether the end of something older may be behind it. The logs of
diag_mdlog are numbered `oldest` to `newest`, as it writes and removes them in
order. External: init,
which follows the property in its own time; diag_mdlog's rotation; somebody
else who switches logging; a kill at any point. `Return` ends the process, and
with it a modem thread that is still running.

### JsonTokener and JsonObject

A text is a sequence of characters with NUL at the end or not. Words have two
letters, digits are 0 and 1, the four digits of a `\u` escape are one
character (a control character, a high or a low surrogate). The machine of
`Run` is the tokener with the locals of one call (`case_len`,
`got_hi_surrogate`); a call is an action, so what is in a local is gone at the
next one. Case-insensitive words, exponents, sizes and out-of-memory are left
out. Objects are sequences of pairs in the order in which the hash table keeps
them.

## 3. Runs

Times are for two workers on a small machine.

| run | instance | checks |
|---|---|---|
| `gpt_ufs` | two LUNs with one protected image each, `xbl` in the boot LUNs and lookups of it that fail, torn blocks; 126 850 states | the properties of the update, refinement of `FailsafeUpdate` |
| `gpt_mixed` | an image whose twin is on another LUN, one without a twin, `xbl` in the boot LUNs, lookups of both kinds that fail; 2 989 807 states, two minutes | the inductive invariant `Inv`; what is not protected is not touched; corrupt headers are left alone |
| `ota_live` | as `gpt_ufs` without torn blocks, lookups of both kinds that fail, one updater that retries, three faults; 173 119 states | `UpdateCompletes`, `DoneIsComplete` |
| `gpt_entries` | all arrays of up to five of seven names; 36 200 states | `SwapIsTwinExchange` |
| `usb` | three binder calls, two partner changes, failures of reads and writes, refusals seen and unseen; 289 681 states | the properties of `UsbHal` below |
| `usb_gadget` | two calls, two daemon changes, USB HAL, failures; 252 345 states | the properties of `UsbGadget` below |
| `gpt_disk` | two disks, four partitions of which one is missing, two faults, failed lookups among them; 1 055 300 states, two minutes | the properties of `GptDisk` below, refinement of `SlotTables` |
| `rail_data` | two monitors with three rails, two calls, two sessions, failing sysfs, one file that is not sound; 727 363 states, two minutes | the properties of `RailData` below, refinement of `EnergyStreams` |
| `dumpstate` | two dumps, three logs, one fault; 90 492 states | the properties of `Dumpstate` below |
| `json` | all texts of up to four of nine characters, chosen longer ones, two texts per tokener, prints of 139 values in three formats; 121 929 states | `SameAsOneCall`, `PrintedIsRead` |

Runs that show a disagreement between a comment of the code and what it does
(each has an entry under `findings`):

- `gpt_xbl_ready`: UPDATE_BACKUP sets the boot LUN before the GPT. If it
  stops in between, the next UPDATE_MAIN finds its stage "already set" and
  returns 0 with the main `xbl` booting, the copy it says may be rewritten.
- `usb_unregister`: `setCallback(NULL)` joins the worker under `mLock`, for
  which the worker may be waiting; or the signal comes between the test of
  `destroyThread` (799) and `epoll_wait` (802). The thread stays.

Other behaviour found while modelling, which the properties leave out by name:

- `gpt-utils.cpp:1018`: a twin's symlink that cannot be looked up is skipped,
  the call returns 0, and that image is overwritten while it boots. The
  properties give up the images on such a disk (`Covered`), and those only:
  every other disk keeps what it is promised, and the one left out keeps a valid
  GPT. The boot LUN belongs to no disk, so `XblBackupFailsafe` holds only while
  none was left out: after UPDATE_MAIN without one of two LUNs and UPDATE_BACKUP
  with both, a next UPDATE_MAIN switches the boot LUN to B on account of the one
  that was missing, while `xblbak` is half written.
- `gpt-utils.cpp:865`: if `stat` of one of the xbl links fails in UPDATE_BACKUP,
  the comment has it that the target does not use XBL; the boot LUN stays at B,
  the call returns 0, and `xblbak` is overwritten while it boots. So
  `XblBackupFailsafe`, and what `FinalizeRestores` and `DoneIsComplete` say of
  the boot LUN, hold only while `~xblMissed`. A failure in UPDATE_MAIN (821) is
  harmless: A goes on booting.
- `gpt-utils.cpp:1079-1084`: a partition that exists and cannot be looked up is
  skipped by the map with a result of 0 (1110-1116). Its slot is not switched
  and the operation succeeds; `SuccessMeansSwitched` is about the others.
- `gpt-utils.cpp:1382-1452`: `gpt_disk_get_disk_info` compares no CRC. After a
  power loss within a commit the next change of an attribute gives the torn
  array a matching CRC, with two active slots or none until a slot is set again
  (`unchecked` in `OneActiveSlot`). As the backup pair is read from the primary
  (1400) and never written, until then the firmware falls back to the table the
  disk was made with.
- `Usb.cpp:353`: an "add" uevent queued before the mode was written is taken
  for the partner's answer. `Usb.cpp:332`: what the kernel refuses shows in
  `fclose`, whose result is ignored; an attachment during the wait then makes a
  role switch a SUCCESS that was never made (the exception in
  `ReportedModeInForce`). `Usb.cpp:743`: a detach handled while `switchRole`
  holds its lock is dropped by the trylock; the port stays in a fixed mode.
- `UsbGadget.cpp:50`: `getCurrentUsbFunctions` between the two assignments of a
  new request reports the new functions as applied.
- `RailDataProvider.cpp:145`: a monitor's file without a timestamp, with too few
  rails or with a number that is none is taken for a reading. The answer is
  SUCCESS with old values, or with the timestamp 0.
- `RailDataProvider.cpp:262`: a product that wraps gives a session fewer samples
  than asked for. 103: a sampling rate that is no number ends the search for
  rails of all later monitors. 114: two rails of one name leave an index unused.
- `DumpstateDevice.cpp:298`: if somebody is switching logging off while the dump
  reads its status, the dump switches it on again. A killed dump leaves logging
  off.
- `json_tokener.c`: `-Infinity` fails if a piece ends behind the sign (684) and
  behind any word or escape, because `st_pos` is not reset (686), even in the
  next text; `-1I` fails if it is cut
  behind the sign, for the same reason (684 counts the characters of this piece
  only), and gives -1 if it is not; a surrogate pair that is cut becomes a replacement character, and
  if the cut is right behind the second `\u` the escape never ends (585-588); a
  comment behind an inner value that ends with NUL returns that inner value
  with success and leaves the depth (855-859); `/***/` never ends (467-475).

### What the properties say

- `Failsafe`, `XblBackupFailsafe`, `MixedOnlyAfterMain`: at no crash point is
  the device without a valid GPT, without a complete image to boot, or with a
  mixture of versions while main copies are incomplete.
- `FinalizeRestores`, `DoneIsComplete`, `UpdateCompletes`: success of the last
  stage means both GPTs agree again on every disk; disks that failed at
  different stages do not block each other for ever.
- `UnbackedUntouched`, `CorruptHeaderFrozen`: disks the library must not touch.
- `ImplementsFailsafeUpdate`: with `boot` mapped to the copy the firmware would
  load, every step writes a copy not booted, moves the images of one disk to
  complete copies, gives up the images of a disk that is left out, or changes
  nothing.
- `NoLostPartnerSignal`: the order lock, clear, write, wait loses no wake-up.
- `ReportedModeInForce`: no uevent undoes a role switch before it is reported,
  and only one the kernel has refused is reported without being made.
- `NoWorkerWithoutCallback`: no registration sequence leaves a second worker.
- `NotificationsInOrder`, `StatusFollowsAck`, `EveryChangeReported`: both
  threads report statuses in the order of their readings, agree with
  acknowledged calls, and report every change the worker was told of (if only
  with an error status when sysfs cannot be read).
- `SuccessMeansPulledUp`, `AnsweredOnce`: whatever daemons, monitor, USB HAL
  and the other thread do, the framework gets one answer per request, and
  SUCCESS only for a set the host was shown whole.
- `MonitorPullsUpWhole`: a monitor never pulls up the links of a later request.
- `EveryCallReturns`: lock, join and wait in `UsbGadget` always end.
- `PrimaryDamagedOnlyByFault`, `RetrySucceeds`: no order of `gpt_disk_*` calls,
  with failed ones ignored, damages a GPT; only a fault within a commit does,
  and nothing it leaves keeps the next operation from going through.
- `OneActiveSlot`, `SuccessMeansSwitched`: what the firmware would boot never
  has two active slots or none, and after success it is the slot asked for, on
  every disk, for every partition that could be looked up.
- `ImplementsSlotTables`: with power losses and errors anywhere, what the
  firmware reads changes only to the factory's table or to one on which the
  whole operation has been done.
- `QueueAliveWhileUsed`, `SamplesAreWhole`, `NothingHangs`: the session thread,
  the next call and a client that does not read never meet on a freed queue, on
  a half parsed reading or in a deadlock; an answer is not older than the moment
  its call took the lock, but for rails whose monitor's file was not sound.
- `ImplementsEnergyStreams`: sessions do not overlap, a client gets readings of
  one moment, in order, at most as many as it asked for, and readings never go
  back, except from monitors whose files were not sound.
- `SwitchesRestored`, `ReportIsOfThisDump`, `NewestLogsReported`,
  `EveryDumpReturns`: whatever times out or fails, a dump cleans up behind
  itself, and one that nothing disturbed has exactly the newest logs.
- `SameAsOneCall`: cuts, resets and reuse make no difference to a parse, but for
  the cuts named in `CutMatters` and what `NextText` names.
- `PrintedIsRead`: print and parse are inverse, in every format, and no array or
  object that breaks off is taken for a value.

### Bounds and why they are enough

- Two LUNs are the least for partial failure across disks, and the loop treats
  all alike; the theorems below hold for any number. `gpt_mixed` has each way
  in which a twin can be missing, and calls that miss any of its disks. A LUN
  without twins makes UPDATE_BACKUP fail on every call, so the two devices
  cannot be one.
- `MaxFaults = 3` in `ota_live`: one fault per stage. `GptUpdate` itself has
  no bound: its counters are finite by nature.
- `MaxChanges = 2`, `MaxCalls = 3` in `usb`: registration, a role switch and
  one more call, with a detach and an attach around them: the lost wake-up,
  the late reading and the worker left behind all need no more, as the
  mutants show.
- `MaxCalls = 2`, `MaxDaemon = 2` in `usb_gadget`: two requests overlap, a
  daemon dies and returns. Requests: NONE, one set without and one with
  FunctionFS, each with a vendor function.
- `gpt_disk`: two partitions on one disk, one on another, one nowhere; two
  faults are a damaged commit and a second one while it is repaired; an operation
  that misses partitions has spent one of them.
- `rail_data`: one unsound file (`MaxMisread = 1`), so that one monitor's rails
  lose their promise and the other's must keep it; a queue of two samples and a session of three, so that the queue
  fills; a session whose product wraps to none; `MaxClock = 2` tells two
  readings apart.
- `dumpstate`: of three logs two are kept and one is reported; the second dump
  finds what the first left; one fault of each kind in turn.
- `json`: four characters reach every pair of states; depth 3 is exceeded; the
  longer texts have the escapes, comments and numbers; two texts on a tokener
  show what the first leaves.
- Each property has a mutant in `PROJECT.json`: a plausible slip in one
  definition that makes TLC report that property violated within these bounds.

### Deadlock

Checked in `gpt_ufs`, `gpt_mixed` (a crash is always possible), `gpt_disk` (a
HAL may always begin again) and `usb_gadget` (the USB HAL may always reset the
port). The other runs say `CHECK_DEADLOCK FALSE`: `GptEntries` and `OtaScript`
end, a text is read to its end, and in `UsbHal`, `RailData` and `Dumpstate` the
bounded numbers of calls, changes and dumps run out. There, threads that wait
for each other are what `DestroyEndsThread`, `NothingHangs` and
`EveryDumpReturns` look for.

### Fairness

- `OtaScript`: weak fairness of the script and the library together, which are
  one thread. Faults are not fair. Headers are not torn in this run: one whose
  CRC does not match keeps its disk from being updated for ever
  (`CorruptHeaderFrozen`).
- `UsbHal`: weak fairness of each thread, of signal delivery and of the
  time-out (`pthread_cond_timedwait` ends). None for calls, partner changes or
  spurious wake-ups. The locks themselves are not assumed fair: weak fairness
  would let one thread take a lock for ever while the other waits, but with a
  bounded number of calls and changes no thread comes back for ever.
- `UsbGadget`: weak fairness of each binder thread and of the monitor's
  thread; the wait for a pull-up ends by itself after `timeout`. None for
  calls, daemons or the USB HAL.
- `RailData`: weak fairness of the binder thread and of each session's thread;
  a write to a full queue ends after WRITE_TIMEOUT_NS. None for clients, so a
  queue may never be read. The lock is not fair: calls and sessions are finite, so
  that a thread kept from the lock for ever by new calls is out of this run's
  sight.
- `Dumpstate`: weak fairness of both threads, every command and wait having a
  time-out. This takes for granted that the client reads what it is sent: writes
  to its descriptor have no time-out. None for init, diag_mdlog or anybody else.

## 4. Proofs

Every invariant and action property that a run checks is a theorem, for every
value of the constants, except the two of the tokener. Each proof has the same
shape: the properties are not inductive, an invariant that is (`Inv`, `UsbInv`,
`DiskInv`, ...) says what holds at each place of the code; one lemma per action
shows that the action keeps it; the theorem puts them together.

| module | theorems | for every |
|---|---|---|
| `FailsafeUpdate_proofs` | in the abstract update the copy that boots is complete, of every image not given up | disks and images |
| `GptUpdate_proofs` | `TypeOK`, `Inv`, `Failsafe`, `XblBackupFailsafe`, `FinalizeRestores`, `MixedOnlyAfterMain`, `UnbackedUntouched`, `CorruptHeaderFrozen`, `ImplementsFailsafeUpdate`; no disk is skipped, and the boot LUN never missed, unless a lookup fails; `OtaSpec => Spec`, `DoneIsComplete` | disks, partitions, placement of the twins; UFS or eMMC; torn blocks or not; lookups that fail or not |
| `GptEntries_proofs` | `SwapIsTwinExchange` | arrays and lists of any length |
| `GptDisk_proofs` | `TypeOK`, `PrimaryDamagedOnlyByFault`, `OneActiveSlot`, `SuccessMeansSwitched`, `RetrySucceeds`, `ImplementsSlotTables`, its `WholeChanges` | disks, partitions, lists of the HAL, numbers of faults |
| `UsbHal_proofs` | `TypeOK`, `NoLostPartnerSignal`, `ReportedModeInForce`, `NoWorkerWithoutCallback`, `NotificationsInOrder`, `StatusFollowsAck` | modes, numbers of calls and of attachments, with or without faults |
| `UsbGadget_proofs` | `TypeOK`, `SuccessMeansPulledUp`, `AnsweredOnce`, `MonitorPullsUpWhole` | threads, requests, vendor functions |
| `RailData_proofs` | `TypeOK`, `QueueAliveWhileUsed`, `SamplesAreWhole`, `ImplementsEnergyStreams` | monitors, rails, sessions, queue sizes, calls |
| `Dumpstate_proofs` | `TypeOK`, `SwitchesRestored`, `ReportIsOfThisDump`, `NewestLogsReported` | numbers of logs, limits, dumps and faults |

### Assumptions

Each module's assumption on its constants, which TLC evaluates in its runs:
what the code's data satisfies (an image has one disk, an eMMC device one disk
and no boot LUNs; names of rails are distinct), the bounds of the code's
integers, and that a value that stands for "nothing" (`Null`, `NoLun`, `Absent`,
`NoTar`) or for a place of a thread is not at the same time an ordinary one.
One says more: `SwapListOK`, that no name of PTN_SWAP_LIST is the twin of
another. With a list `<<"tz">>, <<"tz", "bak">>` the loop would pair entries
twice.

The theorems of `GptUpdate_proofs` have no other hypothesis. That of
`NothingSkipped`, that the device has no UFS or that lookups do not fail, is
what makes `skipped` empty and `xblMissed` false, and the exceptions of the
properties with them.

### GptUpdate

`Failsafe` is not inductive: whether a header may be rewritten depends on what
the other one says, on the stage of the call and on which images are half
written. `Inv` adds

- `DiskInv`: a primary header is given up only in front of a valid secondary
  whose array is swapped, and never on a disk without twins; a damaged
  primary array means that the secondary is intact;
- `ImgInv`: a main copy is half written only while the primary GPT is invalid,
  a backup copy only while it is valid;
- `CallInv`, `StepInv`: what holds at each point of `prepare_partitions`;
- `LoopInv`: the disks already visited are where the stage leaves them, unless
  an error is remembered; hence what a return of 0 means;
- `XblInv`: the boot LUN is B only while some disk has yet to come back; it is
  kept only while no call has left a disk out and `~xblMissed`.

`ImgInv` and `LoopInv` are about the disks that no call has left out (`Listed`),
`DiskInv`, `CallInv` and `StepInv` about all: a call that misses a disk weakens
nothing that is known of the others (`PickLunInv`, where `skipped` grows).

There is one lemma per action (`PickLunInv` to `CrashInv`), with the writes
that fail half way taken apart in `FailedWrites`; `InvStep` puts them together.
The refinement is proved per disk: a step either keeps the firmware's choice
(`BootedCopyNext`) or is `Switch` of the images on one disk (`DiskStep`), and
the updater's writes are `Write` because of `ImgInv` (`WriteStep`).

`MixedOnlyAfterMain` relates images on different disks and needs more:
`MixedInv` says that while some main copy is not new, either nothing has been
written at all or every disk boots its backups and these are alike; and that
backup copies are touched only with every primary GPT back in force. A disk can
change what it boots only in a call whose stage matches (`SwitchedDisk`).

`OtaScript` is proved to implement `GptUpdate` (`OtaStep`: each step of the
script is a step of the arbitrary updater), so all of the above holds under it;
`DoneIsComplete` is then the case of the last return of 0, read off `LoopInv`
and `XblInv`.

### GptEntries

`EntriesInv`: the array is the original one with the twins of the names passed
so far (`Swapped`) exchanged. As no name is another's twin, the exchange of one
pair leaves the twins of any other where they were (`OthersExchanged`), so the
two searches find exactly the entry and its twin, in either order
(`TwinsInPlace`, `SeekBoth`), or at most one of them (`SeekMissing`), and one
more exchange is what the invariant says next (`OneMore`). The loop is a step of
the specification, so no induction over the list is needed.

### GptDisk

The "backup" pair is never written (`BackupKept`), so there is always the
factory's table to fall back to. `HandleInStep` says what the handle holds after
each call, failed ones included; with `CommitInStep`, that between update_crc and
the last block the header has the CRC of the array being written, a commit that
goes through leaves a valid primary GPT. `OneActiveInStep` follows the array from
the disk through the edit and back. `OthersKept` is the part one does not expect:
`SuccessMeansSwitched` and `OneActiveSlot` together need that entries outside the
HAL's list are still the factory's, or setting a slot again would not repair an
array that was taken over unchecked. `DoneInStep` and `SparedInStep` are about
the disks already done; the partitions `missed` in this operation are none of the
map's, so that what they hold is left to `OthersKept` and `OneActiveInStep`, which
keeps `unchecked` per partition: one that was missed when a slot was set again
still has what was taken over.

The refinement needs one invariant more. `TableInStep`: until the edit the
handle's array is the one on the disk, after it the edit of that one. This
survives the commit because to edit a table of which some blocks have been
edited already is to edit the whole (`EditedBlocks`). So when the primary GPT
becomes valid again, by whichever write, its array is the handle's, on which
the operation has been done (`WholeIsEdited`); while it is not valid, the
blocks put are `Edit` (`HalfIsBlock`). That the operation does not change under
a commit is `OrderFrame`. `WholeChanges` is then proved of `SlotTables`, and
`BootTableInForce` says that its table in force is the one `BootTable` reads.

### UsbHal

`LocksHeld` derives the holder of each lock from where the threads stand. The
lost wake-up is excluded by `PartnerAwaited` (from the write of port_type to the
wait `mPartnerLock` is held, and an attachment handled after it has left
`mPartnerUp` set), the role switch by `ModeKept` (once written and not `refused`,
the mode stays until it is reported), the order of notifications by
`ReportsOrdered` (what is told is not newer than what is being read, under
`mLock`), the acknowledgement by `DataAcked`. `WorkerOwned` allows a worker
without a callback only while it is being joined.

### UsbGadget

One thread at a time is past the lock (`LockHeld`). `LinksInStep` says for each
place what is linked, and that no monitor runs while links are made;
`MonitorInStep`, that a running monitor has all the links of its own request
before it, or none. `PulledUp` carries "was shown whole" from the monitor's
pull-up to the return, through what the USB HAL does to UDC meanwhile.

### RailData

`LockHeld`, and `SessionOwned`: a session whose thread runs has the queue, so a
second session cannot begin before the thread has ended. `ReadInStep` says that
the monitors a thread has read in this parse have one timestamp each, whatever
mixture an earlier parse has left in the others; readings never go back, so
queued samples stay below them (`SamplesInStep`). All of it is said of `Trusted`
rails only, and as `misread` only grows (`TrustStep`), what is trusted after a
step was so before it.

The refinement (`StreamsStep`) follows from the same invariant: at a write the
thread's session is the one that owns the queue and every monitor has been
parsed (`SampleStep`); a session opens when no other thread is past its start
(`OpenStep`); a parse only moves readings forward (`ParseStep`); what the binder
thread and a session's thread do in between shows nothing (`BinderUnseen`,
`PollerUnseen`).

### Dumpstate

As long as no dump was killed or failed to clean up, the invariant says at each
place of the modem thread which files exist and whose they are (`CleanInStep`,
`FreshInStep`, `FilesOfThisDump`), which switches are yet to be set back
(`EfsInStep`, `MdlogInStep`), and, if nothing else went wrong, that diag_mdlog
is stopped while its logs are copied, so that what was listed is what is there
(`StoppedInStep`, `LogsInStep`). `ThreadInCall` is the join before the answer.

### Only model-checked

- Liveness (`UpdateCompletes`, `EveryChangeReported`, `EveryCallReturns`,
  `NothingHangs`, `EveryDumpReturns`): fairness is out of the prover's reach.
- `SameAsOneCall`, `PrintedIsRead`: tokener and printer are recursive operators
  over texts and values, and the prover has neither these nor the induction
  over data that a proof would need.
- `DestroyEndsThread`, `ReadyMeansBackupXbl`: do not hold (section 3).

## 5. What is left out

- Contents: names, GUIDs and CRC values; what a role or a moisture status says;
  vendor and product IDs (only which combinations are accepted).
- Short reads and writes, which `blk_rw` (`gpt-utils.cpp:155`) takes for
  success, and the bound MAX_LUNS on the list of LUNs.
- More than one Type-C port; an empty port list, as after an `opendir` that fails
  (548), of which `Usb.cpp:212` writes the first element.
- `usb_data` beside the UDC node in `enableUsbData`: one written and the other
  not is reported as an error and stays as it is.
- `json-c` beyond tokener and printer: `linkhash`, `printbuf`, `arraylist`,
  reference counts, accessors and conversions, files. A double without a
  fraction is printed without one and read back as an integer
  (`json_object.c:592`); it is not among the values checked.
- What the sections of a dumpstate report contain; rails of one name.
- Properties that cannot be set by the dump (`DumpstateDevice.cpp:270`, 298, 343):
  then a switch stays as the dump left it.
- The rails of a monitor's file that come before its timestamp: they are skipped,
  which is modelled for the last rails only. A timestamp that is no number is 0 in
  the model, and also stands for one beyond the range of the integer.
- Health, residency providers, `wait_for_strongbox`, pixelstats and the init
  scripts: no concurrency or state of their own beyond a loop or a table.
- The monitor, configfs, the updater, the boot control HAL, the firmware, diag_mdlog
  and the Type-C stack are modelled from how this code uses them.

## 6. Plan

Done: `GptUpdate` with its abstract specification, proofs and script;
`GptEntries`; `GptDisk`; `UsbHal`; `UsbGadget`; `RailData`; `Dumpstate`;
`JsonTokener` with `JsonObject`.

All invariants, action properties and refinements outside `json-c` are proved.
Three components have an abstract specification; what the others promise is
stated by their invariants.

Left, in this order:

1. `linkhash` as a refinement of a map: open addressing with tombstones, and
   the order `JsonObject` takes for granted.
2. `wait_for_strongbox` and the residency providers.
