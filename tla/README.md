# Hyperagents in TLA+

A specification of this repository: `libhyperagent`, the library that lets a
program on the hypervisor read the disks of virtual machines, the two programs
that use it, and two of its actuators. It says what they do when several threads
or processes work at once, when the guest interferes, when commands fail and when
a process ends. TLC checks small instances; the TLA+ proof system proves the main
facts for any number of threads, VMs, slots and guest tasks.

## The system

| Component | State | Operations | Talks to |
|---|---|---|---|
| `HAMain` (`libhyperagent.cc`) | the agents by name, `vmi_lock` | `add_agent`, `get_vmi`, `get_vmi_lock`, `rel_vmi_lock`, `mount_disk`, `unmount_disk`, destructor | calls `syncmount`; owns the lock `syncmount` calls `vmi_global_lock` |
| `HAConfig` (`libhyperagent.cc`) | a VM's LibVMI handle, `mountdev` | constructor, destructor | read and written by `HAMain`; `syncmount`'s slots point to its handle |
| `syncmount`, slot table (`syncmount.cc` 466-773) | 16 records (`refcount`, `vmi`, `last_used`, lock `l`), mutex `lk` | `request_mount`, `release_mount`, `do_nbd_mount`, `do_nbd_unmount`, `drop_all_mounts`, `print_status`, `timeval_diff` | shell commands (qemu-nbd, mount), LibVMI |
| `syncmount::do_sync` and its callbacks (`syncmount.cc` 46-463) | file-scope globals: saved bytes, `interrupted`, `do_cleanup`, `safety`, `step_rewrite_loc`, saved registers | `do_sync`, `int_cb_front`, `step_cb_front` | the guest's kernel text and vCPU, through LibVMI events |
| `clam_spawn.c`, `testmain.c` | a mount point, a child process | mount, run a scanner, unmount | `HAMain`; other processes, through `/dev/nbdN` |
| actuators (`actuators/*.py`, `*.c`) | none | snippets that read or change a guest's memory | LibVMI |

What is hard about it: every thread may be in `request_mount` at once, most of
the slot table is read and written without a lock, and the part under `lk`
reads fields that the part outside it writes. `do_sync` changes the text of a
running kernel and depends on what the guest's tasks do next. Its globals
outlive a call. Commands may fail, and one failure ends the process without
cleaning up. Every process works on the same devices and mount points.

What makes each part correct:

* slot table: a client's mount point shows its VM's disk until it is given
  back; a VM has one slot; a slot is taken from nobody who uses it; idle slots
  are found; pauses and resumes balance; every call returns; the devices of an
  ended process do not confuse the next one;
* `do_sync`: the guest's kernel text is what it was; no task meets a breakpoint
  nobody listens for; a task taken out of its work is put back with its own
  registers; the VM runs afterwards; the guest has synced;
* `HAMain`: LibVMI is used by one thread at a time; a VM's `mountdev` is the
  slot its client has; a replaced `HAConfig` costs no more than the slot it had,
  and no slot is left with a closed handle;
* clients: a scanner sees its own VM's disk, flushed and standing still, and the
  host is as it was when all is over;
* actuators: every device or page once and no other, addresses that belong
  together, and a guest that runs again.

`PROJECT.json` lists the hazards behind these, each at its line.

## The modules

| Module | Content |
|---|---|
| `SyncOutcome` | what a call of `do_sync` may leave behind, per exit |
| `SyncMount` | the slot table, `HAMain`'s calls, the process's life, with any number of threads |
| `MountService` | the abstract service of mounting: ask, be granted, give back |
| `SyncMountService` | the refinement mapping from `SyncMount` to `MountService` |
| `PrintStatus` | `SyncMount` with a thread that calls `print_status` |
| `DoSync` | `do_sync`, its callbacks, and a guest with one vCPU |
| `SyncService` | the abstract `do_sync`: enter, and leave with one of the outcomes |
| `SyncRefinement` | `DoSync` with its callers' pauses, and the mapping to `SyncService` |
| `HAMain` | the registry of agents, the slots that point into it, the host's clock |
| `Clients` | `clam_spawn` and `testmain` as processes of one host |
| `Actuators` | the device walk of `13.c` and the page loop of `15.c` |
| `MC...` | instances for TLC of `SyncMount`, `PrintStatus`, `DoSync`, `SyncRefinement`, `Clients` |
| `SyncMountProofs` | types of `SyncMount`, the lock, the search for a slot, the LRU loop with one thread |
| `SyncMountPromises` | what clients are promised where nobody steals from another thread: the right disk, `MountService`, counts, pauses |
| `PrintStatusProofs` | no slot is lost to `print_status`, also under contention |
| `DoSyncProofs` | the guest's text and the tasks' registers; then what the first call does |
| `SyncRefinementProofs` | `do_sync` implements `SyncService` |
| `HAMainProofs` | the replaced `HAConfig`s, the handles of the slots, and the arithmetic of the steal |
| `ClientsProofs` | the scanner's disk, and what the clients leave behind |
| `ActuatorsProofs` | the walks of `13.c` and `15.c` |

How they fit: `SyncMount` takes one step for the whole of `do_sync` and gets its
outcome from `SyncOutcome`. `SyncRefinement` shows that this is what `DoSync`
does, callback by callback. `Clients` uses the same outcomes. `SyncMountService`
shows what all of it amounts to for a client.

### SyncMount

A thread's program counter `pc[t]` says where in a call it is; `ix`, `reg` and
`lru` are the locals of that call (the loop index or the chosen slot, the
register of `refcount++`, and `c`, `d`, `max`, `maxix` of the LRU loop). The
records are `refcount`, `vmi`, `last_used` and `l`. `nbd` and `mnt` are the
host: the disk behind `/dev/nbdN` and the file system at the mount point.
`paused` is Xen's pause count of each VM.

One action is one access to shared memory, one critical section of
`vmi_global_lock`, or one command:

    request_mount   MountDisk, RemountMiss/Hit/Load/Store/End     (560-569)
                    GrabMiss/Slot/End, Claim                      (572-586)
                    GetName, LruLock, LruAge, LruWeigh, LruSleep,
                    LruPick, LruUnlock                            (591-648)
    do_nbd_unmount  EvictUmount, EvictResume, Disconnect          (744-773)
    do_nbd_mount    SyncLock, DoSync, Connect or ConnectFails,
                    PauseForMount, MountFs                        (669-741)
    mount_disk      Return
    unmount_disk    UnmountDisk, ReleaseLoad/Store/Resume         (654-666)
    the lock        GetVmiLock, RelVmiLock
    the process     Shutdown, ChildReturns, Restart

`calls`, `valid` and `mountindex` are left out; no decision reads them.
Unlocking a mutex that is not locked, as the constructors do, has no effect
with the C library the project is built with. A failing `try_lock` means that
the slot is locked.

`DoSync(t)` is one step because the whole of `do_sync` runs under
`vmi_global_lock`. Where `SyncOutcomes` is empty, for a VM that is still paused
when the event loop starts, the call never returns: `DoSyncWaits`. Nor need it
return where `xl block-attach` may fail: `DoSyncStuck` leaves the thread in the
loop, with the lock.

Three umounts have a result nobody looks at. `UmountLeaves` is what the one of
`drop_all_mounts` and the one before a mount may leave (508, 726): nothing, what
was there if a client works in the mount point, for they have no `-l`, and
anything mounted there before where a umount may fail (`"umount" \in MayFail`),
because mounts cover one another and a later umount uncovers them. `LazyLeaves` is
the same for the thief's `umount -l` (754), which does not mind a user.
`MountCovers` is what the mount makes of it (734): it fails without a disk, and
where it may fail otherwise what was left stays.


`NestedPause` says whether Xen counts pauses (it does since 4.x, and LibVMI
passes each call on) or keeps a flag; runs use both.

### MountService and the mapping

A client has asked for a VM, or reads mount points; a mount point shows a disk,
and what it shows may change only while nobody reads it. A grant must find the
disk asked for. The mapping takes `mp` for what is read, `mnt` for what is shown,
and for what is asked `req`, except in `release_mount`, which has a `req` too
and asks for nothing. Slots, locks, scans, names, devices and pauses are hidden.
A mount is a `Prepare`, and so is the thief's `umount`; the end of a process,
after which mount points may stay, is `End`.

### DoSync, SyncService, SyncRefinement

`phase` is where `do_sync` is; `text[p]` is the byte in memory at each of the
five places it plants breakpoints; `byte[p]` is the byte it saved. A guest task
is `at` one of the places or elsewhere, and what it does from one place to the
next is one step (`Run`, `SingleStep`). `cpu` is the vCPU: it runs, waits for
the answer to a breakpoint, is to be single-stepped, or has been. `Jump`,
`Steps`, `Ends` and `Saved` are the four decisions of `int_cb_front`, which
also removes the breakpoint it was called for. The guest's calls of its own are
bounded by `Work`; the ghost disk adds one `queue_work_on` and one
`deferred_probe_work_func`, if it gets attached: `ghost` is whether the VM has it,
and `XlMayFail` lets attaching and detaching fail, whose results the code prints.

A pass of the loop is a `vmi_events_listen`, in which callbacks run, the test of
its status, and in the first pass the ghost disk; `interrupted` is tested only
then. So `Attach` and `ListenFails` may follow a callback that has already ended
the loop: a listen that fails there pauses a VM a second time (250, 385), which
only one resume follows (443).

`SyncService` has two steps, `Enter` and `Leave`, and what callers do to the VM
between calls. `SyncRefinement` adds those pauses and resumes to `DoSync`, and
the history variable `entry`: the VM's pause count and the global `interrupted`
as the call found them, which is what the abstract call still shows while the
detailed one is changing them.

### PrintStatus

Its own program counter beside `SyncMount`'s threads. To find out whether a slot
is locked, `print_status` locks it and unlocks it again, and so it is not the
reader it looks like.

### HAMain

One thread, so a whole `request_mount` is one step (`SlotFor`); what matters here
are the pointers. A name stands for a `HAConfig`, a slot points into one, and
`add_agent` for a name that is taken replaces the one without deleting it; the
new one's `mountdev` is whatever was in memory. That may happen while the VM is
mounted; the history variable `readded` has the `HAConfig`s replaced so. The clock may be set forward or
back between calls; `Stamp` and `timeval_diff` are the arithmetic of the ten
seconds, with seconds and microseconds of small sizes.

### Clients

Each process has its own slot table and one VM, so it always takes slot 0: all
of them work on `/dev/nbd0`. `clam_spawn`'s child changes into the mount point
and becomes the scanner, or fails and returns from `main`, which destroys its
copy of the `HAMain`: the handle first (`ChildDestroy`, which may close the
parent's event channel), then mounts and devices. `Unmounted` is what a umount
leaves, as in `SyncMount`. `SyncHangs` is a `do_sync` without its ghost disk. `MayFail` is chosen at the start of a behaviour, so that
one run has hosts where some calls fail and hosts where others do.
`clam_spawn.c` constructs `HAMain` without arguments (55), for which the library
has no constructor (`libhyperagent.h` 54-83); it is taken for `testmain.c`'s.

### Actuators

The guest stands still during a walk, so its memory is chosen at the start: any
list of devices, any set of reads that fail, any area of pages. Page numbers
stand for addresses, `WORD` for the 2^32 of an `unsigned int` in pages.

### Mutants

Some definitions have a neighbour marked `mutant`: the same operator with a
plausible mistake. Nothing uses them; they are there to show that the
properties can fail. `PROJECT.json` names the property each one breaks.

## The runs

| Run | Instance | Shows |
|---|---|---|
| `EnoughSlots` | 2 threads with their own VMs, 3 VMs, 3 slots, up to 2 mounts held, 2 processes | with a slot per VM: `RightDisk`, `FreshPaused`, `RefcountMatches`, `ImplementsMountService` |
| `StealAlone` | 1 thread, 3 VMs, 2 slots, 4 calls, counted pauses, umounts that may fail, 2 processes | stealing, without competition, and mounts that cover what a failed umount has left: `TypeOK`, `AllSlotsLockedBeforeSteal`, `IdleVmRuns`, `ConnectFindsFree`, `EvictsLeastRecent`, `ImplementsMountService`, `EveryRequestReturns` |
| `Contended` | 2 threads, 3 VMs, 2 slots, and a thread in `print_status` | what holds even so: `OneSlotPerVm`, `LockedNamed`, `VmiSerial`, `StealFinishes` |
| `Failures` | 1 thread, 3 VMs, 2 slots, 3 calls, one VM without symbols, every failure but those of umount, 2 processes | `NeverWrongDisk`: a mount point may be empty |
| `Shared` | 2 threads that mount the same VM, 3 slots | what is left of the promises: `NeverWrongDisk`, `NeverSteals`, `ConnectFindsFree`, `IdleVmRuns` |
| `GuestSync` | 3 guest tasks, 4 unrelated calls of `queue_work_on`, safety limit 7, a ghost disk that may not attach, kernels with and without symbols | eight properties of the first call of `do_sync` |
| `SyncContract` | 2 guest tasks that also sync, 2 calls of `do_sync`, VMs paused up to twice | `ImplementsSyncService`: every call has the outcome `SyncMount` gives it |
| `Scanners` | 2 `clam_spawn` and a `testmain` on 2 VMs, four loads of failures | `TypeOK`, `ScansGuest`, `Tidy`, `Ends` |
| `Registry` | 2 VMs, 2 slots, 3 calls of `add_agent`, also for mounted VMs, 10 times of the clock | `OrphansIdle`, `HandlesLive`, `StealsOldest` |
| `Snippets` | 2 devices, areas up to page 9, 4 pages to a word | `VisitsList`, `AddressesAgree`, `HashesArea`, `GuestResumed` |
| `WrongDisk` | 2 threads, 2 VMs, 1 slot | `RightDisk` is violated: a thief scans between `try_lock` (573) and `refcount = 1` (575) and takes the slot; its `umount` hits a mount a client is reading |
| `SecondMount` | 2 threads, a VM and one call each | `FlushedWhenHeld` is violated: `interrupted` stays 1, and every `do_sync` but a process's first skips its loop |

So the picture is: with one thread per VM and a slot per VM the library keeps
its promises; used by one thread it also keeps them when it has to steal; when
two threads compete for too few slots it does not. Of `do_sync`, the first call
in a process does what it promises against a guest that neither calls `sync`
nor probes devices by itself; the later ones flush nothing.

### Further disagreements

The properties above are stated where they hold, and some hold only under a
hypothesis. What happens without it, and the change of an instance that shows it:

* Two threads that claim one slot leave its `refcount` at -1; a later request
  then waits for ever for an unused slot (573, 610). In the instance of
  `WrongDisk` with `MaxReq <- Twice`: `RefcountMatches`.
* A remount does not flush (561): `FlushedWhenHeld` in the instance of
  `EnoughSlots` with one thread and one VM that is mounted, given back and
  mounted again.
* `vmi_get_name` (597) runs without the lock the library keeps for LibVMI. Add
  `"name"` to `UsesVmi`.
* Where two threads mount the same VM, the second finds the name (578) before
  the disk is mounted (581) and is handed an empty mount point: `RightDisk` with
  `Serves <- BothServeB`. Counts are lost as well, since `refcount++` (562) and
  `--` (658) are not atomic: `RefcountMatches`.
* While `print_status` has a free slot locked (538), a request passes it over
  (573) and may go on to steal, from VMs that have a slot each:
  `AllSlotsLockedBeforeSteal`, `ConnectFindsFree` and `RightDisk` under `SpecP`.
* A guest that calls `sync` by itself meets the breakpoint at the end of
  `sys_sync` and is sent into `deferred_probe_work_func` with registers of
  another task: `OwnRegisters` with `Work <- OneSync`.
* A guest task that is in `deferred_probe_work_func` when the breakpoints are
  planted ends the loop before anything is flushed: `SyncedOnReturn` with
  `Work <- OneProbe`.
* From the second call on, nothing pauses the guest while its text is restored
  with no listener left: `NoCrash` with `MaxCalls = 2`.
* `add_agent` for a VM that is mounted installs a `HAConfig` (60-61) whose
  `mountdev`, the "currently mounted nbd slot" of `libhyperagent.h` 105, nobody has
  set, and `unmount_disk` releases some other slot: `MountdevIsCurrent` in the
  instance of `Registry`.
* `release_mount` (654-667) does not write `last_used`, of which `syncmount.h` 93
  says "used to determine the last time this record was used", and 36 that mounts
  "that haven't been used recently" are unmounted. The slot mounted first is
  stolen, be it one that was released just now after a long hold.
  `EvictsLeastRecent` and `StealsOldest` speak of the time of the mount.
* The result of `xl block-attach` is only printed (394-395). Without the ghost
  disk the guest need not reach the breakpoint, and the event loop (378) goes on,
  with `vmi_global_lock` held; only a failing listen or 51 other callbacks end it:
  `Returns` without its second disjunct, `Ends` without its condition on `attach`.
* A listen that fails after the callback that ended the loop: the VM is paused
  twice (250, 385) and resumed once (443). Where pauses are counted it stays
  paused: `Tidy` without its condition, in `Scanners`; `IdleVmRuns` in
  `StealAlone` with `MayFail = {"sync"}`.
* A umount that fails (508, 726, 754) and then a mount that fails (734): the
  client reads the disk of the VM that had the slot before: `NeverWrongDisk` in
  `Failures` with `"umount"` in `MayFail`.
* A process that ends with a VM's disk mounted does not resume the VM. Where
  pauses are counted the next process's `do_sync` for it waits for ever, and so
  does the client: `EveryRequestReturns` without `~LeftPaused`.
* The results of `chdir` and of `mount` are not looked at, and the child of a
  failing `execvp` frees `/dev/nbd0` under another process: `ScansGuest` without
  its hypothesis.
* The ten seconds: 10000 ms exactly pass, where the comment says "greater than
  10sec" (619), and the difference is truncated. `StealsOldest` allows the
  millisecond.
* `13.c` takes a failing read of the address for the end of the list (80).
  `15.c` counts pages as `(end % start) / 4096` (58), right only while
  `end < 2 * start`; the offset of a page is an `unsigned int` (66); and a failed
  read of the area returns with the VM paused (45).

### Bounds, and why they are enough

* Slots: the source has 16 (`DEVMAX`). Two are needed for a choice of the least
  recently used one; three with three VMs for a spare one. Nothing in the code
  depends on the number.
* VMs: one more than slots makes stealing necessary.
* Threads: every race found is between two. `t1` has two VMs, `t2` one.
* `MinIdle`: the ten seconds, as 1 or 2 ticks; with 2 an interval between 0 and
  the limit exists, so slots of different age compete.
* `MaxReq`: calls per thread. Four are needed to fill two slots, steal one and
  come back to the VM stolen from; three to fill, steal, and have every command of
  the way fail (`Failures`).
* The clock of `SyncMount` stops once every slot is `MinIdle` old: `max < d` and
  `max < 10000` then have the same outcome for slots of equal rank later.
* `MaxBoot`: one more process after the first.
* `MaxPrint`: one call of `print_status`; it leaves no trace for a second.
* `Work`, `SafetyMax` (`DoSync`): an orderly call takes five callbacks, and each
  unrelated `queue_work_on` one more; with four of those and a limit of 7 both
  the orderly end and the safety halt in mid-injection occur.
* `MaxCalls`: calls of `do_sync` in a process; two are enough to see the state
  the first leaves behind. `MaxPause`: the pauses callers leave, two to see that
  they are counted.
* `MaxConfigs`: a replaced `HAConfig` and one for each VM.
* `MaxTime`, `PerSec`, `PerMsec`, `Limit` (`HAMain`): a second of 2 ms of 2 us,
  ten times, a limit of 2 ms: differences below, at and above the limit, with and
  without a borrow of a second, in both directions.
* `Procs`: two spawners on different VMs and a `testmain` on the first one's, so
  that processes collide on the device and on the VM.
* `Faults`: the failures somebody notices, with an interrupt; those of the ghost
  disk and of umount; those of mount, chdir and execvp; all but the interrupt.
* `Devices`, `MaxPage`, `WORD`: every list of up to two devices; areas on both
  sides of `end = 2 * start` and of 4 GB.

No run uses symmetry: the threads have different VMs, and several runs check
liveness. `GuestSync`, `SyncContract` and `Snippets` switch deadlock checking off,
because a guest that has died or has no calls left, a `do_sync` without calls
left and a walk that has ended stop. In `SyncMount`, `HAMain` and `Clients` a step
of its own stands for the end, so a real deadlock would be reported.

### Fairness

`SyncMount`: `WF(Step(t))` for each thread (the scheduler runs a thread that
is inside the library; a mutex that is free is eventually acquired) and
`WF(Tick)` (time passes). A client need not make a call, and no failure is
forced: `DoSyncStuck` and `ChildReturns` have no fairness. `EveryRequestReturns`
and `StealFinishes` need no more, since only one thread contends for each lock
in the one, and in the other a thief gives `lk` back before it sleeps.
`EveryRequestReturns` has a condition: the VM asked for is not one that the process
before has left paused, where pauses are counted (`LeftPaused`).
`PrintStatus` adds that its thread runs, which `StealFinishes` relies on: it
holds `vmi_global_lock`, and a thief waits for that.

`DoSync`: `WF(Sync)` (the thread in `do_sync` and LibVMI's callbacks run), each
task of the guest runs when its kernel and Xen let it, and the kernel does work
that has been queued. That last assumption is what the code itself relies on
when it attaches the ghost disk. The guest need not queue other work,
and `ListenFails` and `Enter` of the other functions are never forced.

`Clients`: every process and every child runs, and a scanner comes to its end;
`SyncHangs` and `Interrupt` are not forced. `Ends` is stated for hosts where nobody
was interrupted and where neither `do_sync`'s listens nor its block-attach fail. `Actuators`: a walk
goes on.

## The proofs

`TypeCorrect` (`SyncMountProofs`): `Spec => [](TypeOK /\ HeldNoted)`.
`TypeOK` alone is not inductive: `unmount_disk` indexes the table with
`mountdev`, so that the index is in bounds needs `HeldNoted`, that what a client
holds has a slot noted. `CallOK`, the part of `TypeOK` that says that calls work
on slots that exist, is what makes it more than a statement about types: no
index of `mount_records` is out of bounds, whatever fails and however the
threads interleave.

`StealIsLastResort`: a thread steals only when every slot is
locked. The inductive invariant is `AllTaken`: in the second loop, the slots
already passed are locked. It is stable because nothing unlocks a slot while
the process lives (in `SyncMount`; `print_status` does).

`OneSlotEach`: where the threads serve different VMs (`Exclusive`), no VM is in
two slots. The test of line 561 and the stores of 578 and 641 are not in one
critical section, so the invariant, `SearchInv`, has to follow the thread
between them: `NotNamed` says no slot it has passed names its VM, which other
threads cannot change because they write only VMs of their own.

`EnoughSlotsNoSteal`: with `Exclusive` and at most `DEVMAX` VMs nobody steals.
`TakenOwned`, the rest of `SearchInv`, says that a locked slot names a VM or has
a thread about to name one. If a thread were past the second loop, every slot
would be locked, and each would be mapped to a VM other than that thread's, no
two to the same one: more slots than other VMs (`FewerSlotsThanVMs`, with
`FS_PigeonHole` from the library).

`MountedDiskIsRight`, `NeverAnotherDisk`, `DevicesFree` (`SyncMountPromises`): let each
VM have one thread, and let there be a slot per VM or only one thread, which
may then steal (`Undisturbed`; the one thread is how `testmain.c` and
`clam_spawn.c` use the library). Then the mount point a client holds shows its
VM's disk (unless `mount` or a client's `execvp` fails; umounts may), never another
VM's (whatever fails, but not umount together with one of those two: `Covering`), and `qemu-nbd -c` finds its device free (unless it fails for
another reason). `DiskInv` ties a client to a slot (`HeldShown`), a thread in
`do_nbd_mount` to the slot that names its VM (`Working`), and says what a named slot
shows while no thread is mounting or stealing it (`NamedShown`), because a
remount hands out the slot without looking at the disk. `Claiming` and
`NamedTaken` keep the threads on slots of their own: `try_lock` gives a slot to one
thread, before it has a name. A slot that is stolen has a name, so there the
argument is another one: `LeastRecentEvicted` says its count is 0, and by
`CountInv` a slot of a client's has count 1 (`PickDisks`). So disks, clients, notes
and counts are one invariant, `TableInv`: with two threads the count is not what
`CountInv` says between `try_lock` and `refcount = 1`, which is what `WrongDisk` shows.

`MountServiceImplemented`: under the same hypotheses
`SyncMount` implements `MountService`. It needs one more invariant, `ClientInv`:
a thread outside a call has asked for nothing, what it asks for it does not hold,
and it holds only what it serves. `HiddenSteps` does the steps no client can
see; `VisibleSteps` says which are left. Of those, `MountFs` and `EvictUmount` are the
ones to argue about: they change what a mount point shows. `UnreadWhileMounted`
says that nobody has that mount point, because only the thread itself could, and
it does not hold what it asks for; `UnreadWhenStolen`, that the thief does not
have it either, by `Claiming`. `Return` finds the disk by `DiskInv`.

`RefcountsRight`, `FreshStaysPaused`, `PausesBalance`: under `Undisturbed` alone, so
whatever fails; but `PausesBalance` with pauses as a flag or listens that do not
fail, since the last one's failure leaves a pause that nothing resumes.
`refcount++` (562) and `--` (658) are a load and a store each; what makes them right
is that a slot has one thread. `NoteInv` ties `mountdev` to the mount point the
client holds, and says that a release works on the slot that names its VM.
`CountInv` follows the count of a slot with the location of that thread, and
`HoldersOf` shows that a slot's holders are one client or none. For the pauses
`Balanced` says that a VM is paused at most once, counted or kept as a flag, and
then for the thread that serves it: because it holds the VM or is at one of the
locations (`Pausing`) between a pause and its resume. The one resume without a
pause, that of the thief's own VM in `do_nbd_unmount` (761), finds the VM running.

`VmiInOneThread` (`SyncMountProofs`): two threads are never in `do_sync` or in the
section a client brackets with `get_vmi_lock` at once, for any number of threads,
by `LockKept`: whoever is has `vmi_global_lock`.

`LeastRecentEvicted`: with one thread, any number of slots and
whatever fails, the slot stolen is idle, was mounted before the other idle ones
and at least `MinIdle` ago. The loop keeps `max` and `maxix` from one pass to the
next and sleeps in between, so the invariant must hold across passes:
`Nominated` says that `maxix` names an idle slot of at least the age `max` it was
weighed at, and `Weighed` that no slot passed in this scan is older. With one
thread nothing is mounted or given back during the scan; with two it is
(`WrongDisk`).

`OrphansStealable`, `HandlesStayLive` (`HAMainProofs`): what `add_agent` does to the
slots when it replaces a `HAConfig`, also of a mounted VM. A slot without a name
is idle, so that it can be stolen, unless its `HAConfig` was replaced while the VM
was mounted (`readded`); and the release that goes to a wrong slot, because the new
`mountdev` is not set, never raises a count. `RegistryInv` says where a count comes
from: a client's mount through the name that has it, exactly one as long as
nothing was replaced so (`CountsExact`), at most one afterwards. Handles stay open
because the `HAConfig` replaced is not deleted: what leaks is what keeps the slots'
pointers valid until the end.

`DoSyncTypes`, `TextIsRestored` (`DoSyncProofs`): no call of `do_sync` that gets past
the symbols leaves a breakpoint in the guest, for any number of calls, of
tasks and of their own calls, and whichever way the loop ends. The bytes put
back are the guest's because the call before restored them (`BytesOK`); the
callbacks can only write those, or a breakpoint while the loop runs; and the
restoring is tied to its order by `RestoredOK`.

`RegistersComeBack`: in a guest that does not call `sync` by itself
(`Work["sys_sync"] = 0`) a task gets its own registers back, from one global.
`RegsInv` says that one task at a time is in `deferred_probe_work_func` or was
taken out of it, which the kernel's work queue sees to, and that only a task
taken out is in `sys_sync`.

`NobodyCrashes`, `NoVcpuWaits`, `GuestHasSynced`, `TaskComesBack`:
`NoCrash`, `VcpuReleased`, `SyncedOnReturn` and `DivertedComesBack` of the first call
(`MaxCalls = 1`; later ones skip the loop) in a guest that probes no device of its
own (`Work["dwork"] = 0`); the last also needs a guest that does not call `sync`.
`FirstInv` follows `interrupted` and `do_cleanup` through the call: an orderly end
means that the step after the last breakpoint has been taken and that the guest
stands still (`EndOK`, `PausedOK`), so nobody reaches a breakpoint between
`vmi_clear_event` and the restored text. `SyncFirst` adds why the last breakpoint
comes last: until the guest has synced, the one probe the ghost disk causes is
either still on its way to the breakpoint (`Awaited`) or was taken out there
(`Taken`), and no task is further. `DivertInv` keeps the breakpoint that sends a
task back while one is out.

`SyncServiceImplemented` (`SyncRefinementProofs`): what `SyncMount` takes for granted
of `do_sync` is what `DoSync` does, for any number of calls, in a guest that probes
no device of its own (`Work["dwork"] = 0`; it may call `sync`), with a ghost disk that
may not attach and a listen that may fail at any pass of the loop, the last
included. `CallOK` follows the
pause count through the call, relative to what the call found (`entry`), and
`LoopEnded` has the ways the loop is left. Two facts make it inductive. Only
a guest that runs gets to a breakpoint, so a loop that ended in order had the
count at 0. And `BeforeLoop` and `InLoop` keep, until some loop of the
process has ended, the reason why the guest has synced by then (`Awaited`, `Taken`, as in
`SyncFirst`); after that `interrupted` is set and no loop is entered again. With the
invariant each exit maps to one of the `Outcomes` (`Skipped`, `Looped`, `Failed`,
`Halted`, `Unknown`) and every other step to a stutter, or to `Outside`.

`PrintStatusUnlocks` (`PrintStatusProofs`): `LockedNamed` for any number of threads,
whoever competes for whatever. It is nearly inductive; `NamingTypes` adds that a
thread in a call has a VM to write into the slot, so a claim leaves a name, and
`Gone` that a process whose threads have ended has none in `print_status`, so the
table of the next process starts with every slot free.

`OldestStolen` (`HAMainProofs`): `StealsOldest` for all units, limits and clocks, and
whatever was added twice. `TimevalDiff` bounds what the truncating
division loses: seconds are exact, and the microseconds lose less than one
millisecond, towards zero whichever sign the difference has. So two ages that
compare one way differ by less than two milliseconds the other way.

`TypeCorrect`, `ScannerScansGuest`, `HostIsTidy` (`ClientsProofs`): for any number of
processes and VMs that share `/dev/nbd0`. Each resource has an owner, a process at a
location between taking it and giving it back. `OwnerInv`, where no call fails that
nobody looks at, has one owner at a time for device and directory, who has flushed
its VM. That the VM stands still has two reasons: as long as no child returns from
`main`, nobody else gets a handle on it (`HandleInv`, `StillInv`); and where pauses
nest and no listen fails, another process's `do_sync` waits for a VM that is paused
(`WaitInv`). Where calls fail there may be two owners, and `HostIsTidy` needs less:
`DeviceOwned`, `DirOwned` and `PauseOwned` say that what is in use belongs to somebody
at such a location, which a process that is over is not. The device is always
freed; the directory may stay mounted where a umount fails or a child returns, and
a VM may stay paused where pauses nest and a listen fails.

`OneDevice`, `PagesHashed`, `WalkIsList` (`ActuatorsProofs`): for lists of any length,
areas of any size and any width of the offset. `AddressInv` has what `mac` and `ip` hold at each location
of the walk, `WalkInv` that what was seen is the list so far and where the walk is on it. For
`15.c` the lemma that counts is that `end % start` is never more than
`end - start` (`start < end`), so that a count that is wrong is too small.

The proofs assume `ConstantsAssumption` (of `SyncMount` and of `DoSync`),
`RegistryAssumption` (of `HAMain`), `ClientsAssumption` and `GuestAssumption` (of
`Actuators`), which TLC evaluates in every run of those modules, and what the
theorems state. The invariants were checked by TLC on the instances of the runs
before they were proved (`TableInv` with three slots for two threads, and with
two slots for one thread, also where every command may fail).

Every safety property, every action property and both refinements of the runs
that pass are thus stated by a theorem. What is only model-checked:

* liveness (`EveryRequestReturns`, `StealFinishes`, `Returns`, `Ends`,
  `GuestResumed`), which is outside the provers' reach, as is `ENABLED`;
* the promises of the slot table where two threads mount the same VM (all of
  `Shared`): the theorems have a thread per VM as a hypothesis;
* `ImplementsSyncService` needs no more than its theorem has: the run keeps
  `Work["dwork"] = 0` as well.

What a recursively defined function computes for every input cannot be proved
with the provers used, nor can anything in a module with `RECURSIVE` operators;
there are none.

## Not modelled

* Guests with more than one vCPU. Single-stepping is registered for vCPU 0 and
  `step_rewrite_loc` is one global, so more vCPUs matter.
* A breakpoint that is not one of the five (`syncmount.cc` 218-231): it needs a
  debugger inside the guest.
* Reading a `last_used` of which another thread has written one half.
* A process that is killed inside `do_sync` leaves its breakpoints in the guest;
  `Clients` has the interrupt and the pause that stays, not the breakpoints.
* Clients that take `vmi_lock` and then mount, or hold more slots than there
  are: both wait for ever by construction. A call for a VM that was never added
  dereferences a null pointer.
* `14.c` and the Python actuators: one read after another, without state.
  Two have loops, read but not modelled: `6.py` walks up to a dentry called `/`
  and does not end if there is none, `7.py` never advances, and so looks at one
  signal only.
* `nbd_test.sh`, the parsing of arguments, what is printed, and
  `read_waitpid_status`, which only prints.

## Plan

1. Done: the slot table, `do_sync` with one vCPU, the registry, the clients,
   `print_status`, the two C actuators with loops, the two refinements, and the
   theorems above.
2. Several vCPUs in `DoSync`, with single-stepping on the first.
3. Proofs: two threads that mount the same VM, with slots to spare (`Shared`).
4. A process killed inside `do_sync` and the breakpoints the next one saves as
   the guest's own bytes, in `DoSync`.
