# Verification of LBF-OS

TLA+ models of LBF-OS, a hobby operating system for x86-64: a C kernel
(`KERNEL_290626_v0.1.3/`, below `K/`) and a windowed desktop of Ring 3 programs
(`RAD_RING3_290626_v2/`, below `R/`). The models are translated from the code;
TLC checks them on small instances, TLAPS proves the most important results for
every instance. `PROJECT.json` ties every definition to the lines that it
stands for, and lists the runs, the findings, the hazards and the theorems.

The core is the process manager, on which everything else runs. Around it are
modelled memory (frames, the kernel's heap, the address spaces of programs, the
heap inside each), storage (FAT32, volumes, the SATA disk, the USB flash drive),
input (keyboard, mouse, serial ports), the desktop of window slots that programs
share with the Explorer, and the forms of the programs themselves.

## Running it

    tlc -workers 2 -config MCProcessSafety.cfg MCProcessManager
    tlapm ProcessManagerProofs.tla

and likewise with the other pairs of configuration and module listed under
"Runs".

## The system

One CPU, no SMP. `K/kernel.c` sets up memory, devices and volumes, creates three
kernel threads next to itself (the shell, `task_c`, `task_d`) and lets the timer
preempt from then on. Programs are ELF files loaded from the FAT32 volume into
address spaces of their own; they enter the kernel through gate 0x80, an
interrupt gate. Kernel threads and the shell call the same code with interrupts
on, and a `kfree()` or `kmalloc()` inside any call turns them on again.

| Part | State | Operations | Talks to |
|---|---|---|---|
| Process manager `K/drivers/proc.c`, `apps.c` | process list, `current_process`, `foreground_process`, `next_pid`, exec mailbox | schedule, create, sleep, exit, kill, exec, launch, reap (never started) | timer; ELF loader; keyboard (whose ring a change of focus empties); heap |
| Timer `K/drivers/timer.c` | `system_ticks` | the tick, from IRQ 0 and from `int $0x20` | scheduler |
| System calls `K/drivers/syscall.c` | `heap_end` of each process | about 45 calls | everything |
| Kernel heap `K/mem/kmalloc.c` | block list, heap end, mapped end, lock | `kmalloc`, `kfree`, `expandir_heap` | frames, page tables |
| Frames `K/mem/pmm.c` | bitmap, search hint | alloc, free | heap, loader, SBRK, FAT32 mount |
| Address spaces `K/mem/vmm.c` | page tables | map; nothing is ever unmapped | frames |
| ELF loader `K/include/elf.c` | none of its own | load, undo a failed load | frames, heap, FAT32, address spaces |
| FAT32 `K/fs/` | FAT and clusters on disk; geometry and current directory, shared by all | read, copy, write, append, delete, rename, make and change directory | storage |
| Volumes `K/fs/fat32.c` | contexts of three volumes, `fat_lock` | mount, change of drive | FAT32, storage |
| Storage `K/drivers/pd/storage.c`, AHCI `K/drivers/hw/ahci_*.c` | one command slot and bounce buffer | read, write sectors | disk |
| USB storage `K/drivers/pd/ehci_*.c` | endpoints, packet bits, frames of transfers | enumerate, initialise, read sectors | flash drive |
| Keyboard, mouse, serial `K/drivers/{keyboard,mouse}.c`, `hw/serial.c` | rings, Shift and Caps Lock, packet under assembly, pointer, owners of ports, mask of the PIC | interrupt handlers, reads, open, close | programs, by polling |
| VFS `K/drivers/vfs.c` | descriptor table | open, read, write | unreachable: `vfs_root` is never set |
| Video, PCI, PS/2, PIC, IDT, GDT | device registers, tables | set-up and port I/O | hardware |
| Window IPC `R/Runtime_sdk/components/TOS_IPC.c`, Explorer `R/Software_Explorer/` | ten window slots in shared memory, focus, stacking order, drag | register, draw, collect, click, drag, compose | programs, by shared memory |
| Forms and toolkit `R/gui/`, `R/Runtime_sdk/sdk/` | two records of each control and two focuses, form stack, drag | create, press, release, key | one program each |
| Ring 3 heap `R/system/malloc.c` | block list per program | malloc, free, realloc | SBRK |

What is hard here: a thread can lose the CPU between any two instructions of
code that was written as if it could not; a request outlives the process that
made it; memory and disks run out half way; the power fails between two writes;
lists, tables and rings are correct only over long sequences of calls; and
programs share window slots through plain memory.

What makes each part correct:

- process manager: one running process; nobody runs who is dead or asleep;
  nobody starves; every exec request is completed; the records of the focus
  agree; the genealogy is a tree;
- kernel heap: blocks tile the heap, free neighbours are joined, what is handed
  out is disjoint, mapped, and stays put;
- frames: one owner for each, none lost, none of the reserved ever handed out;
- FAT32: no cluster in two chains, every chain as long as its file, no cluster
  lost without a failure, a tree of directories, and files with exactly the data
  that were written to them, at every instant at which the power may fail;
- volumes: a call works on one volume from beginning to end;
- storage: a transfer reports success exactly when the data have moved;
- input: keys, bytes and packets come out as they came in, or are dropped whole;
- address spaces and loader: what is mapped is owned by one program, what fails to
  load is given back once, a program that starts is whole;
- window IPC: a slot has one program, focus and drag refer to live windows, the
  windows of programs that left are collected;
- forms: both layers agree on every control and on who gets the keys, nothing stays
  pressed, and what is drawn lies in memory that exists.

## Modules

| Module | What it is |
|---|---|
| `ProcessManager` | the process manager: state, actions, properties |
| `ProcessManagerProofs` | its theorems |
| `KernelHeap`, `Allocator` | the heap, and what its callers are promised |
| `FrameAllocator` | the frame bitmap |
| `KernelMemoryProofs` | the theorems of `FrameAllocator` and `KernelHeap`, the refinement of `Allocator` among them |
| `FileSystem`, `FileStore` | the FAT32 driver, and what it promises of files |
| `FileSystemProofs` | the theorems of `FileSystem`, the refinement of `FileStore` among them |
| `Desktop`, `DesktopProofs` | window slots, programs and the Explorer, and its theorems |
| `AddressSpace` | loading a program and SYS_SBRK |
| `UserHeap` | malloc, free and realloc of the programs |
| `ProgramMemoryProofs` | the theorems of `AddressSpace` and `UserHeap` |
| `Volumes` | mounting and change of drive |
| `UsbStorage` | the USB flash drive |
| `DriveProofs` | the theorems of `Volumes` and `UsbStorage` |
| `Ahci` | the SATA disk |
| `Keyboard`, `KeyQueue` | the keyboard's ring and its readers, and the queue it promises |
| `Mouse` | packets and the pointer |
| `SerialPorts` | the four ports, their lines, and the component that programs use |
| `DeviceProofs` | the theorems of `Keyboard`, `Mouse`, `SerialPorts` and `Ahci` |
| `Forms`, `FormsProofs` | one graphical program: its loop, and both layers of controls; its theorems |
| `MC*` | small instances for TLC: of one component, or of several that share no state (`MCMemory`, `MCDrives`, `MCDevices`) |

Each module has one type invariant at most, and the parts of an invariant have
names of their own. A run checks their conjunction (`ProcessesSound`,
`FramesSound`, `HeapSound`, `DiskSound`, `FrontSound`, `FramesAccounted`,
`ProgramsBacked`, `PortsSound`).

### ProcessManager

An action is a stretch of kernel code that no interrupt divides; `Tick`, the
timer, may come between any two. New processes get rising pids and go to the
head of the list, so the list is the set `Procs` in descending order and `head`
its maximum. `wake[p]` keeps what is left of `wake_up_time - system_ticks`.
States 0, 1, 2 and 3 are ZOMBIE, READY, RUNNING and WAITING; NONE is a pid not
yet used.

| Action | Code |
|---|---|
| `Tick` | `timer_handler`, `schedule` (wake-up scan, save, search, last resort) |
| `Sleep`, `Exit`, `KillOther`, `KillSelf` | `sys_sleep`, SYS_EXIT with `terminate_current_process`, `kill_process` |
| `ShellLook` | the shell looks at `is_foreground`, once for each turn of its loop; its command comes later |
| `Exec` | SYS_EXEC: fill the mailbox, wait, give up the CPU |
| `LauncherLoad`, `LauncherFocus` | `task_c`: create the Explorer, give it the focus |
| `SpawnTake` ... `SpawnWake` | `process_spawn_pending` of `task_d`, cut where interrupts can divide it |
| `CreateProcess`, `CreateFails` | the outcomes of `create_elf_process` |

Calls that end in `int $0x20` are one action with the tick that it causes: they
run with interrupts off, and such a tick counts in `system_ticks` like any other.
A process that has died sits in a `hlt` loop with interrupts on (`halted`); if it
is revived it makes no further calls. The shell tests the focus in one step and runs
its command in a later one (`reading`), so it can act after it has lost the focus.

Left out: the reaper `process_cleanup_zombies`, since no task that calls it is
ever created; the emptying of the keyboard ring when the focus moves; the
interruption of `create_process` (see the plan). Boot up to the first tick is
`Init`.

### KernelHeap

Every call holds `trava_heap` with interrupts off, so it is one action. Addresses
and sizes are counted in the 16 bytes of alignment. `bloco` maps addresses to the
headers that pointers lead to. `Allocator` is the promise to callers: a region
disjoint from those in use, long enough, that keeps its place and length until it
is given back. The mapping takes each block in use to the region after its
header. Callers free what they were given, once: `kfree` does not detect a second
free. Requests near 2^64, for which the rounding to 16 overflows, are made by no
caller.

### FrameAllocator

`pmm_alloc_block` and `pmm_free_block` take no lock. Each load and store of a shared
variable is an action, and `|=` and `&=` are a load and a store with any steps of
others between, because the build does not say which instructions they become; that
goes for the search hint as well, which a free tests (`BelowHint`) and lowers
(`SetHint`) in two steps. Two kinds of caller: those with interrupts on (the loader
in `task_c` and `task_d`, `fat32_mount`), and those that mask them (the heap,
SYS_SBRK), which may cut into the former but not be cut into. `overlapped` records
that some call began while another was under way. Until then everything holds that
the callers rely on; afterwards only the protection of reserved frames does: a caller
that is preempted between its load and its store returns a frame that another was
given meanwhile. `Reserved` is what the memory map never frees: memory below 8 MB and
what is not RAM. `pmm_mark_block` has no caller.

### FileSystem

A cluster is a row of cells of 32 bytes, each a directory entry or a piece of
data: the driver does not know which, and neither does the model. A call is a
chain of actions, each one write to the disk with the reads before it, and
`Crash` may come between any two. `call` holds the locals of the call under way.

| Actions | Code |
|---|---|
| `Copy`, then `FreeNext`, `Take`/`TakeFails`, `Fill`, `Close`, `Enter`/`EnterFails` | `fat32_copy_file`: read the source, `fat32_write_file` |
| `AppendFile`, then `Grow`/`GrowFails`, `Mark`, `Pour`, `Commit` | `fat32_append_file` |
| `DeleteFile`, then `FreeNext` | `fat32_delete_file` |
| `MakeDir`, then `WriteDots`/`DotsFail`, `Enter`/`EnterFails` | `fat32_create_dir` |
| `ChangeDir`, `Rename` | SYS_CHDIR, `fat32_rename` |
| `Crash` | power failure and `fat32_mount` |

`FileStore` is the promise: files appear whole with the data that were read,
grow at their end by the whole of what was appended, change name without changing
data, disappear; and no operation touches a second file. `FileSystem` implements
it under the mapping that reads the files off the disk.

The driver does not defend itself against some uses, after which nothing is
promised; `suspect` records them: an append to an empty file or a directory, an
append to a file that a full disk left with more clusters than it needs, the
removal of a directory, the renaming of `.` or `..`, and a crash between the two
writes that lengthen a chain (`fat32_file.c:328-329`). The bound in `Begin` stops
new calls then. `lost` records a call that failed or a crash with clusters in
hand: they stay marked for ever, since there is no repair program.

Facts about the driver that the model contains and a user should know:
overwriting deletes the old file before it knows whether the new one fits; a copy
to `dir/name` never replaces an entry of that name but adds a second; a failed
append leaves its clusters in the chain.

Assumed: one call at a time; storage does not fail; a FAT with exactly as many
entries as the volume has clusters (the real search goes on to the end of the
last FAT sector); directories of one cluster; memory for the buffer of a write.
A file of size 0 comes only from a volume written elsewhere, as `Init` has it:
copying refuses empty sources and the VFS cannot be reached.

### Desktop

Programs and the Explorer meet in ten slots of plain memory and are preempted
between any two accesses to them: an action is a read of a slot with what
follows from it in private memory, or a write. `framed` stands for the words that
say nothing alone: both buffer pointers, width and height. The lock of the slots
has no action: only the Explorer takes it (`explorer.c:98-99`, `192-193`), never
the programs that it is there for (`TOS_IPC.c:8-9`), so nobody ever waits.

| Actions | Code |
|---|---|
| `Start`, `Look`, `Take`, `Frame`, `Stamp` | a program is loaded; `OS_IPC_RegisterApp` |
| `Loop`, `Poll`, `Done`, `Close` | the loop that all programs have (read in `tarefa.c`), `Tratar_Fechamento_Software` |
| `Seek`, `Unmark`, `Kill` | `OnBtnKillClick` of the task manager |
| `Collect`, `Forget`, `Unstamp`, `Unframe` | `Coletar_Slots_Inativos`, slot by slot |
| `Press`, `Hold`, `Release` | the mouse in `main`; the taskbar and the menu use up a press; a held button looks at `is_active` (`Hold`) and tells the slot later (`Click`) |
| `Hit`, `Miss`, `Shut`, `Click` | `Processar_Clique_Janela`, from the top of the stack |
| `Compose` | `Executar_Pipeline_Composicao`, and the pause |

`disturbed` records that a registration overlapped with another one, with a window on
its way out, or with the task manager about to end the program that registers. Until
then slots and programs belong together (`SlotsSound`); afterwards two programs can
have one slot, or the collector can wipe a slot in use, and only what the Explorer
keeps for itself is still sound (`StackSound`, `DragHasFocus`), and closed windows
are still collected. `sys_sleep(300)` in the Explorer after it has started a program
makes overlaps rare and does not exclude them.

Left out: where windows lie (a click meets any active one), the contents of
the buffers and their exchange, captions, the keyboard, and programs ended by the
kernel shell, which has no keyboard while the Explorer lives. Whether a click is
acted on or dropped (`mouse_hold_timer`, the position of the buttons) is left to
chance. The memory of the slots is initialised by nobody; the model takes it to be
zero, and that is why slot 0 has the focus before anything is clicked and is not
brought to the front by the first click on it. The Explorer itself is not killed:
nothing starts it again.

### AddressSpace

`create_elf_process()` with `elf_load_file()` runs in two kernel tasks with
interrupts on, so a load is a sequence of steps. SYS_SBRK runs with interrupts
off: it takes a step for each page, and while it does (`sbrk.on`) nobody else
takes any. A load enters a call of the page allocator in one step (`Enter`, which
sets `inside`) and gets or gives back its frames in another, since it can lose the
CPU within the call. If another call begins between the two, of the other loader, of
SYS_SBRK or of `kmalloc()`, both may get the same frame, as `FrameAllocator` shows:
`Overlap` records that in `collided`, and the behaviour is followed no further. What
is said of programs' frames is said until then. Frame 0 is the NULL of an allocation
that failed.

| Action | Code |
|---|---|
| `Enter`, `Overlap` | a load is inside `pmm_alloc_block` or `pmm_free_block`; another call begins meanwhile |
| `BeginLoad`, `FirstGigabyte` | PML4, PDPT and PD of the program |
| `ReadHeader` | the file is, or is not, a program, or its program headers are not what they should be |
| `NextArea` | the next program header, and after the last one the stack |
| `AllocPage`, `Put` | a frame for each page; `vmm_map_page_to_pml4` with its tables |
| `Mapped`, `Buffer` | `cli`; `kmalloc` of the buffer, which ends in `sti`; `write_cr3` |
| `Write`, `Back`, `Bss` | `memcpy` page by page, back to the old `cr3`, `elf_clear_bss` |
| `Preempted` | `schedule()` comes back to the loader with the kernel's `cr3` |
| `Finish`, `elf_unload_failed_pml4` | `create_process`, which may fail; or everything is given back |
| `Sbrk`, `GrowByPage`, `Grown` | SYS_SBRK: its checks, a new page with its tables, the new break |
| `Dies` | SYS_EXIT and SYS_KILL, which free nothing |

Failures that the code passes over (no frame, no buffer, unreadable file, a
preemption while it writes) are recorded in `flawed`; `StartsWhole` speaks of
programs without them. `short` and `shrunk` record that memory ran out and that a
break was lowered, after which frames are lost: pages whose tables could not be
made, and pages above a lowered break, which stay mapped and are mapped again when
the break rises. When `create_process` fails after a load (`elf.c:201`,
`proc.c:243`), nothing is given back by it or by its caller: the address space is an
`orphan`, and its frames are `Stranded` together with those of programs that ended,
which are never freed either. Only a load that is refused gives back what it took.

Where the first tables of a program find no frame, the code goes on with page tables
at address 0, and the model ends (`stopped`). The same holds for program headers,
which are read into a buffer that may be NULL, by a read whose result is not looked
at (`elf.c:81-82`). Segments have pages of their own, above 1 MB, below the heap and
apart from the stack, as the programs' linker scripts arrange (`SpaceAssumption`):
two that share a page would have it mapped twice, and pages below 1 MB are skipped
(`elf.c:91`). Which frame comes is a parameter, `Pick`, because it makes no
difference.

### UserHeap

A program has one thread, so a call is one step. The operators work on a record
`heap` of `heap_start`, `heap_end` and the headers, and keep the names of the
functions. SYS_SBRK grows or does not. `Allocator` of the kernel's heap is not
reused: `realloc` may move a region, and `RegionsKept` says what that means.
Facts: cutting a block in place (`realloc`) leaves two free neighbours unjoined,
and what SYS_SBRK adds is not joined with a free block before it, so the list is
not as tight as the kernel's. `malloc1.c` is not linked; `calloc` is `malloc` and
zeros, and the overflow of its product is not modelled.

### Volumes

The file system works on globals: selected device, geometry, current directory.
A value is abstracted to the volume that it comes from. The shell calls with
interrupts on and is preempted between any two steps; system calls are masked,
except that a file call turns interrupts on as soon as it allocates its buffer
(`kmalloc.c:29`), and is preempted like the shell from then on.

| Action | Code |
|---|---|
| `BeginChange`, `Check`, `BringUp` | `fat32_mudar_disco_ativo` up to the mount, SYS_EHCI |
| `Select` ... `Geometry`, `Keep` | `fat32_mount`, each failure, and the copy it leaves |
| `Change`, `Lock`, `SaveDirectory`, `Restore` | the exchange of the globals |
| `BeginFile`, `Allocate`, `Locate`, `Access`, `Enter` | a file call: `kmalloc`, sector from the geometry, then the device; SYS_CHDIR |

`broken` records that the last mount failed (the new device is selected, with the
old geometry or part of the new), `forgotten` the volumes whose directory a mount
has thrown away, `overlapped` that two changes, or a change and a SYS_CHDIR, were
under way at once. The last happens because the masks and `fat_lock` leave a gap
between `fat32.c:216` and `219`; nothing is promised afterwards.
Facts: SYS_SET_DRIVE returns 1 whatever happened (`syscall.c:330-332`); E: is
address 2, at which no device answers; a masked program that waits for `fat_lock`
while the preempted shell has it waits for ever, which is the deadlock that the
configuration allows.

### Ahci

One caller that can be preempted and one that is masked share the command table of
slot 0 and one bounce buffer. Filling it, building the table, issuing, each poll and
the copy are steps; `Transfer` and `DiskError` are the controller's, at any time
after the command or never. The counter of a wait is a `uint32_t` and `while
(timeout--)` takes it to 2^32 - 1 when it ends the loop (`Word` is small here); after
that the test for 0 takes a frozen disk for a completion, and success is reported of
a transfer that has not happened (`ahci_cmd.c:130-134`). That is why `TransferTrue`
excludes waits that ran out, and calls that were not `alone`: the next call while an
old command is still pending, or another caller's, can have its bounce buffer
overwritten. Addresses are bytes, so that the 28-bit and 48-bit forms of a command
differ where they do; sector numbers are the `uint32_t` that `storage_read_sectors`
takes (`AhciAssumption`). The stores that build a table are one step: what a table
holds counts only for a call that is `alone`, and nobody looks at it before it is
issued. The memory of tables and the PCI set-up are left out.

### UsbStorage

A transfer is a step, and may be lost before the device sees it or after. Both ends
of a pipe count packets modulo 2; the driver flips its bit when a transfer succeeds,
and only SET_CONFIGURATION resets the device's. `disturbed` says what the device has
seen fail since then. `lost` says that a transfer of the call under way failed that
the device could have carried out, or that the device refused its command. A command
is refused by a status other than 0 or by an answer without the signature
(`Refused`); the driver then gives the command up or, while it searches, tries the
next pair of endpoints (`GiveUp`). A first descriptor of the wrong length ends the
identification, not the enumeration (`Identify`). The frames of failed control
transfers and of all bulk transfers are never given back (`ehci_storage.c:57`), so
`held` only grows, and the 26 frames of the instance run out on the way. The device
is external: it acknowledges and drops a repetition, stalls when a command comes
inside another, and answers commands in order. The tag of the status is not compared,
hence `orphan`: when the device holds the data of a command that the driver takes for
not sent (its bit did not flip, or was reset for the next pair of endpoints), the
next read can be answered with the data of that one. `Fits` is the controller's check
that a packet is not longer than the buffer. The controller's schedules and registers
are left out; two calls at once are too.

### Keyboard and KeyQueue

The handler of IRQ 1, the ring, and whoever reads it. `keyboard_pop_char` masks
interrupts, so each is one step; a read of the standard input takes many. Three
keys stand for the two tables: one with upper case, one with another sign, ENTER.
`KeyQueue` is the promise. Facts: the ring is one for all, so what was typed for
one window can be read by another; releasing one of two held Shifts turns capitals
off; with Caps Lock, Shift makes no small letters.

### Mouse

`init_idt` ends with interrupts on and IRQ 12 open (`idt.c:128-166`), so the
answers to `mouse_init` are read by it or by the handler (`Acknowledged`,
`AnswerTaken`); the handler takes them for the beginning of a packet. `PacketsTrue`
is about packets read from their first byte. It does not hold for movements beyond
127 in the positive direction, which are read as negative (`mouse.c:135-139`) and
which the property leaves out. The command byte of the controller, read in the same
race (`mouse.c:89-91`), is not modelled: its bit 1, which lets IRQ 12 through, is set
whatever was read, and the other bits are taken to be as they were.

### SerialPorts

The ports, their chips, the lines of the PIC (a line tells of a rise) and
`TOSSerial`, by whose two calls a speed is changed. Bytes are told apart by whether
they arrived while the port was open. The handler of line 4 serves COM1 whoever
asked (`idt.c:74`); line 3 has no gate. Facts that the properties step around: with
COM3 open, a byte for it keeps line 4 high and COM1 hears nothing more, and closing
COM3 masks the line for COM1 (`syscall.c:251`), hence the premise of `HeardAlone`;
a byte on COM2 or COM4 ends in the panic handler; a program that is killed leaves
its port busy for good (`proc.c:641`); a speed change that loses the race leaves
`Active` with the handle of an error (`TOSSerial.c:72`); any program can read,
write or close the port of another, because SYS_SERIAL_* does not look who asks.
SYS_SERIAL_WRITE is left out.

### Forms

One of the six graphical programs. The SDK's record of a control and the lower
layer's are one record, the fields of the lower one named `k...`, because both are
made, and live, together. A click is two steps: the lower layer gets it when the
program takes it out of its slot (`Click`), the SDK afterwards (`Dispatch`), with
the program's own handler. Where it lands stands for coordinates.

| Actions | Code |
|---|---|
| `Begin`, `Head`, `Key`, `Click`/`NoClick`, `Dispatch`, `Hold`, `Draw`, `Leave` | the loop that all programs have, as written in `temp.c` |
| `Close` | the Explorer's [X], or a kill |
| `*OnClick`, `*Main`, `TerminalKey` | what each program does of its own |

`realloc` keeps the block, moves it, or fails. A list whose `realloc` failed is
written past its end (`TListView.c:85-92`): the model ends there (`ruined`), with the
first such item. Facts: the [X] that the form draws takes it off the lower stack
only, and the program goes on with controls that no longer show what they are told; a
button or check box that is clicked takes the lower layer's focus and not the SDK's;
setting the number of rows of a list also sets its state, because `gui_set_prop`
writes `State` whatever the control is (`gui.c:728`), so a list of two rows counts as
pressed (`gui.h:87`) with no click under way, and `NothingStuck` says so; an edit's
text of 64 characters or more overruns `Caption[64]` into the fields behind it
(`gui.c:775`), and radio buttons are made with three of the four arguments of
`gui_create_radio` (`TRadioButton.c:30`, `gui.c:280`), so that the text copied into
`Caption[64]` is any text at all. After either of these two nothing is promised: the
model goes on as if it had gone well, or ends (`ruined`).

The scroll bar of `gfile`'s list has no handler and its position stays 0; a click on
it goes on to the list, and it has no record of its own here. One label stands for
all. The feedback that `gfile` and `temp` give to a pressed button themselves
(`gfile.c:303`, `temp.c:226`) passes the SDK's record to `gui_set_prop` and writes to
bytes of it that nothing reads. Left out: failures to create a form, panels and
images (no program has them), hovering, the ring of click events that nobody reads.

## Runs

| Run | Instance | Shows |
|---|---|---|
| `process_safety` | 6 pids, sleeps of up to 3 ticks, kills of 3 to 6 | `ProcessesSound`, `RevivedOnlyByExec`, `WaitsItsTicks` |
| `process_live` | 6 pids, sleeps of up to 2 ticks, no kills | `EverybodyRuns`, `ExecServed` |
| `memory` | frames: 6 in words of 2, three usable; kernel heap: 20 units, pages of 6, headers of 2; programs: 16 frames, 2 loaders, 2 programs; their heaps: 3 chunks of 8 units | `FramesSound`, `NullOnlyWhenFull`; `HeapSound`, refinement of `Allocator`; `FramesAccounted`, `ProgramsBacked`, `KeepsHeap`; `UserListTiles`, `RegionsKept` |
| `file_system` | 4 clusters of 3 cells, 2 names, files of 0 or 2 cells at first, appends of 1 and 4 | `DiskSound`, refinement of `FileStore` |
| `ahci` | one port, a preemptible and a masked caller, sectors 5 and 2^28 + 5, loops of 2 rounds | `TransferTrue`, `NoSuccessAfterError`, `CallsReturn` |
| `drives` | volumes: the shell and a masked program; flash drive: 26 frames, 3 tries | `GeometryOwn`, `DirectoryKept`, `SectorsOwn`; `InStep`, `ReadsTrue`, `FindsDevice` |
| `devices` | ring of 3 cells; screen of 30 x 12, movements small, large and wrapping; ports 1 to 3, 2 programs | `ShiftHeld`, refinement of `KeyQueue`; `PacketsTrue`, `RegainsStep`; `PortsSound`, `LeftOpenOnlyByDeath`, `HeardAlone` |
| `desktop` | 2 slots, 2 programs, one of them the task manager | `FrontSound`, `SlotsSound`, `ClosedAreCollected`, `CloseIsHeeded` |
| `forms` | the six programs, memos of 2 lines, buffers and lists that must grow | `CursorTellsTruth`, `LayersAgree`, `NothingStuck`, `ViewsSound` |

Three further runs end in a counterexample, each against something that the
repository says of itself:

| Run | Counterexample |
|---|---|
| `dead_stays_dead` | a process that exits while `task_d` loads the program it asked for is put back to READY and dispatched |
| `append_at_end` | an append to an empty file overwrites the root directory |
| `copy_uninterrupted` | `kmalloc` turns interrupts on in the middle of a load that had turned them off; preempted, it goes on writing the program in the kernel's address space |

Other disagreements between code and comments were met on the way. They have no
run of their own, because a property that the runs check steps around them:
the requester of an exec is woken by the next tick and not by the end of the load
(its wake-up time is past); for a while two processes are flagged as having the
focus, when the Explorer exits with an exec pending; a frame is given to two
owners when a caller is preempted (`FrameAllocator`); programs do not take the
lock of the slots (`Desktop`); a frozen disk is a success (`Ahci`).

`MCMemory`, `MCDrives` and `MCDevices` put modules together that share no
variable: what one knows of another is an outcome that it takes either way (a
frame or none, a disk that answers or does not). A behaviour of the whole is a
shuffle of behaviours of the parts, and properties of one part see only the steps
of that part. So it is enough to check the behaviours in which the others are left
alone, which is what their `layer` and `driven` say.

Why the bounds are enough. Six pids are the four kernel processes, the Explorer
or a first program, and a second one, which is what the focus, the genealogy and
the mailbox distinguish: requester, child and a bystander. Three ticks let a
sleeper be overtaken by a load.

Three usable frames in three words lie two in one word (the lost update) and one
beyond a word that is a hole in the memory map, so that the search passes a full
word, wraps, and starts from a hint above a hole. A kernel heap of 20 units holds up
to six blocks, so that a freed one can have neighbours of every kind on both sides
and pages are mapped at either end of a block; it can also fail to start. Sixteen
frames are too few for two loaded programs and their heaps, so that memory runs out
at every place where it is asked for; between them the headers have a page that is
data and bss, and pages that are bss only. Loaders are interchangeable, hence the
symmetry; each load happens once, and a program number is not used again. Three
chunks of 8 units hold five blocks of a program.

Four clusters hold the root, a directory and a file of two clusters, or three
files; three cells a row let a directory, with its two dots, run full at once and
a file end within a cluster or at its edge. Names are interchangeable.

Two polls are the first and the last of a wait; the two sectors have the same low
bytes and need the two forms of a command. Three volumes are what the code has;
the CONSTRAINT `Apart` stops after changes that have overlapped, since nothing is
claimed then. Twenty-six frames are enough for an initialisation whose nine commands
all fail and for reads after it, and they run out at every step of either.

A ring of three cells wraps with zero, one and two characters in it. Three serial
ports are a pair that shares a line and one on the other.

Two slots and two programs let programs look past a taken slot, meet in one, follow
each other in it, and end one another, in front of an Explorer that is anywhere in
its loop. (The safety properties also hold with three programs, 9.3 million
states; the configuration is not kept because of its length.) In `forms` a text is
a few characters and a list two rows, past the first buffer of each, and a memo can
scroll past its end. `MaxPid`, `MaxSleep`, `MaxBreak`, `HeapLimit`, `TextBound`,
`ScrollBound`, `ItemBound` are bounds of the model, as is `Begin`'s `~suspect` in
`FileSystem`; everything else is the code's.

`CHECK_DEADLOCK` is FALSE where a behaviour may really end: in `memory`, whose loads
are used up and whose memory runs out; in `drives`, where a masked program can wait
for ever for the lock that the preempted shell holds; in `devices`, where line 3
halts the machine; in `forms`, where the program has been closed. The rest can
always go on.

Fairness. In `process_live`: `WF(Tick)`: the timer interrupt keeps coming,
and no modelled code runs for ever with interrupts off. `SF(SpawnStep)`: `task_d`
is enabled only while it has the
CPU, which a tick takes away; each time it is dispatched it has a whole
time slice, and a step between two of its waits needs less. That is strong
fairness. Nothing is assumed of programs. The run has no kills: pid 4, which is
`task_d`, is not among the protected pids (`proc.c:626`), and once it is killed no
request is ever served. In `desktop`: weak fairness of the Explorer and of each
program that runs, which is what `EverybodyRuns` of the process manager gives
them; none of `Start`, and none that makes the mouse do anything in particular.
In `ahci`: strong fairness of each caller's steps, because a masked caller can be
in its way again and again; the disk promises nothing. In `devices`: weak fairness
of IRQ 12 (the mouse sends what it has begun) and IRQ 4 (interrupts are on whenever
a program runs, so a line that asks and is not masked is answered). `RegainsStep`
and `HeardAlone` state what else they need as premises: a user who goes on making
small movements, no other port in use.

## Proofs

All theorems hold for every value of the constants that the named assumptions
admit.

`ProcessManagerProofs`, from `BoundsAssumption`. The invariants do not stand by
themselves: that `SpawnPoint` leaves the focus consistent needs to be known of the
child that `task_d` remembers. `IInv` conjoins them with `Bookkeeping`: pids from
`next_pid` on are unused; the mailbox and `task_d` remember processes that may ask
for programs; and while `task_d` places a child it is younger than the requester,
nobody's parent, without the keyboard, and not the process that `task_c` made
(`NewChild`). One lemma, `TimerStep`, says what the scheduler does to the process
table whichever call entered it, another, `HandFocus`, what the death of a process
does to the focus; each action then has a step. `TypeCorrect`, `OneCpuOwner`,
`VitalTasksLive`, `FocusConsistent` and `ParentsAreOlder` follow, and
`ProcessesStaySound`, which is what the run checks. `DeadRevivedOnlyByExec` and
`SleepersWait` are about steps, and need `SearchGoesRound`: that the list is no
longer than the 257 entries that the search looks at. Without it schedule() can pass
over every ready process and run `head`, whatever its state: since zombies are never
reaped, 257 launches lead there.

`KernelMemoryProofs`, from `FrameAssumption`. Of the parts of `FramesInv`,
`ReservedKept` is inductive by itself under every interleaving: reserved bits are set
in the bitmap and in every copy of a word that is going to be stored. `Sequential`,
the rest, is claimed until calls overlap: one call at most is under way (`Alone`),
its copy of the word is the word (`Agree`), marked frames are accounted for
(`Accounted`), and the words below the hint (`FullBelowHint`) and those that the
search has passed (`FullBehind`) are full. The theorems are `ReservedSafe`,
`FramesNotShared`, `FramesNotLost`, `LowestHoleFirst` and `NullIsHonest`;
`FramesStaySound` puts them together.

In the same module, from `HeapAssumption`: any sizes of header, page and heap, any
requests. `HeapInv` says of the list what `kmalloc` and `kfree` rely on: links agree
with addresses in both directions (`Linked`), blocks cover the heap unit by unit and
their lengths with headers add up to its end (`Covered`), no two neighbours are free
(`NoFreePair`), and the end is mapped. A lemma for each operation on the list
(cutting, appending, joining) says what it leaves and what it changes, one for each
call that it keeps `HeapInv` and what becomes of the blocks in use. `HeapIsSound` is
what the run checks; `HeapIsAllocator` is the refinement: every call is a step of
`Allocator`, or none. `kmalloc_stats` is modelled by sums that the community modules
define by recursion over subsets; the lemmas on sums prove that such a
function exists, and what one element more or less does to a sum.

`DesktopProofs`, from `DesktopAssumption`. `StackSound` needs of `bring_to_front` that
it moves the window to the end and leaves every other one a place of its own
(`BringToFrontSound`). `DragHasFocus` needs `Pressed`: a hit test runs only for a
fresh press, with no drag under way. The theorems are `DesktopTypes`,
`FocusIsInFront` and `DragIsCurrent`, and `FrontStaysSound` for all of them, under
every interleaving.

`SlotsStaySound`, in the same module, is about slots and programs until something
disturbs a registration. `SlotsInv` says that two running programs have two slots
(`OneSlot`), that an open window's slot bears its program's pid and buffers
(`Stamped`), that every open window has a program (`Owned`), that a slot being
collected stays closed (`Collecting`), and what the task manager may conclude from
the slots that it has looked at (`Hunting`): without the last, a kill could leave a
window without a program.

`ProgramMemoryProofs`, from `SpaceAssumption`. `SpaceInv` is `FramesApart`: no frame
is twice in an address space, in two of them, in two loaders' hands, or in one of
these places and free; `AllFound`: none is forgotten until memory has run out or a
break has been lowered, those of programs that ended and of failed `create_process`
calls being stranded, not free; `LoadsApart`: a program has one loader; `LoadInv`:
what a load that has met no failure has mapped and filled so far, place by place;
`ProgramInv`: below the break all is mapped, and above it nothing until a break is
lowered or a growth fails; `GrowthInv`: what a SYS_SBRK under way has mapped so far.
All of it is claimed, and all steps are taken, up to the first overlap of two calls
of the page allocator. A walk through the tables of `vmm_map_page_to_pml4` may make
up to three and fail half way; `Walked` says what it always does. From the invariant
follow `FramesStayAccounted` (the cardinality in `OneOwner` by a bijection between
places and frames), `ProgramsStayBacked` and `HeapIsKept`. From `UserHeapAssumption`:
`HeapInvariant`, a list as in the kernel's heap, whose neighbours may both be free;
`ListTiles`; and `KeepsRegions`: a call takes one block at most and gives one at
most, and what it gives is apart from all others.

`DeviceProofs`. From `KeyboardAssumption`, `RingIsQueue`: the ring implements
`KeyQueue`, whatever its size, because the cells between the two indices, in order,
are the queue; and `ShiftIsHeld`. From `SerialAssumption`, `SerialInvariant`: the
bytes in an open port's ring and chip came while it was open, and a program that
holds a port holds it alone; `PortsAreSound`; `OnlyDeathLeavesOpen`. From
`MouseAssumption`, `PacketsAreTrue`: nine bits of movement, cut into a byte and a
sign, come out as they went in.

`DriveProofs`. From `VolumesAssumption`: `VolumesInv` says at each step of a change
of drive which of the globals are already the new volume's, and that copies of a
volume are its own; hence `GeometryIsOwn`, `DirectoryIsKept`, `SectorsAreOwn`, until
changes overlap. From `UsbAssumption`: `UsbInv` is `StepsInv` (both ends of a pipe
are at one place until the device has seen a failure), `AnswersInv` (data that the
device holds answers the command under way) and `SearchInv` (where READ CAPACITY is
among the pairs of endpoints); hence `EndsInStep`, `ReadsAreTrue` and
`SearchFindsDevice`.

From `AhciAssumption`, in `DeviceProofs` too. `SectorOfCommand`: the bytes of a command,
28-bit or 48-bit, give back the sector, for every `uint32_t`. `AhciInv` says of a
call by itself that its data is in the bounce buffer and its command in the table
until the port lets go of it, and then the sector has been moved; of a call after a
disk error, that it will not end well. Hence `TransferIsTrue` and `ErrorIsFinal`.

`FileSystemProofs`, from `FileSystemAssumption`: volumes, clusters and files of any
size. What TLC checks, `DiskSound`, holds between any two writes and says nothing of
the call under way, so that it is not inductive: the cluster that a copy is about to
link could be anybody's. `IInv` is `TypeInv`, with the locals that a call must have
at each point of its progress (`CallTyped`), and `SoundInv`, which until the volume
is misused says four things. `Volume`: the chains that begin at the entries and in
the hand of the call are paths that share no cluster and avoid the root (`Apart`),
and begin at one entry each (`OwnFirst`); every entry lies in a directory, and if it
is one itself has `.` and `..` (`Tied`); its chain is long enough, holds nothing that
looks like an entry if it is a file's (`Backed`), and ends as such, except for the
one being lengthened (`Ended`); free clusters hold nothing that looks like an entry
(`Clean`), or a new directory could be born with ghosts; `.` and `..` lie only where
they were made (`DotsPlaced`). `Working`: how far a deletion, a copy, a new directory
and an append have come, and that what they still hold has room for the rest. `Kept`:
who owns the marked clusters, until some are lost. And the current directory is a
directory. A chain is what the search of the table yields, and there is no induction:
a `Path` (a sequence without repetitions, each leading to the next) from a cluster is
its chain (`PathChain`) and a chain without repetitions is a path (`ChainPath`), so
that a write to the table is judged by what it does to paths: off them it does
nothing (`ApartKeep`), at the end it makes one longer (`ApartGrow`), at the beginning
it makes one shorter (`ApartPop`). The writes of the driver are then a handful of
changes to a `Volume` (`VolumeTable`, `VolumeRow`, `VolumeEdit`, `VolumeRemove`,
`VolumeAdd`, `VolumeNew`, `VolumeGrow`, `VolumeEnd`), and each action is one or two
of them. The theorem is `VolumeStaysSound`.

`FilesAreStore` shows the refinement of `FileStore`, by simulation: each step from a
state of `IInv` is an operation of `FileStore` or changes neither files nor data in
hand (`StepStores`). It needs one invariant more, `WrittenInv`: between two writes of
a copy or an append, the clusters after those that callers see hold the part of the
data that counts as done (`Written`), so that the entry, or its new size, is all that
is missing. That is what makes the last write of a call, and it alone, an operation.
A file is what the cells of its chain hold (`Body`), and a write leaves a file alone
that it does not reach: its chain goes on as it did, or further (`Extended`,
`ChainStays`), and its clusters hold what they held (`Untouched`). Because no two
chains meet (`Apart`) this is so of every file but the one of the call (`SameFiles`,
`OtherFiles`), and of that one, for the cells that its size covers (`RowKeeps`,
`RoomFilled`). The room that an append finds at the end of the last cluster makes it
necessary that `Working` knows not only that the clusters suffice, but how full they
are: the next cluster begins exactly where the data done ends.

`FormsProofs`, from `FormsAssumption`: blocks, arrays and views of any size. A lemma
for each operation of the SDK says that it keeps a control whole (`Sound`: both
records show the same, a text fits its block, a list's index is a row) and like
itself in what only the lower layer decides (`Like`). Handlers and keys are made of
these, so whatever a program does `Leads` from a form to a like one. `FormInv` is
`TypesInv`; `FocusInv`, the cursor is with the keys, except at a control that was
clicked just now; `AgreeInv`, switches agree, except that a click which the SDK has
not seen is `Pending`: its check box is flipped, its radio button the only one on, in
the lower layer alone; `UpInv`, what is down when the timer is out, or when the form
has left the stack and hears of no release, is nothing, lists of two rows apart;
`RoomInv`. That at most one radio button is on has to be known of both layers at
once: a click on one that is on already is dropped by the SDK and not by the lower
layer, and the layers agree after it only because the others were off. Hence
`CursorIsTrue`, `LayersStayAgreed`, `NothingStaysStuck` and `ViewsStaySound`: every
property that the run checks.

Nothing is assumed of a constant that the code does not ensure: positive sizes,
numbers that are numbers, and what the sections above name. The library's induction
theorems cannot be used with the installed provers. Where induction is needed, over
sizes of sets or lengths of searches, it is made from the fact that a set of natural
numbers has a least one (`NatLeast`), which needs no operator as a parameter.

Only model-checked: liveness (`EverybodyRuns`, `ExecServed`, `CallsReturn`,
`RegainsStep`, `HeardAlone`, `ClosedAreCollected`, `CloseIsHeeded`), which is out of
the prover's reach. Every other property of a passing run is a theorem.

## Not modelled

Registers and schedules of devices (EHCI's in particular), PCI, IDE, PIT, video;
drawing, text and geometry; one-time set-up, `pic_init` (dead code) included; the
VFS past the standard streams, which as built cannot be reached: its root is never
set, so that SYS_OPEN always fails and only descriptors 0 to 2 work. The reasons
are beside each component in `PROJECT.json`. Of modelled components: the creation
of a process by single stores, file calls that overlap or meet a failing disk,
serial writes, and positions of windows and controls.

## Plan

In this order:

1. `ProcessCreation`: `create_process` by single loads and stores, with `next_pid`
   and the list.
2. `FileSystem` with two calls under way, and over storage that fails.
3. `Ahci` with both disks, and two ports over the one bounce buffer.
