# PyotorComputer in TLA+

PyotorComputer is an emulator of a 65C02 home computer (`emulator/`), the kernal
that runs on it (`kernal/kernal.s`), a debugger that attaches to the running
emulator through shared memory (`tools/sysdbg/`) and a tool that makes disk images
(`tools/filing_system/`). These modules model the parts in which order matters:
processes that share a lock byte, two threads that share a list, an interrupt line
that several devices share, memory banks that share an address range, disk images that
are written a descriptor at a time by two programs, a line editor whose cursor, buffer and
screen must agree, and a CPU that is interrupted between any two instructions. TLC checks
the models on small instances; TLAPS proves their main safety properties for all
values of the constants.

## 1. Inventory

| Component | State | Operations | Talks to | What is hard | What makes it correct |
|---|---|---|---|---|---|
| Shared memory and lock (`emulator/src/shared_memory.c`, `tools/sysdbg/src/shared_memory.c`) | the object `Data`, its last byte as a spin lock, `lock_owned` per process | open as host or client, acquire, release, unlink | every byte access of the CPU; every frame of sysdbg | processes killed under the lock, early returns, an object that outlives its process | one process at a time; an exit leaves no lock behind; whoever must end ends |
| Process life (`main.c` of emulator and sysdbg, `video.c:91-105`) | `running`, `emulator_flags` (W, S, R), `IPS` | start, quit, join, attach, SIGINT | two threads and the debuggers, through unlocked bytes | read-modify-write by two threads, shutdown in any state of the CPU | quitting ends; debuggers notice |
| Memory map (`ram.c`, `ram.h`, `sysdbg/src/disassemble.c:30-45`) | 64 KB, registers, two buildings of banks | read, write, bank switch | CPU, disk DMA, debugger | layout arithmetic: off-by-one, strides, the end of the mapping | banks are independent; ROM, registers and lock are out of reach |
| Scheduler (`shceduler.c`) | a bitmap and 128 entries | insert, run what is due, remove | emulation thread inserts, main thread runs | no lock at all | a job runs, once, not early |
| Interrupt path (`kbd.c`, `ctrl_reg.c`, `cpu.c:102-137`) | the IRQ pin, the I and W flags | key, disk completion, acknowledge | main thread, CPU, kernal | one line and one acknowledgement for all devices | no interrupt is stuck; keys arrive |
| Disk (`disk.c`, `ctrl_reg.c:250-262`) | `connected_disks`, the disk register | select, request | kernal through registers, memory by DMA | the operation is immediate, its interrupt 250 ms late | code and completion bit belong to this request |
| Kernal disk driver (`kernal.s:540-630`) | stack, flags | `read_disk`, `write_disk` | WAI and the shared interrupt | other interrupts end the wait | returns, and tells the truth |
| Kernal terminal (`kernal.s:160-362`, `1227-1275`) | `TERMINAL_STATUS`, buffer, index, cursor | enter, backspace, character, the commands | interrupt handler through one byte; character memory | the mailbox holds one event; it is read twice; bytes wrap | an action per interrupt, a key per action; cursor, buffer and screen agree |
| Kernal file system (`kernal.s:796-1224`) | directory in RAM, sectors | initialise, new descriptor, next directory, list, find, load | disk driver, image made by the tool | several writes per operation, results ignored, a kill between them | nothing is handed out twice, no file changes, commands return |
| Filing system tool (`tools/filing_system/`) | `init`, `current_dir_list`, the image | create, add, update, delete, rename | files of the host | several writes per operation, cached structures | chains are disjoint, files readable |
| Debugger commands (`input.c`, `cmd_interpreter.c`, `disassemble.c`) | mode, breakpoint flag, command buffer | keys, breakpoints | `IPS`, without the lock | fires on what is drawn | stops where it should, and goes on |
| CPU (`cpu.c`, `cpu/instructions/`) | A, X, Y, S, P, PC, the stack, W and S of `emulator_flags` | one per opcode, `call_interrupt`, reset | memory, the pins | interrupts between the instructions of a calculation; a stack that wraps | carries and comparisons survive interrupts; returns go where they must |
| Video (`video.c`) | character memory, frame, sprites | draw a character, scroll, render | SDL, the control register | a cell computed from unchecked bytes; buffers replaced while they are drawn | drawing stays inside |
| Sound, clock (`audio.c`, `ctrl_reg.c:208-242`) | - | tone, read the time | SDL, the host | nothing | - |
| Assembler, schematics, generators | - | - | - | stub or data | - |

The hazards of the code, each at its line and with the properties that cover it, are
in `PROJECT.json`.

## 2. Modules

    Mutex  <--implements--  SharedMemory        MCSharedMemory    SharedMemoryProofs
    Store  <--implements--  MemoryMap           MCMemoryMap       MemoryMapProofs
                            Scheduler           MCScheduler       SchedulerProofs
                            Machine             MCMachine         MachineProofs
                            FilingSystem        MCFilingSystem    FilingSystemProofs
                            KernalFS            MCKernalFS        KernalFSProofs
                            Terminal            MCTerminal        TerminalProofs
                            Cpu                 MCCpu             CpuProofs

Every model names its state and its actions after the code; `PROJECT.json` ("map")
gives the lines of each definition. Definitions whose comment begins with MUTANT are
wrong versions of their neighbour. No behaviour of a specification uses them; they
are there to show that each property notices a bug of the kind it is for.

### SharedMemory

Processes are one emulator and a set of debuggers. The emulator has a place for each
of its threads (`pcMain`, `pcEmu`), a debugger one (`pcDbg`). A tick of the CPU is a
sequence `todo` of operations on the shared object: "mem", "rom" and "lockbyte" are
byte accesses (acquire, then the access with its release), "setR" to "clearS" change
a bit of `emulator_flags` by a load and a store, "check" is the test of W and S. The
program is the constant `Instructions`, a set of such sequences; an interrupt is the
sequence of `call_interrupt`. Data are left out.

`EmuRomWrite` is the early return of `mem_byte_write` that forgets the release,
`MainExit` the join with the release behind it, `EmuCrash` and `DbgCrash` a kill,
`Boot` a start or a restart that finds the object of its predecessor.

`Mutex` is the abstract specification: a process is inside or not, and a process that
dies inside poisons the mutex for good. `LockIsMutex` says SharedMemory implements it
with `inside` the processes whose `lock_owned` is set.

### MemoryMap

The layout of the object (`ram.h`, `shared_memory.h`) with the sizes as constants,
`Translate` as `mem_byte_read` and `mem_byte_write` compute it, `DebuggerTranslate` as
sysdbg computes it. `mem` is the mapped object byte by byte, `fault` an access
behind the mapping. A write also clears the lock byte, which the release does.

`Store` is the abstract specification: cells that keep their value until they are
written. `ImplementsStore` says the banked memory is such a store, with a cell per
place of a bank of a building that is really mapped. The ROM starts as zeros here: what
`load_file` puts there is data. By `ram.h:15` it goes up to `$FFFF`; `KERNAL_MEM`, as it is in
the code, leaves out that last byte, and so does `OnlyTopByteWritten`.

### Scheduler

`shceduler.c` at its loads and stores: `schedule_function` in the emulation thread
(`pcE`), `do_task` and `task_complete` in the main thread (`pcM`). The two stores of
`task_complete` come in either order, since the compiler exchanges them. A job is a
call of `schedule_function`; `due`, `runs`, `dropped` and `overlapped` are history:
`overlapped` is set when an insertion and a removal are under way at once.

### Machine

The IRQ line from end to end: `keyboard_request` (two stores) and `send_irq` in the
main thread; `call_interrupt`, `terminal_handler` and the acknowledgement in the CPU;
`read_disk` and `write_disk` from the selection of the disk to the return, with the
requests that booting and `DIR` make; the terminal loop with its three handlers. A
step of the CPU is one instruction that touches shared state, together with those
before it that do not. The scheduler is here an entry per request (`last`): it becomes due
behind the WAI of the request or, as Scheduler allows, is lost or runs early, while it is being
filled, so that its interrupt is over before the WAI.

### FilingSystem

The menu of the tool and its operations down to single writes of a descriptor or of the
directory. `init` is the directory in memory, `listing` sector 0 and `fs` the other sectors
of the image; a write is one step, since every `write_to_fs` closes the file. `AddFile` and
`UpdateFile` run up to their first write; `Overwrite`, `Link`, `AppendBlock`, `WriteFile` and
`WriteList` are `write_file_data` behind it, in the order of the code with its `goto`;
`DeleteFile`, `MarkFile` and `MarkNext` are `delete_file`. `Crash` ends the program at any step
(quitting is a `Crash` at the menu) and starts it again on what is on disk.

Contents are the number of the write operation they come from and the part of the file
they are; sizes count half descriptors. `Read` keeps what `fread` leaves alone: behind the
end of the image the buffer holds what it held. `delete_file` looks at its buffer once more
after `free`; the allocator of the build writes over the first bytes only, not over the
link. `Copied` is reading a file, as `get_file_data` does it: the chain is copied until a link is
0, into a buffer that goes by the size (`FitsBuffer`). History: `stored` is what a file must read
back, `misfit` an update that does not fit the chain it finds (it has no place for its last
descriptors, which `filing_update` shows, or leaves some linked behind them, which are copied
behind the end of the buffer), and `damage` the ways in which the tool harms an image: "directory" (sector 0
overwritten: a full directory, a rename of a missing file, a kill behind the unset link),
"growth" (a kill while a growing update has linked sectors that the directory counts as free),
"hollow" (a link to a sector that is never written: an update that grows to a multiple of
1000 bytes). A property that says `damage = {}` claims nothing of such an image. The last two
exceptions are needed: without "growth" TLC finds `AllocationIsSound` violated, without
"hollow" `OperationsEnd`, and without `misfit`, whichever of its two cases, `FilesReadBack`.

### KernalFS

Disk 1 through boots, listings and kills. A step is one disk request with the code up to the
next one: `BootRead` and `DescribeRead` are the two calls of `fs_initialize` a boot makes,
`WriteCount`, `NextDirectory`, `WriteLink` and `WriteNew` the rest of `fs_new_dir_desc`,
`fs_list_directory`, `NextEntry` and `LastEntry` the command DIR. That one request returns,
with the code of its own disk, is what Machine is about. A slot is the two sectors of a
descriptor. `disk` is the image as the emulator reads it, `stable` the image without the write that
stdio still holds back (the next `fseek` writes it out), so that `Crash` may lose the last
write; closing the window (`Quit`) writes it out. The object that is the memory outlives a kill,
and with it the directory buffer; a read behind the end of the image leaves the buffer as it
was, and a write there leaves a gap of zeros.

`AddFile` and `DeleteFile` are the filing system tool, used between two boots. The disks put in
are an empty one of the tool, one with two directories, and, when `Foreign` is set, disks of
another format, which the kernal refuses and writes to all the same; of those the properties
claim nothing but that the commands return. `version` is 1 for 1.0 and 0 for anything else.

`LOAD` is left out: it passes a byte of a buffer's address for the disk, takes the 1 that
`fs_find_file` returns for a failure for an entry, and copies 1000 bytes of the file buffer, which
holds nothing of the image, to `$BD00`.

### Terminal

The line editor event by event: `reg_char_routine`, `backspace_routine`, `enter_routine`, and
what a command does to the screen and the cursor (`PrintName`, `Jump`, `compare_end`).
`video_draw_character` is `video.c:33-54`: it scrolls, and it draws at column plus row times
width without a test. All bytes wrap at `Byte`. The variables behind the buffer are where they
are in memory, so that a backspace at the start of a line, which makes the index 255, comes to
zero the cursor.

History: `over` is set by a backspace in the first column until the command is over, `damaged`
by a character drawn outside of `character_memory`; behind that nothing is claimed, and the
model stops. The colours, FG and BG, `LOAD` and the text of messages are left out.

### Cpu

`tick_65C02` in two steps, the poll (`call_interrupt`, `NoInterrupt`) and the instruction, with
devices lowering their lines at any time in between (`Lower`). `Code` is the program as the emulator
decodes it: the operation, the operand bytes it consumes (which is not always what the 65C02
consumes) and the target of a jump. Memory except page 1, X and Y are the environment: a load
gives any byte of `Data`, and so does the result of AND, ORA and EOR. A cell of the stack is a
byte, packed flags, or free; pulling a byte as flags gives any flags.

`depth`, `calls` and `last` are history. `calls` are the calls and interrupts whose bytes are all
still on the stack, with the address and flags a return must restore; a push that wraps onto
their bytes takes them out, a TXS or a reset all of them. `last` is the exact carry, an integer computed from the operands and
not from C, of the sum, difference or rotation under way, or the order of what was compared.
An interrupt puts it away in its frame, and an RTI brings it back.

B and D have no effect in this CPU and are left out. The order in which C evaluates the operands of
`NEXT_BYTE | NEXT_BYTE << 8` is unspecified; it is taken from left to right, as gcc compiles it
from `-O0` to `-O3`.

## 3. Runs

| Run | Bounds | Shows |
|---|---|---|
| `shared_memory` | two debuggers; the emulator and one debugger may be killed at any step; two starts; loads, ROM writes, WAI, STP, interrupts | `MutualExclusion`, `ExitReleases`, `LockIsMutex`; `QuitCompletes` and `DebuggersDrain` |
| `flags_race` | one debugger, no kills, one start | `StoppedIsVisible` fails: WAI stores the running bit that main has cleared |
| `memory_map` | 14 bytes and 15 + 15 banks of 4 cells in a window of 8; nibbles 0, 1, 2, 8, 9, 15; one byte different from 0 at a time | `ImplementsStore`, `OnlyTopByteWritten`, `StraysNeedHighBank` |
| `scheduler` | a list of 2 bytes of 2 bits, five jobs, delay 1, time 4 | `AtMostOnce`, `BitmapIsExact`, `NullIsNotCalled`, `EveryJobRuns` |
| `machine` | two characters, four keys, disks 1 (connected), 2 (not) and 4 (none) | `ResultIsRight`, `ActsAreCaused`, `RequestReturns`, `IdleKeyTyped`, `IrqIsServed` |
| `machine_ack` | one key | `AckedIsHandled` fails: a key is acknowledged unseen |
| `filing_system` | two names, a directory of two entries, six descriptors, sizes of 1/2 to 5/2 descriptors, three adds or updates | `FilesReadBack`, `AllocationIsSound`, `DiskIsSound`, `OperationsEnd` |
| `filing_update` | the same, sizes of one and of two descriptors | `UpdatesAreWhole` fails: an update from one to two descriptors sets no link |
| `kernal_fs` | five slots, a directory of two entries and the place behind them, two names, disks of the tool and foreign ones, boots, kills, tool operations | `AllocatedIsCounted`, `FilesKept`, `ListsWhatIsThere`, `CommandsReturn` |
| `kernal_refused` | four slots, no foreign disks | `OwnIsAccepted` fails: behind the first boot the disk is refused |
| `terminal` | bytes of 8 values, a line and a screen of three columns, three rows, one character and zero | `CursorIsIndex`, `ScreenShowsLine`, `OneIsLeftOver`, `DrawsInside` |
| `cpu` | bytes of 8 values, a program of 50 bytes with a subroutine, an IRQ and an NMI handler that calculate, and a jump that may leave it; operands 0 and 7; no NMI with more than three bytes on the stack | `CarryIsExact`, `ComparisonHolds`, `ReturnsAreExact` |

Why the bounds are enough:

* Two debuggers are the least that compete with each other as well as with the
  emulator; two starts are the least that meet an object left behind. Instruction
  fetches are one "mem" each, since a run of equal accesses adds no new order.
* The layout keeps the proportions of the real one: the lock byte in bank 8 of
  building B, bank 9 behind the mapping. The proofs are about the real sizes. A byte
  different from 0 shows every overlap, since it is seen through every other address.
* The list has a second byte, so that `SkipByte` and the full list happen, and one job
  more than slots.
* Four keys fill the time between two disk interrupts, the handler, the mailbox and
  the prompt with a key each.

* A file of at most three descriptors has a first, a middle and a last one. Two entries and
  three operations let a file be added, made longer or shorter and added next to; the third
  operation is the first on sectors whose owner was changed by the second. A directory of
  two fills up, so that `AddBeyond` happens.

* Five slots let a disk be booted three or four times, so that there is a directory, a second one
  linked to it and a link that replaces another; two entries are a live one and a deleted one,
  and the place behind them is the one DIR visits too much. A boot begins only if there is a
  free slot on the image; what a full one is like is not looked at.
* With three columns and bytes of 8 values an index of 255 lies as far behind the buffer
  as the variables it damages. Three rows scroll.
* The program of `cpu` has sums, differences and rotations of two bytes, a comparison
  with its branch, a call with PHP and PLP in it, and BRK, each to be interrupted
  anywhere; 0 and 7 are the least and the greatest byte. S wraps there, as TXS gives it any operand, but no
  push reaches the bytes of a live call; that case is in the proof.

`CHECK_DEADLOCK FALSE` is in every configuration: processes exit, MaxBoots, MaxTime and
MaxKeys stop the world, a machine without keys has nothing to do, the tool's writes and the slots
of an image are used up, the terminal stops when memory is damaged, a fault ends the emulator,
and the CPU stops behind an undefined step.

## 4. Fairness

* SharedMemory: weak fairness for both threads of the emulator and for every debugger
  (the operating system runs them). Strong fairness for the emulator's acquire: a
  debugger that has released the lock sleeps 16 ms, far longer than the spinning
  thread needs. Debuggers have weak fairness only, for the converse does not hold: the
  CPU takes the lock again at once. `DebuggersDrain` therefore starts when the emulator
  has gone.
* Scheduler: time passes, the main thread goes round its loop, the emulation thread ends
  a call it has begun. Nothing makes it begin one.
* Machine: the CPU goes on, `keyboard_request` ends, and `do_task` finds what is due.
  Nobody has to press a key. Nothing is assumed of how soon the CPU is at the WAI of a request:
  the interrupt may be over by then (`do_task` ran the entry while it was filled, or a
  debugger paused the CPU for 250 ms), and the kernal waits for ever.
* FilingSystem: the tool goes on once an operation has begun (`Step`). Nobody has to choose
  an operation, and nothing has to crash.
* KernalFS: the CPU goes on with a boot or a command it has begun (`Returning`). Nobody has to
  give a command, switch off or use the tool.
* MemoryMap, Terminal and Cpu have safety properties only and no fairness.

Some liveness properties have an exception, and it is in their statement: `QuitCompletes`
and `DebuggersDrain` except a lock byte left behind by a killed process or a ROM write
(`Leaked`), `EveryJobRuns` a job that found the list full or met an overlap,
`RequestReturns` a timer entry that the scheduler's race has lost or has run before the WAI,
without which TLC finds it violated.

## 5. Proofs

All proofs are checked by TLAPS from the definitions; the only assumptions are the named
ASSUMEs on the constants and, where they are hypotheses of a theorem, `SparesLockByte`
(no instruction of the program stores to the lock byte) and `RealSizes` (the sizes in
`ram.h` and `shared_memory.h`, with the mapping rounded up to pages of 4 KB).

**SharedMemoryProofs** (`TypeCorrect`, `Exclusion`, `CleanExit`, `LockImplementsMutex`). The
lock byte alone is no inductive argument, since it also stays set when nobody owns it. The
invariant `IInv` adds who owns: a process inside owns (`CriticalOwns`), an owner implies a set
byte (`OwnedIsLocked`), and two owners are the same process (`OwnerUnique`). Once joined the
emulation thread takes no more steps (`ExitedIsDone`), which is why the release in `main` is
not a second one, and what is left of an instruction spares the lock byte. The refinement
follows action by action.

**MemoryMapProofs** (`BanksAreDisjoint`, `LockByteAddresses`, `TypeCorrect`, `StraysAreHigh`,
`RomButTopSurvives`, `TopOfRomIsWritable`, `MemoryIsStore`, `NeighboursShare`, `DebuggerSeesUnbanked`). Arithmetic first: every banked address is
65555 + k + 48000 (i - 1) or 425555 + k + 48000 (i - 1), with k below 24000 and, for building
B, not below 12000; two such sums agree only if building, bank and cell do. Building B's room
begins inside building A's banks, so it is only the half-empty stride that keeps them
apart. Of the steps, only a store to the cell itself changes it, which is the refinement.
`RomButTopSurvives` (`OnlyTopByteWritten`) follows from the same ranges: no banked address comes
below 65555, and of the others `KERNAL_MEM` lets none into the ROM but `$FFFF`, which
`TopOfRomIsWritable` says a store does change.
`NeighboursShare` and `DebuggerSeesUnbanked` state what the layout costs: two neighbouring
addresses of a bank are one byte, and the debugger sees the CPU's byte only where no bank is
selected.

**SchedulerProofs** (`TypeCorrect`, `JobsRunOnce`, `BitmapStaysExact`, `NoNullCall`).
`JobsRunOnce` holds although the threads race: a job not yet stored is new (`UnstoredIsNew`),
a job in a slot is in no other (`StoredOnce`), and one that has run is in no slot but the one
being completed (`RunIsLeaving`). The other two hold until the first overlap; their invariant
(`Exact`, `ScheduleKnows`, `TaskKnows`, `EntriesAreWhole`) says what each thread knows of the
slot it is at: a byte loaded is the byte still there, a marked slot is nobody else's.

**MachineProofs** (`TypeCorrect`, `ResultsAreRight`, `ActsAreOwed`). `ResultsAreRight` needs
the place in the driver tied to the device (`DeviceAnswers`): behind the store of D1 the code
is that of the current request until the next request. `ActsAreOwed` counts credits
(`Covered`): an interrupt that is still to be handled and a key that is still to be acted on
hold one each, and `owed` is never less than what they hold, because an interrupt that finds
the line low or the mailbox full loses its credit and never gains one; that a handler is
never interrupted (`HandlerIsMasked`) keeps the two apart.

**FilingSystemProofs** (`TypeCorrect`, `MemoryIsSound`, `DiskStaysSound`, `FilesComeBack`,
`ChainsStayApart`), for any numbers of names, entries and sectors and any sizes. The types need arithmetic: what is left of the
sectors that were free at the beginning (`HasRoom`) covers the descriptors still to come,
because a file of sz bytes has `BlocksOf(sz)` of them. Soundness is not inductive in either
directory alone, since an operation holds sectors that neither the image nor the directory on
disk knows of. The invariant `SInv` adds what each operation has in hand: the link of the
first descriptor of a new file (`AddInv`), the last descriptor of the chain an update walks
(`UpdateInv`), the sector about to be written (`OwnInv`), and that disk and memory agree in
between (`AgreeInv`). Three lemmas carry it: a write that keeps the link (`WriteSame`), a
write to a sector taken before (`WriteNew`), and taking the next free sector (`Take`,
`TakeEntry`).

`FilesComeBack` (`FilesReadBack`) is about what the chains hold. Its invariant `DInv`
does not follow chains: it says of every descriptor that holds part m of a file that one
which holds part m - 1 points to it, and that it points to part m + 1 if there is one
(`Kept`), so that a write disturbs one link at most. To it belong what an operation has built
so far (`Parts`, `Building`), the descriptor an update is about to overwrite, which is the next one
of the file's own chain and so no other file's (`CursorInv`, `CursorForeign`), and that nothing on
disk is newer than the last operation (`Fresh`). What holds the last part of a file links to
nothing, which is why the copying ends within its buffer (`KeptFits`); it is what the exception
`misfit` is needed for, since an update to a smaller size leaves the old link. Only the last step,
that such an image reads back (`CopiedWalks`, `KeptHolds`), is an induction over the chain.
The library's induction theorems take a
predicate as a parameter, which the provers cannot instantiate; but its theorem on least elements
of well-founded orders is about sets, and from it follows induction for sets of numbers
(`Induction`), which is all that is needed.

`ChainsStayApart` says what a sound directory is good for. Soundness speaks of links one by one;
by induction along the chain, no sector is in the chains of two files or twice in the chain of one
(`Apart`), and by counting sectors every chain comes to its end within the image (`Ends`). So
none of the walks of the tool over the directory on disk is endless, which is what the liveness
property `OperationsEnd`, that TLC checks, rests on.

**KernalFSProofs** (`TypeCorrect`, `NothingIsGivenTwice`, `FilesStay`, `ListingIsExact`), for any number of slots and
entries and any disks. `AllocatedIsCounted` is not inductive: a boot is halfway
through three writes, and what makes the next one safe is in the buffer. `IInv` adds that the
disks are such that one boot fits (`Roomy`), that both images are safe to read (`Images`), and
what each request may rely on (`Progress`): the buffer is a copy of the initial directory with the
version decremented (`Copy`), and the slot on the stack is the one just counted, with nothing
in it (`Taken`). `FilesStay` follows: a boot writes to slot 0, to a directory or to a slot
that holds nothing. `ListingIsExact` is the loop invariant of DIR (`Listing`): the names written
so far are those of the entries passed so far that are in use, in their order.

**TerminalProofs** (`TypeCorrect`, `CursorStays`, `LineIsShown`, `OneStays`, `DrawingStaysInside`), for
any sizes with a line no wider than the screen. The four properties are inductive only
together: a character keeps the screen in step because cursor and index are equal, and drawing
stays inside because the index is at most the width. What is missing is that a command begins in the first column (`CommandAtStart`). The
work is the arithmetic of scrolling (rows that move up stay apart).

**CpuProofs** (`TypeCorrect`, `CarriesAreExact`, `ComparisonsHold`, `CallsReturn`), for bytes of any
even width, any program, any vectors and interrupts at any time. For the calculations the invariant
is `RightHeld`: `last` agrees with the flags, and so does what each interrupt on the stack has put
away with the flags it pushed. For the returns it is `Stacked`: a frame in `calls` lies within
the bytes pushed (`Within`), and its cells still hold what was pushed (`Intact`), modulo the
wrap of S; a push of up to three bytes touches no cell of a frame that is left in `calls`.

Only model-checked: the eight liveness properties, which the prover used cannot reach because
they need fairness, and the four violations, each a single behaviour.

## 6. Disagreements found

Shown by a run:

* `emulator_flags` is changed by two threads without the lock; a WAI that loaded it before
  main cleared the running bit brings the bit back, and it is set when the emulator has gone
  (`flags_race`).
* The acknowledgement covers keys nobody has looked at (`machine_ack`).
* An update cannot make a file of one descriptor longer: from 500 to 1500 bytes it writes to
  sector 0 instead of setting the link, and the end of the file is lost (`filing_update`).
* The first boot writes the version it has decremented back to the disk, and from then on the
  kernal refuses the disk it made (`kernal_refused`).

Stated by a theorem of MemoryMapProofs: `KERNAL_MEM` ends at `$FFFE`, and the last byte of the ROM
(`ram.h:15`), half of the IRQ vector, can be written (`TopOfRomIsWritable`); a 24 KB bank holds 12 KB (`NeighboursShare`), the
debugger exchanges the buildings (`DebuggerSeesUnbanked`), and the lock byte is not outside the
banks (`LockByteAddresses`): a program that stores to it opens the lock.

Seen while modelling and kept as exceptions, or in `Code`, of what the models claim:

* FilingSystem: an update cannot make a file shorter by a descriptor. From 1500 to 500 bytes the
  second one stays linked, and `get_file_data` copies it behind the end of a buffer of 1000
  bytes (`util.c:101`, `120-130`), though its comments speak of the right offset in a buffer that
  is rounded up. It is the second case of `misfit`; without it `FilesReadBack` fails.
* Machine: the disk's interrupt can come before the WAI that waits for it, since `do_task` reads
  `when` twice (`shceduler.c:39`) while the entry is filled; the kernal, which asks behind the WAI
  whether the disk has been marked as completed (`kernal.s:573`), then waits for a marked
  disk. It is the value "early" of `last`; without it `RequestReturns` fails.
* FilingSystem: the 63rd file ruins the directory (`add_file.c:50-61`; the comment in line 63
  wonders why: the memory is written to `current_dir_list_sector`, which is 0); renaming a
  file that is not there writes unset memory to sector 0 and frees its buffers twice
  (`main.c:50-66`); an update to a multiple of 1000 bytes links a sector it never writes
  (`util.c:147`, `243-252`), after which deleting the file may never end. An update from 1000
  to 1500 bytes loses the end without writing to sector 0: `4 > 4` is false in line 243.
* SharedMemory: a window closed before the emulation thread has set the running bit for the first
  time (`main.c:33`) also leaves it set; that is an order, not a lost update.
* KernalFS: DIR lists the first directory only, and a boot replaces the link of the second one.
* Cpu: ASL always clears C (`inst_logical.c:7`); ROL of the zero page rotates right
  (`inst_logical.c:79-80`); BBS and BBR that branch move the pointer to PC (`cpu.c:57`, `67`); BIT
  with an absolute operand consumes one byte of it (`cpu.c:80`); TSB and TRB exchange value and
  address; JMP (abs,X) goes to the operand plus X, not to what is stored there; the Z of SBC is that of the uncut difference and
  the V of ADC and SBC is not the overflow; JSR pushes the exact address, and RTS adds nothing,
  which fits; WAI with I set and no NMI never wakes. No device lowers NMI.
* LOAD prints that the disk could not be read, and then copies 1000 bytes over registers and
  the terminal's variables.

## 7. Not modelled

* Of the CPU: values of X, Y and of memory outside of page 1, with them the addressing modes
  except for their length; B, D and cycle counts.
* Of the video: rendering, pixels, sprites, colours, and the freeing of `character_memory` while
  it is being drawn. Sound and clock: output and input of the host only.
* Of the disk: requests of other lengths and to other addresses than the kernal's, that is
  DMA over ROM, registers and banks.
* Of the kernal: LOAD, FG and BG, and `fs_new_dir_init`, `fs_new_file_init` and `fs_save_file`,
  which nothing calls. User programs and their interrupt handlers.
* Of the filing system tool: an image so full that 16-bit sector numbers wrap, names of 13
  characters and more, the listing and the clone (they only read), and what follows once
  sector 0 is ruined.
* Of the debugger: its command line, its screens and its breakpoints, which depend on what is
  drawn. What it does to the lock, `IPS` and memory is in SharedMemory and MemoryMap.
* The assembler is a stub; data files and generators have no behaviour.

## 8. What could come next

* The abstraction of the scheduler in Machine as a refinement of Scheduler, and Machine's terminal
  events as the inputs of Terminal.
* The disk's transfer to any address, as a module that uses MemoryMap.
* An abstract map from names to contents that FilingSystem implements as long as
  `damage = {}`, instead of `stored`.
* Memory and addressing modes in Cpu, for the small programs of the kernal.
