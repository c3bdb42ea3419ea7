------------------------------ MODULE KernalFS ------------------------------
(***************************************************************************)
(* The file system of the kernal (kernal.s, fs_initialize to fs_next_dir): *)
(* the descriptor every boot adds to disk 1, and the command DIR.          *)
(*                                                                         *)
(* A step is one disk request with the code up to the next one; interrupts *)
(* are masked or irrelevant meanwhile, and Machine shows that a request    *)
(* returns with the code of its own disk.  The emulator may be closed or   *)
(* killed between two requests.  stdio holds a write back until the next   *)
(* request seeks, so a kill loses the last write at most; the object that  *)
(* is the memory outlives a kill and with it the directory buffer.         *)
(*                                                                         *)
(* A slot is the two sectors of a descriptor, slot k the sectors 2k and    *)
(* 2k + 1.  The two bytes of the version are 1 when they say 1.0, which is *)
(* what fs_initialize accepts, and 0 otherwise.  File descriptors have no  *)
(* contents here; the kernal reads one as a directory if a link says so.   *)
(*                                                                         *)
(* LOAD passes a byte of a buffer address for the disk (305-313), takes    *)
(* the failure of fs_find_file for an entry and the sector from the text of*)
(* a message, which is behind any image; it is left out.                   *)
(***************************************************************************)
EXTENDS Integers, Sequences

CONSTANTS
  LastSlot,           \* bound: the images end there
  MAX_FILES_PER_DIR,  \* 62; a directory has one place more, which DIR visits
  Names,              \* file names
  NoEntry, Gone,      \* a place never used, an entry marked deleted
  FileData,           \* the descriptor of a file
  Absent,             \* a slot behind the end of the image file
  Misread,            \* what a file may look like when read as a directory
  Foreign             \* disks of another format are among those put in

ASSUME SizesAssumption ==
  LastSlot \in Nat \ {0} /\ MAX_FILES_PER_DIR \in Nat \ {0}
ASSUME EntriesAssumption == NoEntry \notin Names /\ Gone \notin Names
ASSUME ForeignAssumption == Foreign \in BOOLEAN

Slots   == 0..LastSlot
Places  == 0..MAX_FILES_PER_DIR
Entries == Names \cup {NoEntry, Gone}

Directory == [sfs : BOOLEAN, version : 0..1, free : 0..(LastSlot + 1),
              link : Slots, list : [Places -> Entries]]
Content   == Directory \cup {FileData, Absent}

ASSUME ContentAssumption ==
  /\ FileData \notin Directory /\ Absent \notin Directory /\ FileData # Absent
  /\ Misread \subseteq Directory

\* What memset leaves, and what a gap in a file reads as.
Zeros == [sfs |-> FALSE, version |-> 0, free |-> 0, link |-> 0,
          list |-> [p \in Places |-> NoEntry]]

VARIABLES
  disk,      \* disk 1 as the emulator reads it
  stable,    \* disk 1 without the write stdio still holds
  other,     \* the initial directory of a second disk; nothing writes there
  buffer,    \* FS_CUR_DIR
  place,     \* off, at the prompt, or in front of which request
  sector,    \* the slot in the disk's sector register
  popped,    \* the slot on the stack of fs_new_dir_desc
  refused,   \* fs_initialize has returned a failure
  index,     \* DIR: the entry it looks at (TEMP1)
  shown,     \* DIR: the names it has put on the screen
  source     \* history: the list DIR was asked for

listing == <<index, shown, source>>
vars == <<disk, stable, other, buffer, place, sector, popped, refused, listing>>

Booting    == {"boot", "describe", "count", "chain", "link", "new"}
NoListing  == [p \in Places |-> NoEntry]

TypeOK ==
  /\ disk \in [Slots -> Content] /\ disk[0] \in Directory
  /\ stable \in [Slots -> Content] /\ stable[0] \in Directory
  /\ other \in Directory /\ buffer \in Directory
  /\ place \in {"off", "terminal", "list", "end"} \cup Booting
  /\ sector \in Slots /\ popped \in Slots
  /\ refused \in BOOLEAN
  /\ index \in Places /\ shown \in Seq(Names)
  /\ source \in [Places -> Entries]

\* An image of the filing system tool: used slots behind slot 0 hold files, or a
\* second directory (which the format knows and the tool does not make).
ToolDirectory(free, link, list) ==
  [sfs |-> TRUE, version |-> 1, free |-> free, link |-> link, list |-> list]
ForeignDirectory(free, link) ==
  [sfs |-> FALSE, version |-> 0, free |-> free, link |-> link, list |-> NoListing]
Blank == [s \in Slots |-> IF s = 0 THEN ToolDirectory(1, 0, NoListing) ELSE Absent]
TwoDirectories ==
  {[s \in Slots |-> IF s = 0 THEN ToolDirectory(2, 1, NoListing)
                    ELSE IF s = 1 THEN [Zeros EXCEPT !.list[0] = n] ELSE Absent] : n \in Names}
ForeignDisks ==
  {[s \in Slots |-> IF s = 0 THEN ForeignDirectory(f, l) ELSE FileData] :
     f \in Slots, l \in Slots}

Init ==
  /\ disk \in {Blank} \cup TwoDirectories \cup (IF Foreign THEN ForeignDisks ELSE {})
  /\ stable = disk
  /\ other \in {ToolDirectory(1, l, [NoListing EXCEPT ![0] = e]) : l \in 0..1, e \in Entries}
  /\ buffer = Zeros
  /\ place = "off" /\ sector = 0 /\ popped = 0 /\ refused = FALSE
  /\ index = 0 /\ shown = <<>> /\ source = NoListing

-----------------------------------------------------------------------------
\* disk_operation_buffer.  A read past the end of the image leaves the memory as
\* it was; a write fills the gap before it.
Contents(image, s) ==
  IF image[s] \in Directory THEN {image[s]}
  ELSE IF image[s] = Absent THEN {buffer} ELSE Misread

Written(image, s, d) ==
  [t \in Slots |-> IF t = s THEN d
                   ELSE IF t < s /\ image[t] = Absent THEN Zeros ELSE image[t]]

\* The fseek on the file of disk 1 writes out what stdio still held of it.
Flush == stable' = disk

Read(s)  == buffer' \in Contents(disk, s) /\ Flush /\ UNCHANGED disk
Write(s) == disk' = Written(disk, s, buffer') /\ Flush

\* fs_initialize has d in the buffer: of a directory it accepts, the decrement has
\* left version 0 behind; of the others the increment has undone it.
Accepted(d)    == d.sfs /\ d.version = 1
Initialized(d) == IF Accepted(d) THEN [d EXCEPT !.version = 0] ELSE d

Initialize(d) ==
  /\ buffer' = Initialized(d) /\ refused' = ~Accepted(d)
  /\ sector' = 0
  /\ UNCHANGED disk

-----------------------------------------------------------------------------
\* The kernal is at its first fs_initialize (153-154).
Start ==
  /\ place = "off" /\ disk[0].free <= LastSlot
  /\ place' = "boot"
  /\ UNCHANGED <<disk, stable, other, buffer, sector, popped, refused, listing>>

BootRead ==
  /\ place = "boot" /\ place' = "describe"
  /\ Initialize(disk[0]) /\ Flush
  /\ UNCHANGED <<other, popped, listing>>

\* MUTANT of DescribeRead: the free slot is taken behind the increment.
DescribePopsLate ==
  /\ place = "describe" /\ place' = "count"
  /\ Initialize(disk[0]) /\ Flush
  /\ popped' = disk[0].free + 1
  /\ UNCHANGED <<other, listing>>

\* fs_new_dir_desc: its own fs_initialize, whose result nobody looks at.
DescribeRead ==
  /\ place = "describe" /\ place' = "count"
  /\ Initialize(disk[0]) /\ Flush
  /\ popped' = disk[0].free
  /\ UNCHANGED <<other, listing>>

\* MUTANT of WriteCount: the slot stays among the free ones.
WriteUncounted ==
  /\ place = "count"
  /\ UNCHANGED buffer
  /\ Write(0)
  /\ place' = IF buffer.link = 0 THEN "link" ELSE "chain"
  /\ UNCHANGED <<other, sector, popped, refused, listing>>

\* MUTANT of WriteCount: the count waits for the write of the link.
CountInMemory ==
  /\ place = "count"
  /\ buffer' = [buffer EXCEPT !.free = @ + 1]
  /\ place' = IF buffer.link = 0 THEN "link" ELSE "chain"
  /\ UNCHANGED <<disk, stable, other, sector, popped, refused, listing>>

\* 898-908: the slot is taken and the initial directory written, version included.
WriteCount ==
  /\ place = "count"
  /\ buffer' = [buffer EXCEPT !.free = @ + 1]
  /\ Write(0)
  /\ place' = IF buffer.link = 0 THEN "link" ELSE "chain"
  /\ UNCHANGED <<other, sector, popped, refused, listing>>

\* 909-912: fs_next_dir returns 0 for the directory it has read, so that the loop
\* to the last one ends at the second.
NextDirectory ==
  /\ place = "chain" /\ place' = "link"
  /\ sector' = buffer.link
  /\ Read(buffer.link)
  /\ UNCHANGED <<other, popped, refused, listing>>

\* 913-918.
WriteLink ==
  /\ place = "link" /\ place' = "new"
  /\ buffer' = [buffer EXCEPT !.link = popped]
  /\ Write(sector)
  /\ UNCHANGED <<other, sector, popped, refused, listing>>

\* 919-934: the new descriptor, all zeros.
WriteNew ==
  /\ place = "new" /\ place' = "terminal"
  /\ sector' = popped
  /\ buffer' = Zeros
  /\ Write(popped)
  /\ popped' = 0
  /\ UNCHANGED <<other, refused, listing>>

-----------------------------------------------------------------------------
\* DIR for a directory d; a failed fs_initialize ends it.  Another disk is another
\* file: its fseek does not flush disk 1.
List(d) ==
  /\ place = "terminal"
  /\ Initialize(d)
  /\ place' = IF Accepted(d) THEN "list" ELSE "terminal"
  /\ index' = 0 /\ shown' = <<>> /\ source' = d.list
  /\ UNCHANGED <<other, popped>>

\* A disk that is not there: read_disk fails and the buffer is as it was.
ListNothing ==
  /\ place = "terminal"
  /\ refused' = TRUE
  /\ sector' = 0
  /\ UNCHANGED <<disk, stable, other, buffer, place, popped, listing>>

fs_list_directory ==
  \/ List(disk[0]) /\ Flush
  \/ List(other) /\ UNCHANGED stable
  \/ ListNothing

\* MUTANT of Live: the deleted flag is not looked at.
NotEmpty(e) == e # NoEntry

\* The D and E flags of an entry.
Live(e) == e \in Names

\* The entry at index is shown if it is live.
Show == shown' = IF Live(buffer.list[index]) THEN Append(shown, buffer.list[index]) ELSE shown

NextEntry ==
  /\ place = "list" /\ index < MAX_FILES_PER_DIR
  /\ Show
  /\ index' = index + 1
  /\ UNCHANGED <<disk, stable, other, buffer, place, sector, popped, refused, source>>

\* MUTANT of LastEntry: fs_next_dir says that it has read a directory (what has
\* been shown of the one before is forgotten).
LastEntryGoesOn ==
  /\ place = "list" /\ index = MAX_FILES_PER_DIR
  /\ shown' = <<>>
  /\ IF buffer.link = 0
     THEN place' = "end" /\ UNCHANGED <<disk, stable, buffer, sector, index>>
     ELSE /\ sector' = buffer.link /\ Read(buffer.link)
          /\ index' = 0 /\ UNCHANGED place
  /\ UNCHANGED <<other, popped, refused, source>>

\* Behind the last entry fs_dir_next_entry reads the next directory, of disk 1
\* whatever disk is listed, and fs_next_dir returns 0 all the same.
LastEntry ==
  /\ place = "list" /\ index = MAX_FILES_PER_DIR
  /\ Show
  /\ place' = "end"
  /\ IF buffer.link = 0
     THEN UNCHANGED <<disk, stable, buffer, sector>>
     ELSE sector' = buffer.link /\ Read(buffer.link)
  /\ UNCHANGED <<other, index, popped, refused, source>>

ListEnd ==
  /\ place = "end" /\ place' = "terminal"
  /\ index' = 0 /\ shown' = <<>> /\ source' = NoListing
  /\ UNCHANGED <<disk, stable, other, buffer, sector, popped, refused>>

-----------------------------------------------------------------------------
SwitchedOff ==
  /\ place # "off" /\ place' = "off"
  /\ sector' = 0 /\ popped' = 0 /\ refused' = FALSE
  /\ index' = 0 /\ shown' = <<>> /\ source' = NoListing
  /\ UNCHANGED other

\* The window is closed: the files are closed and the object is removed.
Quit ==
  /\ SwitchedOff
  /\ stable' = disk /\ buffer' = Zeros
  /\ UNCHANGED disk

\* The emulator is killed.
Crash ==
  /\ SwitchedOff
  /\ disk' \in {disk, stable} /\ stable' = disk'
  /\ UNCHANGED buffer

\* The filing system tool, which looks at neither identifier nor version, adds a
\* file of one descriptor to the initial directory, or deletes one.
AddFile ==
  \E n \in Names, p \in Places \ {MAX_FILES_PER_DIR} :
    /\ place = "off" /\ disk[0].sfs /\ disk[0].free <= LastSlot
    /\ disk[0].list[p] = NoEntry /\ \A q \in 0..(p - 1) : disk[0].list[q] # NoEntry
    /\ disk' = [Written(disk, disk[0].free, FileData)
                  EXCEPT ![0] = [disk[0] EXCEPT !.free = @ + 1, !.list[p] = n]]
    /\ stable' = disk'
    /\ UNCHANGED <<other, buffer, place, sector, popped, refused, listing>>

DeleteFile ==
  \E p \in Places :
    /\ place = "off" /\ disk[0].sfs /\ disk[0].list[p] \in Names
    /\ disk' = [disk EXCEPT ![0] = [@ EXCEPT !.list[p] = Gone]]
    /\ stable' = disk'
    /\ UNCHANGED <<other, buffer, place, sector, popped, refused, listing>>

fs_new_dir_desc == DescribeRead \/ WriteCount \/ NextDirectory \/ WriteLink \/ WriteNew
Returning       == BootRead \/ fs_new_dir_desc \/ NextEntry \/ LastEntry \/ ListEnd

Next == Start \/ Returning \/ fs_list_directory \/ Quit \/ Crash \/ AddFile \/ DeleteFile

Spec     == Init /\ [][Next]_vars
FairSpec == Spec /\ WF_vars(Returning)

-----------------------------------------------------------------------------
\* Every slot of a formatted disk that holds something, and every slot a directory
\* links to, lies below the next free one on the disk itself, in both states a
\* kill may leave: nothing that is in use is handed out a second time, although
\* count, link and descriptor are written by three requests.
Counted(image) ==
  image[0].sfs =>
    \A s \in Slots : /\ image[s] # Absent => s < image[0].free
                     /\ image[s] \in Directory => image[s].link < image[0].free

AllocatedIsCounted == Counted(disk) /\ Counted(stable)

\* No boot, no command and no kill changes a file or the initial list of files of a
\* formatted disk, which only the filing system tool fills.
KeepsFiles(old, new) ==
  /\ \A s \in Slots : old[s] = FileData => new[s] = FileData
  /\ new[0].list = old[0].list
FilesKept == [][place # "off" /\ disk[0].sfs => KeepsFiles(disk, disk')]_vars

\* The names are the live entries of a list in front of place n, in their order: at
\* places one behind the other, which leave out none that is live.
Lists(names, list, n) ==
  \E at \in [1..Len(names) -> Places] :
    /\ \A j, k \in 1..Len(names) : j < k => at[j] < at[k]
    /\ {at[j] : j \in 1..Len(names)} = {p \in Places : p < n /\ list[p] \in Names}
    /\ \A j \in 1..Len(names) : names[j] = list[at[j]]

\* A DIR that is not refused shows the live entries of the initial directory it
\* was asked for, in their order: each once, nothing of a disk that a link of the
\* directory leads to, nothing that an earlier command left in the buffer.
ListsWhatIsThere == place = "end" => Lists(shown, source, MAX_FILES_PER_DIR + 1)

\* The boot and every DIR come to the prompt, whatever the links of the disks are.
CommandsReturn == place \notin {"off", "terminal"} ~> place \in {"off", "terminal"}

\* What the kernal's messages say: a disk of its own format and version is not
\* refused.  The first boot writes the version it has decremented, and from then on
\* the disk is.
OwnIsAccepted ==
  [][disk[0].sfs /\ (BootRead \/ DescribeRead \/ List(disk[0])) => ~refused']_vars
=============================================================================
