---------------------------- MODULE FilingSystem ----------------------------
(***************************************************************************)
(* The tool that makes disk images (tools/filing_system/src).  An          *)
(* operation of its menu changes the directory in memory (init), writes    *)
(* file descriptors one at a time, and writes the directory to sector 0;   *)
(* every write_to_fs closes the image, so a write is one step and is on    *)
(* the disk when it ends.  The program may be killed between any two of    *)
(* them and is started again on the image it left.                         *)
(*                                                                         *)
(* Sizes count in half descriptors (BLOCK = 2 of them for the 1000 bytes   *)
(* of data of a descriptor), so that a file may fill its last one or not.  *)
(* The contents of a descriptor are which write operation they come from   *)
(* and which part of its file they are.                                    *)
(*                                                                         *)
(* Sectors are 16 bits wide in the code and next_free_sector wraps; Room   *)
(* keeps the image from being full.                                        *)
(***************************************************************************)
EXTENDS Integers, Sequences, FiniteSets

CONSTANTS
  Names,              \* file names
  Sizes,              \* sizes of the host's files
  BLOCK,              \* size of the data in one descriptor
  MAX_FILES_PER_DIR,  \* entries of the directory: 62
  LastSector,         \* bound: the image ends there
  MaxWrites,          \* bound: files added or updated
  Nothing,            \* a sector nobody has written
  NoListing,          \* sector 0, or init, holds no directory
  Unknown             \* history: what an entry holds is not claimed

FileSectors == {s \in 2..LastSector : s % 2 = 0}
Links       == FileSectors \cup {0}
Entries     == 1..MAX_FILES_PER_DIR
Contents    == (1..MaxWrites) \X Nat

Block == [data : Contents \cup {<<0, 0>>}, next_descriptor : Links,
          deleted : BOOLEAN, usable : BOOLEAN,
          size_in_sectors : Nat, bytes_unused_last_kb : Nat]
Entry == [name : Names, sector : FileSectors, deleted : BOOLEAN, usable : BOOLEAN]
Listing == [entries : Seq(Entry), next_free_sector : FileSectors \cup {LastSector + 2}]

ASSUME FilingAssumption ==
  /\ Sizes \subseteq Nat
  /\ BLOCK \in Nat \ {0}
  /\ MAX_FILES_PER_DIR \in Nat \ {0}
  /\ LastSector \in Nat /\ LastSector % 2 = 0
  /\ MaxWrites \in Nat
  /\ Nothing \notin Block /\ NoListing \notin Listing

\* memset(.., 0, COMMON_STRUCT_SIZE)
ZeroBlock == [data |-> <<0, 0>>, next_descriptor |-> 0,
              deleted |-> FALSE, usable |-> FALSE,
              size_in_sectors |-> 0, bytes_unused_last_kb |-> 0]
EmptyListing == [entries |-> <<>>, next_free_sector |-> 2]

VARIABLES
  listing,                 \* the directory on disk (sector 0)
  fs,                      \* the other sectors of the image
  init,                    \* the directory in memory
  current_dir_list,        \* "null", or the address of memory nobody has set
  pc, op,                  \* where the operation is, and which it is
  index, size, k,          \* file_index, file_size, current_byte / 1000
  sector, next_descriptor, \* locals of write_file_data and delete_file
  file_init, file_desc,    \* their two buffers
  issued,                  \* history: files added or updated so far
  stored,                  \* history: what each entry must read back
  misfit,                  \* history: this update has no place for its last blocks,
                           \* or leaves descriptors linked behind them
  damage                   \* history: how the image has come to harm

image  == <<listing, fs>>
locals == <<op, index, size, k, sector, next_descriptor, file_init, file_desc>>
vars   == <<image, init, current_dir_list, pc, locals, issued, stored, misfit, damage>>

TypeOK ==
  /\ listing \in Listing \cup {NoListing} /\ init \in Listing \cup {NoListing}
  /\ fs \in [FileSectors -> Block \cup {Nothing}]
  /\ current_dir_list \in {"null", "unset"}
  /\ pc \in {"menu", "append", "overwrite", "link", "file", "list", "markfile", "mark"}
  /\ op \in {"none", "add", "update", "delete"}
  /\ index \in Nat /\ size \in Nat /\ k \in Nat
  /\ sector \in Links \cup {LastSector + 2} /\ next_descriptor \in Links
  /\ file_init \in Block /\ file_desc \in Block
  /\ issued \in 0..MaxWrites
  /\ stored \in [Entries -> [id : 1..MaxWrites, size : Nat] \cup {Unknown}]
  /\ misfit \in BOOLEAN
  /\ damage \subseteq {"directory", "growth", "hollow"}

Idle == /\ op = "none" /\ index = 0 /\ size = 0 /\ k = 0 /\ sector = 0
        /\ next_descriptor = 0 /\ file_init = ZeroBlock /\ file_desc = ZeroBlock

Init ==
  /\ listing = NoListing /\ init = NoListing
  /\ fs = [s \in FileSectors |-> Nothing]
  /\ current_dir_list = "null"
  /\ pc = "menu" /\ Idle
  /\ issued = 0
  /\ stored = [i \in Entries |-> Unknown]
  /\ misfit = FALSE /\ damage = {}

\* MUTANT of SizeInSectors: the size is not rounded up.
SizeRoundedDown(sz) == (sz \div BLOCK) * 2

\* write_file_data, 147-148; a full last descriptor counts one more than there is.
SizeInSectors(sz) == ((sz + BLOCK) \div BLOCK) * 2
UnusedInLast(sz)  == (SizeInSectors(sz) \div 2) * BLOCK - sz
BlocksOf(sz)      == (sz + BLOCK - 1) \div BLOCK

\* read_from_fs into buffer b: past the end of the image b keeps what it held,
\* and a gap that a later write has jumped over reads as zeros.
Read(s, b) ==
  IF fs[s] # Nothing THEN fs[s]
  ELSE IF \E t \in FileSectors : t > s /\ fs[t] # Nothing THEN ZeroBlock ELSE b

\* find_file; it takes deleted entries like the others.
FoundAt(n, i) ==
  /\ i \in DOMAIN init.entries /\ init.entries[i].name = n
  /\ \A j \in 1..(i - 1) : init.entries[j].name # n
NotFound(n) == \A i \in DOMAIN init.entries : init.entries[i].name # n

AtMenu  == pc = "menu" /\ init # NoListing /\ "directory" \notin damage
Room(b) == init.next_free_sector + 2 * b <= LastSector + 2
Start   == AtMenu /\ issued < MaxWrites /\ issued' = issued + 1

\* Back at the menu the locals are gone.
Finish == /\ pc' = "menu" /\ op' = "none" /\ index' = 0 /\ size' = 0 /\ k' = 0
          /\ sector' = 0 /\ next_descriptor' = 0
          /\ file_init' = ZeroBlock /\ file_desc' = ZeroBlock

-----------------------------------------------------------------------------
\* Option 2: a new directory; the sectors behind it keep what they held.
CreateFS ==
  /\ pc = "menu" /\ init # EmptyListing
  /\ init' = EmptyListing
  /\ listing' = EmptyListing
  /\ stored' = [i \in Entries |-> Unknown]
  /\ damage' = {}
  /\ UNCHANGED <<fs, current_dir_list, pc, locals, issued, misfit>>

\* write_file_data for entry i of a new file, up to its first write.
NewFile(i, list, sz) ==
  /\ op' = "add" /\ index' = i /\ size' = sz /\ k' = 1
  /\ sector' = list.next_free_sector
  /\ file_init' = [ZeroBlock EXCEPT !.data = <<issued', 0>>,
                                    !.next_descriptor = IF sz > BLOCK THEN sector' ELSE 0]
  /\ init' = [list EXCEPT !.next_free_sector = IF sz > BLOCK THEN @ + 2 ELSE @]
  /\ pc' = IF sz > BLOCK THEN "append" ELSE "file"
  /\ misfit' = FALSE
  /\ UNCHANGED <<fs, current_dir_list, next_descriptor, file_desc, stored>>

\* MUTANT of AddFile: the directory is written before the file.
AddListFirst(n, behindPath, sz) ==
  /\ Start /\ Room(1 + BlocksOf(sz))
  /\ behindPath \/ NotFound(n)
  /\ Len(init.entries) < MAX_FILES_PER_DIR
  /\ LET entry == [name |-> n, sector |-> init.next_free_sector,
                   deleted |-> FALSE, usable |-> FALSE]
     IN  NewFile(Len(init.entries) + 1,
                 [entries |-> Append(init.entries, entry),
                  next_free_sector |-> init.next_free_sector + 2], sz)
  /\ listing' = init' /\ UNCHANGED damage

\* add_file looks for the path it was given among names without directories, so
\* a file behind a path (every file of add_dir) is added whether listed or not.
AddFile(n, behindPath, sz) ==
  /\ Start /\ Room(1 + BlocksOf(sz))
  /\ behindPath \/ NotFound(n)
  /\ Len(init.entries) < MAX_FILES_PER_DIR
  /\ LET entry == [name |-> n, sector |-> init.next_free_sector,
                   deleted |-> FALSE, usable |-> FALSE]
     IN  NewFile(Len(init.entries) + 1,
                 [entries |-> Append(init.entries, entry),
                  next_free_sector |-> init.next_free_sector + 2], sz)
  /\ UNCHANGED <<listing, damage>>

\* The directory is full.  With current_dir_list null the program dies here (a
\* Crash).  Otherwise next_free_entry in the memory it points to is any number g:
\* the name goes behind the entries of that memory, the memory to sector 0
\* (current_dir_list_sector), and the file to the sector of entry g of init.
\* What the program does with the ruined list afterwards is not followed.
AddBeyond(g, sz) ==
  /\ Start /\ Room(1 + BlocksOf(sz))
  /\ Len(init.entries) = MAX_FILES_PER_DIR
  /\ current_dir_list = "unset"
  /\ listing' = NoListing
  /\ damage' = damage \cup {"directory"}
  /\ NewFile(g, [init EXCEPT !.next_free_sector = @ + 2], sz)

\* update_file: read the first descriptor, then walk the chain.
UpdateFile(n, sz) ==
  \E i \in Entries :
    /\ Start /\ Room(BlocksOf(sz))
    /\ FoundAt(n, i)
    /\ op' = "update" /\ index' = i /\ size' = sz /\ k' = 1
    /\ sector' = init.next_free_sector
    /\ LET old == Read(init.entries[i].sector, ZeroBlock)
       IN  /\ file_init' = IF sz = 0 THEN old ELSE [old EXCEPT !.data = <<issued', 0>>]
           /\ next_descriptor' = IF sz > BLOCK THEN old.next_descriptor ELSE 0
           /\ misfit' = IF sz > BLOCK THEN old.next_descriptor = 0
                        ELSE sz > 0 /\ old.next_descriptor # 0
           /\ pc' = IF sz <= BLOCK THEN "file"
                    ELSE IF old.next_descriptor # 0 THEN "overwrite"
                    ELSE IF SizeInSectors(sz) > old.size_in_sectors THEN "link"
                    ELSE "file"
    /\ stored' = [stored EXCEPT ![i] = Unknown]
    /\ UNCHANGED <<image, init, current_dir_list, file_desc, damage>>

\* One turn of 209-240: the next descriptor of the chain gets its new contents,
\* or is marked usable when there are none left.
Overwrite ==
  /\ pc = "overwrite"
  /\ LET old  == Read(next_descriptor, file_desc)
         left == k * BLOCK < size
         new  == [old EXCEPT !.data = IF left THEN <<issued, k>> ELSE <<0, 0>>,
                             !.usable = @ \/ ~left]
     IN  /\ fs' = [fs EXCEPT ![next_descriptor] = new]
         /\ file_desc' = new
         /\ k' = IF left THEN k + 1 ELSE k
         /\ init' = IF left THEN init ELSE [init EXCEPT !.entries[index].usable = TRUE]
         /\ next_descriptor' = IF new.next_descriptor # 0 THEN new.next_descriptor
                               ELSE next_descriptor
         /\ pc' = IF new.next_descriptor # 0 THEN "overwrite"
                  ELSE IF SizeInSectors(size) > file_init.size_in_sectors THEN "link"
                  ELSE "file"
         /\ misfit' = (/\ new.next_descriptor = 0
                       /\ ~left \/ (pc' = "file" /\ k' * BLOCK < size))
  /\ UNCHANGED <<listing, current_dir_list, op, index, size, sector, file_init,
                 issued, stored, damage>>

\* MUTANT of Link: the sector linked to is not taken from the free ones.
LinkNoTake ==
  /\ pc = "link" /\ next_descriptor # 0
  /\ file_desc' = [file_desc EXCEPT !.next_descriptor = sector]
  /\ fs' = [fs EXCEPT ![next_descriptor] = file_desc']
  /\ pc' = IF k * BLOCK < size THEN "append" ELSE "file"
  /\ damage' = IF pc' = "file" THEN damage \cup {"hollow"} ELSE damage
  /\ UNCHANGED <<listing, init, current_dir_list, op, index, size, k, sector,
                 next_descriptor, file_init, issued, stored, misfit>>

\* 243-252 and 178: link the last descriptor to the next free sector.  A file of
\* one descriptor has next_descriptor 0: an unset buffer goes to sector 0 and
\* the file gets no link.  With no contents left nothing is written there.
Link ==
  /\ pc = "link"
  /\ IF next_descriptor = 0
     THEN listing' = NoListing /\ UNCHANGED <<fs, file_desc>>
     ELSE /\ file_desc' = [file_desc EXCEPT !.next_descriptor = sector]
          /\ fs' = [fs EXCEPT ![next_descriptor] = file_desc']
          /\ UNCHANGED listing
  /\ init' = [init EXCEPT !.next_free_sector = @ + 2]
  /\ pc' = IF k * BLOCK < size THEN "append" ELSE "file"
  /\ damage' = IF pc' = "file" THEN damage \cup {"hollow"} ELSE damage
  /\ UNCHANGED <<current_dir_list, op, index, size, k, sector, next_descriptor,
                 file_init, issued, stored, misfit>>

\* MUTANT of AppendBlock: no sector is taken for the next descriptor (204-205).
AppendNoTake ==
  /\ pc = "append"
  /\ LET more == size - k * BLOCK > BLOCK
     IN  /\ file_desc' = [ZeroBlock EXCEPT !.data = <<issued, k>>,
                            !.next_descriptor = IF more THEN sector + 2 ELSE 0]
         /\ fs' = [fs EXCEPT ![sector] = file_desc']
         /\ sector' = init.next_free_sector
         /\ k' = k + 1
         /\ pc' = IF more THEN "append" ELSE "file"
  /\ UNCHANGED <<listing, init, current_dir_list, op, index, size, next_descriptor,
                 file_init, issued, stored, misfit, damage>>

\* One turn of 181-206: a new descriptor at the sector taken last.
AppendBlock ==
  /\ pc = "append"
  /\ LET more == size - k * BLOCK > BLOCK
     IN  /\ file_desc' = [ZeroBlock EXCEPT !.data = <<issued, k>>,
                            !.next_descriptor = IF more THEN sector + 2 ELSE 0]
         /\ fs' = [fs EXCEPT ![sector] = file_desc']
         /\ sector' = init.next_free_sector
         /\ init' = [init EXCEPT !.next_free_sector = IF more THEN @ + 2 ELSE @]
         /\ k' = k + 1
         /\ pc' = IF more THEN "append" ELSE "file"
  /\ UNCHANGED <<listing, current_dir_list, op, index, size, next_descriptor,
                 file_init, issued, stored, misfit, damage>>

\* 260-265: the first descriptor, with the sizes.
WriteFile ==
  /\ pc = "file"
  /\ fs' = [fs EXCEPT ![init.entries[index].sector] =
              [file_init EXCEPT !.size_in_sectors = SizeInSectors(size),
                                !.bytes_unused_last_kb = UnusedInLast(size)]]
  /\ pc' = "list"
  /\ UNCHANGED <<listing, init, current_dir_list, locals, issued, stored, misfit, damage>>

\* 266: the directory.
WriteList ==
  /\ pc = "list"
  /\ listing' = init
  /\ stored' = [stored EXCEPT ![index] =
                  IF misfit THEN Unknown ELSE [id |-> issued, size |-> size]]
  /\ misfit' = FALSE
  /\ Finish
  /\ UNCHANGED <<fs, init, current_dir_list, issued, damage>>

\* delete_file: mark the entry, then the descriptors.
DeleteFile(n) ==
  \E i \in Entries :
    /\ AtMenu /\ FoundAt(n, i)
    /\ init' = [init EXCEPT !.entries[i].deleted = TRUE]
    /\ listing' = init'
    /\ pc' = "markfile" /\ op' = "delete" /\ index' = i
    /\ UNCHANGED <<fs, current_dir_list, size, k, sector, next_descriptor,
                   file_init, file_desc, issued, stored, misfit, damage>>

\* The first descriptor.  Its buffer is freed before its link is looked at a second
\* time; the allocator writes over the first bytes only.
MarkFile ==
  /\ pc = "markfile"
  /\ LET s   == init.entries[index].sector
         new == [Read(s, ZeroBlock) EXCEPT !.deleted = TRUE]
     IN  /\ fs' = [fs EXCEPT ![s] = new]
         /\ IF new.next_descriptor = 0
            THEN Finish
            ELSE /\ pc' = "mark" /\ next_descriptor' = new.next_descriptor
                 /\ UNCHANGED <<op, index, size, k, sector, file_init, file_desc>>
  /\ UNCHANGED <<listing, init, current_dir_list, issued, stored, misfit, damage>>

\* MUTANT of MarkNext: the link of the first descriptor is not followed on.
MarkSame ==
  /\ pc = "mark"
  /\ LET new == [Read(next_descriptor, file_desc) EXCEPT !.deleted = TRUE]
     IN  /\ fs' = [fs EXCEPT ![next_descriptor] = new]
         /\ IF new.next_descriptor = 0
            THEN Finish
            ELSE /\ file_desc' = new
                 /\ UNCHANGED <<pc, op, index, size, k, sector, next_descriptor, file_init>>
  /\ UNCHANGED <<listing, init, current_dir_list, issued, stored, misfit, damage>>

\* One turn of the loop over the others.
MarkNext ==
  /\ pc = "mark"
  /\ LET new == [Read(next_descriptor, file_desc) EXCEPT !.deleted = TRUE]
     IN  /\ fs' = [fs EXCEPT ![next_descriptor] = new]
         /\ IF new.next_descriptor = 0
            THEN Finish
            ELSE /\ next_descriptor' = new.next_descriptor /\ file_desc' = new
                 /\ UNCHANGED <<pc, op, index, size, k, sector, file_init>>
  /\ UNCHANGED <<listing, init, current_dir_list, issued, stored, misfit, damage>>

\* Option 4; the new name may be one that is listed.
Rename(n, m) ==
  \E i \in Entries :
    /\ AtMenu /\ FoundAt(n, i)
    /\ init' = [init EXCEPT !.entries[i].name = m]
    /\ listing' = init'
    /\ UNCHANGED <<fs, current_dir_list, pc, locals, issued, stored, misfit, damage>>

\* The program that starts on image list, after this one has ended.
Restart(list) ==
  /\ init' = list
  /\ current_dir_list' = "unset"
  /\ misfit' = FALSE
  /\ Finish

\* Renaming a file that is not there writes the unset memory to sector 0 and then
\* dies of freeing a buffer twice; with current_dir_list null it dies first (Crash).
RenameMissing(n) ==
  /\ AtMenu /\ NotFound(n)
  /\ current_dir_list = "unset"
  /\ listing' = NoListing
  /\ damage' = damage \cup {"directory"}
  /\ Restart(NoListing)
  /\ UNCHANGED <<fs, issued, stored>>

\* An update has linked its file to a sector that the directory on disk counts as free.
Growing == op = "update" /\ listing # NoListing /\ init # listing
           /\ init.next_free_sector # listing.next_free_sector

\* Quit at the menu, or the end of the program anywhere.
Crash ==
  /\ damage' = damage \cup (IF listing = NoListing /\ init # NoListing
                            THEN {"directory"} ELSE {})
                      \cup (IF Growing THEN {"growth"} ELSE {})
  /\ Restart(listing)
  /\ UNCHANGED <<image, issued, stored>>

Step == \/ Overwrite \/ Link \/ AppendBlock \/ WriteFile \/ WriteList
        \/ MarkFile \/ MarkNext

Next ==
  \/ CreateFS
  \/ \E n \in Names, behindPath \in BOOLEAN, sz \in Sizes : AddFile(n, behindPath, sz)
  \/ \E g \in Entries, sz \in Sizes : AddBeyond(g, sz)
  \/ \E n \in Names, sz \in Sizes : UpdateFile(n, sz)
  \/ \E n \in Names : DeleteFile(n) \/ RenameMissing(n)
  \/ \E n, m \in Names : Rename(n, m)
  \/ Step
  \/ Crash

Spec     == Init /\ [][Next]_vars
FairSpec == Spec /\ WF_vars(Step)

-----------------------------------------------------------------------------
(***************************************************************************)
(* Reading.  Copied(s, n) is descriptor n that get_file_data copies of the *)
(* chain that starts in sector s: it goes on until a link is 0, whatever   *)
(* the size of the file is.  Nothing stands behind the last one.           *)
(***************************************************************************)
NextCopy(b) == IF b = Nothing \/ b.next_descriptor = 0 THEN Nothing
               ELSE Read(b.next_descriptor, b)

Copied(s, n) ==
  LET copy[m \in 0..n] == IF m = 0 THEN fs[s] ELSE NextCopy(copy[m - 1]) IN copy[n]

FileSize(b) == (b.size_in_sectors \div 2) * BLOCK - b.bytes_unused_last_kb

\* The copies stay in the buffer, which has room for size_in_sectors / 2 of them.
\* A file of size 0 is not copied.
FitsBuffer(s) ==
  FileSize(fs[s]) # 0 => Copied(s, fs[s].size_in_sectors \div 2) = Nothing

\* The file at sector s has size sz and, part by part, what operation id wrote.
Holds(s, id, sz) ==
  /\ fs[s] # Nothing /\ FileSize(fs[s]) = sz
  /\ \A m \in 0..(BlocksOf(sz) - 1) :
       Copied(s, m) # Nothing /\ Copied(s, m).data = <<id, m>>

\* Every file whose last write operation came to its end reads back, from the
\* directory on disk, the size and contents that operation had, and reading it
\* ends within the buffer made for it: whatever was done to other files since, and
\* wherever the program was killed in between (add_file, write_file_data,
\* delete_file, get_file_data).  Not claimed of a file whose update and whose
\* chain were not of one length (misfit), nor of a harmed image.
FilesReadBack ==
  damage = {} /\ listing # NoListing =>
    \A i \in Entries : stored[i] # Unknown =>
      /\ i \in DOMAIN listing.entries
      /\ LET s == listing.entries[i].sector
         IN  Holds(s, stored[i].id, stored[i].size) /\ FitsBuffer(s)

\* Directory d hands out its sectors soundly, unwritten being those that were
\* handed out and not written yet: every other one holds a descriptor, two
\* descriptors never point to the same next one, and none points to the first of
\* a file or to a sector that is still to be handed out.  So the chains of two
\* files have nothing in common.
Sound(f, d, unwritten) ==
  LET used  == {s \in FileSectors : s < d.next_free_sector}
      heads == {d.entries[i].sector : i \in DOMAIN d.entries}
  IN  /\ heads \subseteq used
      /\ \A i, j \in DOMAIN d.entries : i # j => d.entries[i].sector # d.entries[j].sector
      /\ \A s \in used \ unwritten :
           f[s] \in Block /\ f[s].next_descriptor \in (used \ heads) \cup {0}
      /\ \A s, t \in used \ unwritten :
           s # t /\ f[s].next_descriptor = f[t].next_descriptor => f[s].next_descriptor = 0

\* What the operation has taken and has yet to write.
Unwritten ==
  (IF pc = "append" THEN {sector} ELSE {})
    \cup (IF op = "add" /\ pc \in {"append", "file"}
          THEN {init.entries[index].sector} ELSE {})

\* Adding, updating and deleting files in any order, the program killed anywhere,
\* the directory in memory is sound (add_file.c:47, util.c:163-206 and 243-252).
AllocationIsSound ==
  damage = {} /\ init # NoListing => Sound(fs, init, Unwritten)

\* So is the directory on disk, by which a restart goes: what it counts as free
\* (main.h:29) is in no chain and all it lists is there, except while an update
\* that has linked new descriptors has not written it yet.
DiskIsSound ==
  damage = {} /\ listing # NoListing /\ ~Growing => Sound(fs, listing, {})

\* Every operation comes back to the menu: no chain it walks is a ring.
OperationsEnd == pc # "menu" ~> pc = "menu" \/ damage # {}

\* What the comments of the growing branch say (util.c:242-249, "Point the
\* current descriptors link to the next free sector"): a file whose
\* descriptors are all written has its contents.  It does not hold: misfit.
UpdatesAreWhole ==
  damage = {} /\ pc = "list" => Holds(init.entries[index].sector, issued, size)
==============================================================================
