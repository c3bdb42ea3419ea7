------------------------- MODULE FilingSystemProofs -------------------------
(***************************************************************************)
(* Proofs about FilingSystem, for every set of names and sizes, every size *)
(* of directory, descriptor and image: the types (with them, that no       *)
(* operation leaves the image that Room found big enough), that the        *)
(* directories in memory and on disk stay sound, that files read back, and *)
(* that the chains on disk stay apart and come to an end.                  *)
(***************************************************************************)
EXTENDS FilingSystem, SequenceTheorems, FunctionTheorems, FiniteSetTheorems,
        WellFoundedInduction, TLAPS

Frees == FileSectors \cup {LastSector + 2}

\* Where an operation can be, and that it works on a directory and an entry.
Control ==
  /\ pc = "menu" <=> op = "none"
  /\ pc \in {"overwrite", "link"} => op = "update"
  /\ pc \in {"append", "file", "list"} => op \in {"add", "update"}
  /\ pc \in {"markfile", "mark"} <=> op = "delete"
  /\ pc # "menu" => /\ init # NoListing
                    /\ index \in Entries /\ index \in DOMAIN init.entries
  /\ op \in {"add", "update"} => issued \in 1..MaxWrites
  /\ pc \in {"overwrite", "mark"} => next_descriptor # 0
  /\ init # NoListing => Len(init.entries) <= MAX_FILES_PER_DIR
  /\ listing # NoListing => Len(listing.entries) <= MAX_FILES_PER_DIR

\* What is left of the sectors that Room has seen.
HasRoom ==
  /\ pc \in {"overwrite", "link"} =>
       /\ sector = init.next_free_sector
       /\ k >= 1 /\ size > BLOCK
       /\ init.next_free_sector + 2 * BlocksOf(size) <= LastSector + 2
  /\ pc = "append" =>
       /\ sector + 2 = init.next_free_sector
       /\ k >= 1 /\ k * BLOCK < size
       /\ sector + 2 * (BlocksOf(size) - k) <= LastSector + 2

TInv == TypeOK /\ Control /\ HasRoom

Used(d)  == {s \in FileSectors : s < d.next_free_sector}
Heads(d) == {d.entries[i].sector : i \in DOMAIN d.entries}

\* The link of the first descriptor of a new file, in file_init, is taken like
\* those on disk; what an add writes is behind the directory on disk.
AddInv ==
  op = "add" /\ pc \in {"append", "file"} =>
    /\ file_init.next_descriptor # 0 =>
         /\ file_init.next_descriptor \in Used(init) \ Heads(init)
         /\ \A s \in Used(init) \ Unwritten :
              fs[s].next_descriptor # file_init.next_descriptor
    /\ listing # NoListing =>
         /\ listing.next_free_sector <= init.entries[index].sector
         /\ pc = "append" => listing.next_free_sector <= sector

\* An update changes no link but the last one of its chain.
UpdateInv ==
  op = "update" =>
    /\ pc \in {"overwrite", "link", "append", "file"} =>
         fs[init.entries[index].sector].next_descriptor = file_init.next_descriptor
    /\ pc = "overwrite" => next_descriptor \in Used(init) \ Heads(init)
    /\ pc = "link" /\ next_descriptor # 0 =>
         /\ next_descriptor \in Used(init) \ Heads(init)
         /\ fs[next_descriptor] = file_desc /\ file_desc.next_descriptor = 0
    /\ pc \in {"overwrite", "link"} /\ listing # NoListing =>
         listing.next_free_sector = init.next_free_sector
    /\ pc = "append" /\ listing # NoListing =>
         listing.next_free_sector < init.next_free_sector

\* Sectors the operation is about to write are the ones it may.
OwnInv ==
  /\ pc = "mark" => next_descriptor \in Used(init) \ Heads(init)
  /\ pc = "append" => sector \notin Heads(init)

\* Between operations, and while one deletes, disk and memory agree.
AgreeInv == init # NoListing /\ op \in {"none", "delete"} => listing = init

SInv ==
  damage = {} =>
    /\ init # NoListing => Sound(fs, init, Unwritten)
    /\ listing # NoListing /\ ~Growing => Sound(fs, listing, {})
    /\ AddInv /\ UpdateInv /\ OwnInv /\ AgreeInv

------------------------------------------------------------------------------
(***************************************************************************)
(* Arithmetic of sizes and sectors.                                        *)
(***************************************************************************)
\* Quotient and remainder.
LEMMA DivMod ==
  ASSUME NEW x \in Nat, NEW b \in Nat \ {0}
  PROVE  /\ x \div b \in Nat
         /\ (x \div b) * b <= x /\ x < (x \div b) * b + b
  OBVIOUS

\* A quotient is at least what fits.
LEMMA DivFits ==
  ASSUME NEW x \in Nat, NEW b \in Nat \ {0}, NEW n \in Nat, n * b <= x
  PROVE  n <= x \div b
<1> DEFINE q == x \div b
<1>1. q \in Nat /\ x < q * b + b
  BY DivMod
<1>2. SUFFICES ASSUME q + 1 <= n PROVE FALSE
  BY <1>1
<1>3. (q + 1) * b <= n * b
  <2>1. PICK m \in Nat : n = q + 1 + m
    BY <1>1, <1>2
  <2>2. n * b = (q + 1) * b + m * b /\ m * b >= 0
    BY <1>1, <2>1
  <2>3. QED
    BY <1>1, <2>2
<1>4. (q + 1) * b = q * b + b
  BY <1>1
<1>5. QED
  BY <1>1, <1>3, <1>4

\* The sizes write_file_data computes are numbers; the last descriptor is never
\* said to lack more than it holds.
LEMMA SizesTyped ==
  ASSUME NEW sz \in Nat
  PROVE  /\ BlocksOf(sz) \in Nat
         /\ SizeInSectors(sz) \in Nat
         /\ UnusedInLast(sz) \in Nat
<1> DEFINE q == (sz + BLOCK) \div BLOCK
<1>1. BLOCK \in Nat \ {0}
  BY FilingAssumption
<1>2. q \in Nat /\ sz + BLOCK < q * BLOCK + BLOCK
  BY <1>1, DivMod
<1>3. q * BLOCK \in Nat /\ q * BLOCK >= sz
  BY <1>1, <1>2
<1>4. (q * 2) \div 2 = q
  BY <1>2
<1>5. BlocksOf(sz) \in Nat
  BY <1>1, DivMod DEF BlocksOf
<1>6. QED
  BY <1>2, <1>3, <1>4, <1>5 DEF SizeInSectors, UnusedInLast

\* While there is more than descriptor j + 1 holds, there are j + 2 descriptors.
LEMMA MoreBlocks ==
  ASSUME NEW sz \in Nat, NEW j \in Nat, j * BLOCK < sz
  PROVE  /\ j + 1 <= BlocksOf(sz)
         /\ sz - j * BLOCK > BLOCK => j + 2 <= BlocksOf(sz)
<1>1. BLOCK \in Nat \ {0}
  BY FilingAssumption
<1>2. (j + 1) * BLOCK = j * BLOCK + BLOCK /\ (j + 2) * BLOCK = j * BLOCK + BLOCK + BLOCK
  BY <1>1
<1>3. j * BLOCK \in Nat /\ (j + 1) * BLOCK <= sz + BLOCK - 1
  BY <1>1, <1>2
<1>4. sz + BLOCK - 1 \in Nat
  BY <1>1
<1>5. j + 1 <= BlocksOf(sz)
  BY <1>1, <1>3, <1>4, DivFits DEF BlocksOf
<1>6. ASSUME sz - j * BLOCK > BLOCK PROVE j + 2 <= BlocksOf(sz)
  <2>1. (j + 2) * BLOCK <= sz + BLOCK - 1
    BY <1>1, <1>2, <1>3, <1>6
  <2>2. QED
    BY <1>1, <1>4, <2>1, DivFits DEF BlocksOf
<1>7. QED
  BY <1>5, <1>6

\* What fits in j descriptors takes no more.
LEMMA NoMoreBlocks ==
  ASSUME NEW sz \in Nat, NEW j \in Nat, j * BLOCK >= sz
  PROVE  BlocksOf(sz) <= j
<1> DEFINE q == BlocksOf(sz)
<1>1. BLOCK \in Nat \ {0} /\ sz + BLOCK - 1 \in Nat
  BY FilingAssumption
<1>2. q \in Nat /\ q * BLOCK <= sz + BLOCK - 1
  BY <1>1, DivMod DEF BlocksOf
<1> HIDE DEF q
<1>3. SUFFICES ASSUME j + 1 <= q PROVE FALSE
  BY <1>2 DEF q
<1>4. PICK m \in Nat : q = j + 1 + m
  BY <1>2, <1>3
<1>5. q * BLOCK = j * BLOCK + BLOCK + m * BLOCK /\ m * BLOCK >= 0
  BY <1>1, <1>4
<1>6. j * BLOCK \in Nat /\ m * BLOCK \in Nat /\ q * BLOCK \in Nat
  BY <1>1, <1>2
<1>7. QED
  BY <1>1, <1>2, <1>5, <1>6

\* What is more than one descriptor holds takes two.
LEMMA TwoBlocks ==
  ASSUME NEW sz \in Nat, sz > BLOCK
  PROVE  2 <= BlocksOf(sz)
<1>1. 1 \in Nat /\ 1 * BLOCK < sz
  BY FilingAssumption
<1>2. 1 + 1 <= BlocksOf(sz)
  BY <1>1, MoreBlocks
<1>3. QED
  BY <1>2

\* The next free sector, when there is room for one more.
LEMMA NextFree ==
  ASSUME NEW f \in Frees, f + 2 <= LastSector + 2
  PROVE  f \in FileSectors /\ f + 2 \in Frees
  BY FilingAssumption DEF Frees, FileSectors

\* Sectors of files are numbers from 2 on.
LEMMA SectorsAreNumbers ==
  /\ FileSectors \subseteq Nat /\ 0 \notin FileSectors /\ Frees \subseteq Nat
  /\ \A s \in FileSectors : s <= LastSector
  BY FilingAssumption DEF FileSectors, Frees

\* So are the free ones; the image's end bounds them.
LEMMA FreesBounded ==
  ASSUME NEW f \in Frees
  PROVE  f \in Nat /\ f <= LastSector + 2
  BY FilingAssumption DEF FileSectors, Frees

\* memset's descriptor and the new directory are of their types.
LEMMA ZerosTyped ==
  /\ ZeroBlock \in Block
  /\ EmptyListing \in Listing /\ EmptyListing # NoListing
  /\ Len(EmptyListing.entries) = 0
<1>1. <<>> \in Seq(Entry) /\ Len(<<>>) = 0
  BY EmptySeq
<1>2. 2 \in FileSectors \cup {LastSector + 2}
  BY FilingAssumption DEF FileSectors
<1>3. EmptyListing \in Listing
  BY <1>1, <1>2 DEF EmptyListing, Listing
<1>4. ZeroBlock \in Block
  BY DEF ZeroBlock, Block, Links
<1>5. QED
  BY <1>1, <1>3, <1>4, FilingAssumption DEF EmptyListing

\* What is read from a sector is a descriptor, if the buffer held one.
LEMMA ReadTyped ==
  ASSUME TypeOK, NEW s \in FileSectors, NEW b \in Block
  PROVE  Read(s, b) \in Block
  BY ZerosTyped DEF Read, TypeOK

\* Changing one entry of a directory keeps its type, its length and the others.
LEMMA EntrySet ==
  ASSUME NEW d \in Listing, NEW i \in DOMAIN d.entries, NEW e \in Entry
  PROVE  LET c == [d EXCEPT !.entries[i] = e]
         IN  /\ c \in Listing /\ DOMAIN c.entries = DOMAIN d.entries
             /\ Len(c.entries) = Len(d.entries)
             /\ c.next_free_sector = d.next_free_sector
             /\ c.entries[i] = e
             /\ \A j \in DOMAIN d.entries \ {i} : c.entries[j] = d.entries[j]
<1> DEFINE q == [d.entries EXCEPT ![i] = e]
           c == [d EXCEPT !.entries = q]
<1>1. d.entries \in Seq(Entry)
  BY DEF Listing
<1>2. Len(d.entries) \in Nat /\ DOMAIN d.entries = 1..Len(d.entries)
  BY <1>1, LenProperties
<1>3. /\ q \in Seq(Entry) /\ Len(q) = Len(d.entries)
      /\ \A j \in 1..Len(d.entries) : q[j] = IF j = i THEN e ELSE d.entries[j]
  BY <1>1, <1>2, ExceptSeq
<1>4. DOMAIN q = DOMAIN d.entries
  BY <1>2, <1>3, LenProperties
<1>5. c \in Listing /\ c.entries = q /\ c.next_free_sector = d.next_free_sector
  BY <1>3 DEF Listing
<1>6. QED
  BY <1>2, <1>3, <1>4, <1>5

\* Entries of a directory.
LEMMA EntryTyped ==
  ASSUME NEW d \in Listing, NEW i \in DOMAIN d.entries
  PROVE  d.entries[i] \in Entry /\ d.entries[i].sector \in FileSectors
<1>1. d.entries \in Seq(Entry)
  BY DEF Listing
<1>2. i \in 1..Len(d.entries)
  BY <1>1, LenProperties
<1>3. d.entries[i] \in Entry
  BY <1>1, <1>2, ElementOfSeq
<1>4. QED
  BY <1>3 DEF Entry

\* So does changing an entry in anything but its sector.
LEMMA EntryKept ==
  ASSUME NEW d \in Listing, NEW i \in DOMAIN d.entries, NEW e \in Entry,
         e.sector = d.entries[i].sector
  PROVE  LET c == [d EXCEPT !.entries[i] = e]
         IN  /\ c \in Listing /\ c # NoListing
             /\ DOMAIN c.entries = DOMAIN d.entries /\ Len(c.entries) = Len(d.entries)
             /\ c.next_free_sector = d.next_free_sector
             /\ \A j \in DOMAIN d.entries : c.entries[j].sector = d.entries[j].sector
  BY EntrySet, FilingAssumption

\* The three ways in which the program does it.
LEMMA MarkSet ==
  ASSUME NEW d \in Listing, NEW i \in DOMAIN d.entries, NEW m \in Names, NEW c,
         \/ c = [d EXCEPT !.entries[i].usable = TRUE]
         \/ c = [d EXCEPT !.entries[i].deleted = TRUE]
         \/ c = [d EXCEPT !.entries[i].name = m]
  PROVE  /\ c \in Listing /\ c # NoListing
         /\ DOMAIN c.entries = DOMAIN d.entries /\ Len(c.entries) = Len(d.entries)
         /\ c.next_free_sector = d.next_free_sector
         /\ \A j \in DOMAIN d.entries : c.entries[j].sector = d.entries[j].sector
<1>1. d.entries[i] \in Entry
  BY EntryTyped
<1>2. CASE c = [d EXCEPT !.entries[i].usable = TRUE]
  <2> DEFINE e == [d.entries[i] EXCEPT !.usable = TRUE]
  <2>1. e \in Entry /\ e.sector = d.entries[i].sector
    BY <1>1 DEF Entry
  <2>2. c = [d EXCEPT !.entries[i] = e]
    BY <1>2
  <2> HIDE DEF e
  <2>3. QED
    BY <2>1, <2>2, EntryKept
<1>3. CASE c = [d EXCEPT !.entries[i].deleted = TRUE]
  <2> DEFINE e == [d.entries[i] EXCEPT !.deleted = TRUE]
  <2>1. e \in Entry /\ e.sector = d.entries[i].sector
    BY <1>1 DEF Entry
  <2>2. c = [d EXCEPT !.entries[i] = e]
    BY <1>3
  <2> HIDE DEF e
  <2>3. QED
    BY <2>1, <2>2, EntryKept
<1>4. CASE c = [d EXCEPT !.entries[i].name = m]
  <2> DEFINE e == [d.entries[i] EXCEPT !.name = m]
  <2>1. e \in Entry /\ e.sector = d.entries[i].sector
    BY <1>1 DEF Entry
  <2>2. c = [d EXCEPT !.entries[i] = e]
    BY <1>4
  <2> HIDE DEF e
  <2>3. QED
    BY <2>1, <2>2, EntryKept
<1>5. QED
  BY <1>2, <1>3, <1>4

------------------------------------------------------------------------------
(***************************************************************************)
(* Types.                                                                  *)
(***************************************************************************)
\* The initial states.
LEMMA TInit == ASSUME Init PROVE TInv
<1>1. 0 \in 0..MaxWrites /\ 0 \in Links
  BY FilingAssumption DEF Links
<1>2. fs \in [FileSectors -> Block \cup {Nothing}]
  BY DEF Init
<1>3. stored \in [Entries -> [id : 1..MaxWrites, size : Nat] \cup {Unknown}]
  BY DEF Init
<1>4. TypeOK
  BY <1>1, <1>2, <1>3, ZerosTyped DEF Init, Idle, TypeOK
<1>5. Control /\ HasRoom
  BY DEF Init, Idle, Control, HasRoom
<1>6. QED
  BY <1>4, <1>5 DEF TInv

\* A step that changes nothing.
LEMMA TStutter == ASSUME TInv, UNCHANGED vars PROVE TInv'
  BY DEF TInv, TypeOK, Control, HasRoom, vars, image, locals

\* The end of an operation leaves typed locals.
LEMMA FinishTyped ==
  ASSUME Finish
  PROVE  /\ pc' = "menu" /\ op' = "none"
         /\ index' \in Nat /\ size' \in Nat /\ k' \in Nat
         /\ sector' \in Links /\ next_descriptor' \in Links
         /\ file_init' \in Block /\ file_desc' \in Block
  BY ZerosTyped DEF Finish, Links

\* A new image.
LEMMA TCreateFS == ASSUME TInv, CreateFS PROVE TInv'
<1> USE DEF TInv
<1>1. TypeOK'
  BY ZerosTyped DEF TypeOK, CreateFS, locals
<1>2. pc = "menu" /\ pc' = "menu" /\ op' = op
  BY DEF CreateFS, locals
<1>3. Control' /\ HasRoom'
  BY <1>2, ZerosTyped, FilingAssumption DEF CreateFS, Control, HasRoom
<1>4. QED
  BY <1>1, <1>3

\* The beginning of a new file for entry i of the directory it is added to.
LEMMA TNewFile ==
  ASSUME TInv, NEW i \in Entries, NEW list \in Listing, NEW sz \in Sizes,
         Start, NewFile(i, list, sz),
         i \in DOMAIN list.entries, Len(list.entries) <= MAX_FILES_PER_DIR,
         list.next_free_sector + 2 * BlocksOf(sz) <= LastSector + 2,
         listing' \in {listing, NoListing},
         damage' \subseteq damage \cup {"directory"}
  PROVE  TInv'
<1> USE DEF TInv
<1>1. sz \in Nat /\ BlocksOf(sz) \in Nat
  BY SizesTyped, FilingAssumption
<1>2. list.next_free_sector \in Frees /\ list.next_free_sector \in Nat
  BY SectorsAreNumbers DEF Listing, Frees
<1>3. issued \in Nat /\ issued' \in 1..MaxWrites
  BY FilingAssumption DEF Start, TypeOK
<1>4. i \in Nat
  BY DEF Entries
<1>5. /\ fs' = fs /\ current_dir_list' = current_dir_list /\ file_desc' = file_desc
      /\ next_descriptor' = next_descriptor /\ stored' = stored
      /\ misfit' \in BOOLEAN
  BY DEF NewFile
<1>6. /\ issued' \in 0..MaxWrites
      /\ listing' \in Listing \cup {NoListing}
      /\ damage' \subseteq {"directory", "growth", "hollow"}
  BY <1>3 DEF TypeOK
<1>7. CASE sz > BLOCK
  <2>1. 2 <= BlocksOf(sz)
    BY <1>1, <1>7, TwoBlocks
  <2>2. list.next_free_sector + 2 <= LastSector + 2
    BY <1>1, <1>2, <2>1, FilingAssumption
  <2>3. list.next_free_sector \in FileSectors /\ list.next_free_sector + 2 \in Frees
    BY <1>2, <2>2, NextFree
  <2>4. /\ init' \in Listing /\ init'.entries = list.entries
        /\ init'.next_free_sector = list.next_free_sector + 2
    BY <1>7, <2>3 DEF NewFile, Listing, Frees
  <2>5. file_init' \in Block
    BY <1>3, <1>7, <2>3 DEF NewFile, ZeroBlock, Block, Links, Contents
  <2>6. /\ sector' \in Links \cup {LastSector + 2} /\ size' \in Nat /\ k' \in Nat
        /\ index' \in Nat /\ pc' = "append" /\ op' = "add"
    BY <1>1, <1>4, <1>7, <2>3 DEF NewFile, Links
  <2>7. TypeOK'
    BY <1>5, <1>6, <2>4, <2>5, <2>6 DEF TypeOK
  <2>8. pc' = "append" /\ op' = "add" /\ index' = i
    BY <1>7 DEF NewFile
  <2>9. init' # NoListing
    BY <2>4, FilingAssumption
  <2>10. Control'
    BY <1>3, <2>4, <2>8, <2>9 DEF Control
  <2>11. sector' = list.next_free_sector /\ k' = 1 /\ size' = sz
    BY DEF NewFile
  <2>12. 1 * BLOCK < sz /\ sector' + 2 * (BlocksOf(sz) - 1) <= LastSector + 2
    BY <1>1, <1>2, <1>7, <2>11, FilingAssumption
  <2>13. HasRoom'
    BY <2>4, <2>8, <2>11, <2>12 DEF HasRoom
  <2>14. QED
    BY <2>7, <2>10, <2>13
<1>8. CASE ~(sz > BLOCK)
  <2>1. init' = list
    BY <1>8 DEF NewFile, Listing
  <2>2. file_init' \in Block
    BY <1>3, <1>8 DEF NewFile, ZeroBlock, Block, Links, Contents
  <2>3. /\ sector' \in Links \cup {LastSector + 2} /\ size' \in Nat /\ k' \in Nat
        /\ index' \in Nat /\ pc' = "file" /\ op' = "add"
    BY <1>1, <1>2, <1>4, <1>8 DEF NewFile, Links, Frees
  <2>4. TypeOK'
    BY <1>5, <1>6, <2>1, <2>2, <2>3 DEF TypeOK
  <2>5. pc' = "file" /\ op' = "add" /\ index' = i
    BY <1>8 DEF NewFile
  <2>6. Control' /\ HasRoom'
    BY <1>3, <2>1, <2>5, FilingAssumption DEF Control, HasRoom
  <2>7. QED
    BY <2>4, <2>6
<1>9. QED
  BY <1>7, <1>8

\* The directory a new entry is added to.
LEMMA EntryAdded ==
  ASSUME NEW d \in Listing, NEW e \in Entry, NEW f \in Frees
  PROVE  LET c == [entries |-> Append(d.entries, e), next_free_sector |-> f]
         IN  /\ c \in Listing /\ c.next_free_sector = f
             /\ Len(d.entries) \in Nat /\ DOMAIN d.entries = 1..Len(d.entries)
             /\ Len(c.entries) = Len(d.entries) + 1
             /\ DOMAIN c.entries = 1..(Len(d.entries) + 1)
             /\ c.entries[Len(d.entries) + 1] = e
             /\ \A j \in DOMAIN d.entries : c.entries[j] = d.entries[j]
<1> DEFINE q == Append(d.entries, e)
           c == [entries |-> q, next_free_sector |-> f]
<1>1. d.entries \in Seq(Entry)
  BY DEF Listing
<1>2. Len(d.entries) \in Nat /\ DOMAIN d.entries = 1..Len(d.entries)
  BY <1>1, LenProperties
<1>3. /\ q \in Seq(Entry) /\ Len(q) = Len(d.entries) + 1
      /\ \A j \in 1..Len(d.entries) : q[j] = d.entries[j]
      /\ q[Len(d.entries) + 1] = e
  BY <1>1, <1>2, AppendProperties
<1>4. DOMAIN q = 1..(Len(d.entries) + 1)
  BY <1>3, LenProperties
<1>5. c \in Listing /\ c.entries = q /\ c.next_free_sector = f
  BY <1>3 DEF Listing, Frees
<1>6. QED
  BY <1>2, <1>3, <1>4, <1>5

\* What is known of the entry that add_file makes.
LEMMA AddFileList ==
  ASSUME TInv, NEW n \in Names, NEW sz \in Sizes, AtMenu, Room(1 + BlocksOf(sz)),
         Len(init.entries) < MAX_FILES_PER_DIR
  PROVE  LET e == [name |-> n, sector |-> init.next_free_sector,
                   deleted |-> FALSE, usable |-> FALSE]
             c == [entries |-> Append(init.entries, e),
                   next_free_sector |-> init.next_free_sector + 2]
         IN  /\ init \in Listing /\ c \in Listing /\ e \in Entry
             /\ init.next_free_sector \in FileSectors
             /\ c.next_free_sector = init.next_free_sector + 2
             /\ Len(init.entries) \in Nat /\ Len(init.entries) + 1 \in Entries
             /\ Len(c.entries) = Len(init.entries) + 1
             /\ DOMAIN init.entries = 1..Len(init.entries)
             /\ DOMAIN c.entries = 1..(Len(init.entries) + 1)
             /\ c.entries[Len(init.entries) + 1] = e
             /\ \A j \in DOMAIN init.entries : c.entries[j] = init.entries[j]
             /\ c.next_free_sector + 2 * BlocksOf(sz) <= LastSector + 2
<1> DEFINE e == [name |-> n, sector |-> init.next_free_sector,
                 deleted |-> FALSE, usable |-> FALSE]
<1>1. init \in Listing
  BY DEF TInv, TypeOK, AtMenu
<1>2. sz \in Nat /\ BlocksOf(sz) \in Nat
  BY SizesTyped, FilingAssumption
<1>3. init.next_free_sector \in Frees /\ init.next_free_sector \in Nat
  BY <1>1, SectorsAreNumbers DEF Listing, Frees
<1>4. init.next_free_sector + 2 * (1 + BlocksOf(sz)) <= LastSector + 2
  BY DEF Room
<1>5. init.next_free_sector + 2 <= LastSector + 2
  BY <1>2, <1>3, <1>4, FilingAssumption
<1>6. init.next_free_sector \in FileSectors /\ init.next_free_sector + 2 \in Frees
  BY <1>3, <1>5, NextFree
<1>7. e \in Entry
  BY <1>6 DEF Entry
<1>8. Len(init.entries) \in Nat
  BY <1>1, LenProperties DEF Listing
<1>9. Len(init.entries) + 1 \in Entries
  BY <1>8, FilingAssumption DEF Entries
<1>10. init.next_free_sector + 2 + 2 * BlocksOf(sz) <= LastSector + 2
  BY <1>2, <1>3, <1>4, FilingAssumption
<1>11. QED
  BY <1>1, <1>6, <1>7, <1>8, <1>9, <1>10, EntryAdded

\* A new file's entry, its sector and the sector of its second descriptor.
LEMMA TAddFile ==
  ASSUME TInv, NEW n \in Names, NEW b \in BOOLEAN, NEW sz \in Sizes, AddFile(n, b, sz)
  PROVE  TInv'
<1> DEFINE e == [name |-> n, sector |-> init.next_free_sector,
                 deleted |-> FALSE, usable |-> FALSE]
           c == [entries |-> Append(init.entries, e),
                 next_free_sector |-> init.next_free_sector + 2]
           i == Len(init.entries) + 1
<1>1. AtMenu /\ Start /\ Room(1 + BlocksOf(sz)) /\ Len(init.entries) < MAX_FILES_PER_DIR
  BY DEF AddFile, Start
<1>2. NewFile(i, c, sz)
  BY DEF AddFile
<1>3. /\ c \in Listing /\ i \in Entries /\ i \in DOMAIN c.entries
      /\ Len(c.entries) <= MAX_FILES_PER_DIR
      /\ c.next_free_sector + 2 * BlocksOf(sz) <= LastSector + 2
  BY SMTT(30), <1>1, AddFileList, FilingAssumption
<1>4. listing' \in {listing, NoListing} /\ damage' \subseteq damage \cup {"directory"}
  BY DEF AddFile
<1> HIDE DEF c, i
<1>5. QED
  BY <1>1, <1>2, <1>3, <1>4, TNewFile

\* AddBeyond keeps types, control and room: the file goes to a known entry's sector.
LEMMA TAddBeyond ==
  ASSUME TInv, NEW g \in Entries, NEW sz \in Sizes, AddBeyond(g, sz)
  PROVE  TInv'
<1> DEFINE c == [init EXCEPT !.next_free_sector = @ + 2]
<1>1. AtMenu /\ Start /\ Room(1 + BlocksOf(sz)) /\ Len(init.entries) = MAX_FILES_PER_DIR
  BY DEF AddBeyond, Start
<1>2. init \in Listing
  BY <1>1 DEF TInv, TypeOK, AtMenu
<1>3. sz \in Nat /\ BlocksOf(sz) \in Nat
  BY SizesTyped, FilingAssumption
<1>4. init.next_free_sector \in Frees /\ init.next_free_sector \in Nat
  BY <1>2, SectorsAreNumbers DEF Listing, Frees
<1>5. init.next_free_sector + 2 * (1 + BlocksOf(sz)) <= LastSector + 2
  BY <1>1 DEF Room
<1>6. init.next_free_sector + 2 <= LastSector + 2
  BY <1>3, <1>4, <1>5, FilingAssumption
<1>7. init.next_free_sector + 2 \in Frees
  BY <1>4, <1>6, NextFree
<1>8. c \in Listing /\ c.entries = init.entries /\ c.next_free_sector = init.next_free_sector + 2
  BY <1>2, <1>7 DEF Listing, Frees
<1>9. c.next_free_sector + 2 * BlocksOf(sz) <= LastSector + 2
  BY <1>3, <1>4, <1>5, <1>8, FilingAssumption
<1>10. g \in DOMAIN c.entries
  BY <1>1, <1>2, <1>8, LenProperties DEF Listing, Entries
<1>11. NewFile(g, c, sz) /\ listing' \in {listing, NoListing}
       /\ damage' \subseteq damage \cup {"directory"}
  BY DEF AddBeyond
<1> HIDE DEF c
<1>12. QED
  BY <1>1, <1>8, <1>9, <1>10, <1>11, TNewFile

\* So does the beginning of an update: its descriptor is read from a file's sector.
LEMMA TUpdateFile ==
  ASSUME TInv, NEW n \in Names, NEW sz \in Sizes, UpdateFile(n, sz)
  PROVE  TInv'
<1>1. PICK i \in Entries :
        /\ Start /\ Room(BlocksOf(sz))
        /\ FoundAt(n, i)
        /\ op' = "update" /\ index' = i /\ size' = sz /\ k' = 1
        /\ sector' = init.next_free_sector
        /\ LET old == Read(init.entries[i].sector, ZeroBlock)
           IN  /\ file_init' = IF sz = 0 THEN old ELSE [old EXCEPT !.data = <<issued', 0>>]
               /\ next_descriptor' = IF sz > BLOCK THEN old.next_descriptor ELSE 0
               /\ misfit' = IF sz > BLOCK THEN old.next_descriptor = 0
                            ELSE sz > 0 /\ old.next_descriptor # 0
               /\ pc' = IF sz <= BLOCK THEN "file"
                        ELSE IF old.next_descriptor # 0 THEN "overwrite"
                        ELSE IF SizeInSectors(sz) > old.size_in_sectors THEN "link"
                        ELSE "file"
        /\ stored' = [stored EXCEPT ![i] = Unknown]
        /\ UNCHANGED <<image, init, current_dir_list, file_desc, damage>>
  BY DEF UpdateFile
<1> DEFINE old == Read(init.entries[i].sector, ZeroBlock)
<1>2. TypeOK /\ Control /\ AtMenu /\ init \in Listing /\ init # NoListing
  BY <1>1 DEF TInv, TypeOK, Start, AtMenu
<1>3. i \in DOMAIN init.entries /\ i \in Nat
  BY <1>1 DEF FoundAt, Entries
<1>4. old \in Block
  BY <1>2, <1>3, EntryTyped, ReadTyped, ZerosTyped
<1>5. sz \in Nat /\ BlocksOf(sz) \in Nat
  BY SizesTyped, FilingAssumption
<1>6. issued' \in 1..MaxWrites /\ issued' \in 0..MaxWrites
  BY <1>1, <1>2, FilingAssumption DEF Start, TypeOK
<1>7. file_init' \in Block
  BY <1>1, <1>4, <1>6 DEF Block, Contents
<1>8. next_descriptor' \in Links
  BY <1>1, <1>4 DEF Block, Links
<1>9. init.next_free_sector \in Frees /\ init.next_free_sector \in Nat
  BY <1>2, SectorsAreNumbers DEF Listing, Frees
<1>10. pc' \in {"file", "overwrite", "link"} /\ misfit' \in BOOLEAN
  BY <1>1
<1>11. stored' \in [Entries -> [id : 1..MaxWrites, size : Nat] \cup {Unknown}]
  BY <1>1, <1>2 DEF TypeOK
<1>12. sector' \in Links \cup {LastSector + 2}
  BY <1>1, <1>9 DEF Frees, Links
<1>13. fs' = fs /\ listing' = listing /\ init' = init
       /\ current_dir_list' = current_dir_list /\ file_desc' = file_desc /\ damage' = damage
       /\ op' = "update" /\ index' = i /\ size' = sz /\ k' = 1
  BY <1>1 DEF image
<1>14. TypeOK'
  BY <1>2, <1>3, <1>5, <1>6, <1>7, <1>8, <1>10, <1>11, <1>12, <1>13 DEF TypeOK
<1>15. pc' = "overwrite" => next_descriptor' # 0
  BY <1>1, <1>5, FilingAssumption
<1>16. Control'
  BY <1>2, <1>3, <1>6, <1>10, <1>13, <1>15 DEF Control
<1>17. pc' \in {"overwrite", "link"} => sz > BLOCK
  BY <1>1, <1>5, FilingAssumption
<1>18. sector' = init.next_free_sector /\ init.next_free_sector + 2 * BlocksOf(sz) <= LastSector + 2
  BY <1>1 DEF Room
<1>19. HasRoom'
  BY <1>10, <1>13, <1>17, <1>18 DEF HasRoom
<1>20. QED
  BY <1>14, <1>16, <1>19 DEF TInv

\* A turn of the loop over the old chain takes no sector.
LEMMA TOverwrite == ASSUME TInv, Overwrite PROVE TInv'
<1> DEFINE old  == Read(next_descriptor, file_desc)
           left == k * BLOCK < size
           new  == [old EXCEPT !.data = IF left THEN <<issued, k>> ELSE <<0, 0>>,
                               !.usable = @ \/ ~left]
<1>1. /\ TypeOK /\ Control /\ HasRoom /\ pc = "overwrite" /\ op = "update"
      /\ init \in Listing /\ init # NoListing
      /\ index \in DOMAIN init.entries /\ issued \in 1..MaxWrites
  BY DEF TInv, TypeOK, Control, Overwrite
<1>2. next_descriptor \in FileSectors
  BY <1>1 DEF TypeOK, Control, Links
<1>3. old \in Block
  BY <1>1, <1>2, ReadTyped DEF TypeOK
<1>4. k \in Nat /\ <<issued, k>> \in Contents
  BY <1>1 DEF TypeOK, Contents
<1>5. old.usable \in BOOLEAN /\ left \in BOOLEAN
  BY <1>3 DEF Block
<1>6. (old.usable \/ ~left) \in BOOLEAN
  OBVIOUS
<1> HIDE DEF old, left
<1>7. new \in Block /\ new.next_descriptor = old.next_descriptor
  BY <1>3, <1>4, <1>6 DEF Block
<1> USE DEF left
<1>8. /\ fs' = [fs EXCEPT ![next_descriptor] = new] /\ file_desc' = new
      /\ k' = IF left THEN k + 1 ELSE k
      /\ init' = IF left THEN init ELSE [init EXCEPT !.entries[index].usable = TRUE]
      /\ next_descriptor' = IF new.next_descriptor # 0 THEN new.next_descriptor
                            ELSE next_descriptor
      /\ pc' \in {"overwrite", "link", "file"}
      /\ pc' = "overwrite" => new.next_descriptor # 0
      /\ misfit' \in BOOLEAN
      /\ listing' = listing /\ current_dir_list' = current_dir_list /\ op' = op
      /\ index' = index /\ size' = size /\ sector' = sector /\ file_init' = file_init
      /\ issued' = issued /\ stored' = stored /\ damage' = damage
  BY DEF Overwrite, old
<1>9. /\ init' \in Listing /\ init' # NoListing /\ DOMAIN init'.entries = DOMAIN init.entries
      /\ Len(init'.entries) = Len(init.entries)
      /\ init'.next_free_sector = init.next_free_sector
  <2>1. CASE left
    BY <1>1, <1>8, <2>1
  <2>2. CASE ~left
    <3>1. init.entries[index].name \in Names
      BY <1>1, EntryTyped DEF Entry
    <3>2. init' = [init EXCEPT !.entries[index].usable = TRUE]
      BY <1>8, <2>2
    <3>3. QED
      BY ZenonT(60), <1>1, <3>1, <3>2, MarkSet
  <2>3. QED
    BY <2>1, <2>2
<1>10. fs' \in [FileSectors -> Block \cup {Nothing}]
  BY <1>1, <1>7, <1>8 DEF TypeOK
<1>11. k' \in Nat /\ next_descriptor' \in Links
  BY <1>1, <1>4, <1>7, <1>8, <1>2, <1>3 DEF Block, Links
<1> HIDE DEF new, left
<1>12. TypeOK'
  BY <1>1, <1>7, <1>8, <1>9, <1>10, <1>11 DEF TypeOK
<1>13. pc' = "overwrite" => next_descriptor' # 0
  BY <1>8
<1>14. Control'
  BY <1>1, <1>8, <1>9, <1>13 DEF Control
<1>15. k >= 1 => k' >= 1
  BY <1>4, <1>8
<1>16. HasRoom'
  BY <1>1, <1>8, <1>9, <1>15 DEF HasRoom
<1>17. QED
  BY <1>12, <1>14, <1>16 DEF TInv

\* Linking takes a sector that Room has seen.
LEMMA TLink == ASSUME TInv, Link PROVE TInv'
<1>1. /\ TypeOK /\ Control /\ HasRoom /\ pc = "link" /\ op = "update"
      /\ init \in Listing /\ init # NoListing
      /\ size > BLOCK /\ size \in Nat /\ k \in Nat /\ k >= 1
      /\ sector = init.next_free_sector
      /\ init.next_free_sector + 2 * BlocksOf(size) <= LastSector + 2
  BY DEF TInv, TypeOK, Control, HasRoom, Link
<1>2. BlocksOf(size) \in Nat /\ 2 <= BlocksOf(size)
  BY <1>1, SizesTyped, TwoBlocks
<1>3. sector \in Frees /\ sector \in Nat
  BY <1>1, SectorsAreNumbers DEF Listing, Frees
<1>4. sector + 2 <= LastSector + 2
  BY <1>1, <1>2, <1>3, FilingAssumption
<1>5. sector \in FileSectors /\ sector + 2 \in Frees
  BY <1>3, <1>4, NextFree
<1>6. /\ init' = [init EXCEPT !.next_free_sector = @ + 2]
      /\ pc' = IF k * BLOCK < size THEN "append" ELSE "file"
      /\ current_dir_list' = current_dir_list /\ op' = op /\ index' = index /\ size' = size
      /\ k' = k /\ sector' = sector /\ next_descriptor' = next_descriptor
      /\ file_init' = file_init /\ issued' = issued /\ stored' = stored /\ misfit' = misfit
      /\ damage' \subseteq damage \cup {"hollow"}
  BY DEF Link
<1>7. /\ init' \in Listing /\ init' # NoListing /\ init'.entries = init.entries
      /\ init'.next_free_sector = sector + 2
  BY <1>1, <1>5, <1>6, FilingAssumption DEF Listing, Frees
<1>8. /\ fs' \in [FileSectors -> Block \cup {Nothing}] /\ file_desc' \in Block
      /\ listing' \in {listing, NoListing}
  <2>1. CASE next_descriptor = 0
    BY <1>1, <2>1 DEF Link, TypeOK
  <2>2. CASE next_descriptor # 0
    <3>1. file_desc' = [file_desc EXCEPT !.next_descriptor = sector]
      BY <2>2 DEF Link
    <3>2. file_desc' \in Block
      BY <1>1, <1>5, <3>1 DEF TypeOK, Block, Links
    <3>3. fs' = [fs EXCEPT ![next_descriptor] = file_desc'] /\ listing' = listing
      BY <2>2 DEF Link
    <3>4. QED
      BY <1>1, <3>2, <3>3 DEF TypeOK
  <2>3. QED
    BY <2>1, <2>2
<1>9. TypeOK'
  BY <1>1, <1>6, <1>7, <1>8 DEF TypeOK
<1>10. Control'
  BY <1>1, <1>6, <1>7, <1>8 DEF Control
<1>11. sector + 2 * (BlocksOf(size) - k) <= LastSector + 2
  BY <1>1, <1>2, <1>3, FilingAssumption
<1>12. HasRoom'
  BY <1>1, <1>6, <1>7, <1>11 DEF HasRoom
<1>13. QED
  BY <1>9, <1>10, <1>12 DEF TInv

\* So does every further descriptor: there are BlocksOf(size) - k of them yet.
LEMMA TAppendBlock == ASSUME TInv, AppendBlock PROVE TInv'
<1> DEFINE more == size - k * BLOCK > BLOCK
<1>1. /\ TypeOK /\ Control /\ HasRoom /\ pc = "append" /\ op \in {"add", "update"}
      /\ init \in Listing /\ init # NoListing
      /\ size \in Nat /\ k \in Nat /\ k >= 1 /\ k * BLOCK < size /\ issued \in 1..MaxWrites
      /\ sector + 2 = init.next_free_sector
      /\ sector + 2 * (BlocksOf(size) - k) <= LastSector + 2
  BY DEF TInv, TypeOK, Control, HasRoom, AppendBlock
<1>2. /\ BlocksOf(size) \in Nat /\ k + 1 <= BlocksOf(size)
      /\ more => k + 2 <= BlocksOf(size)
  BY <1>1, SizesTyped, MoreBlocks
<1>3. sector \in Nat /\ sector + 2 \in Frees
  BY <1>1, SectorsAreNumbers, FilingAssumption DEF Listing, Frees, TypeOK, Links
<1>4. more => sector + 2 \in FileSectors /\ sector + 4 \in Frees
  <2>1. SUFFICES ASSUME more PROVE sector + 2 \in FileSectors /\ sector + 4 \in Frees
    OBVIOUS
  <2>2. sector + 2 + 2 <= LastSector + 2
    BY <1>1, <1>2, <1>3, <2>1, FilingAssumption
  <2>3. sector + 2 \in FileSectors /\ sector + 2 + 2 \in Frees
    BY <1>3, <2>2, NextFree
  <2>4. QED
    BY <1>3, <2>3
<1>5. /\ file_desc' = [ZeroBlock EXCEPT !.data = <<issued, k>>,
                          !.next_descriptor = IF more THEN sector + 2 ELSE 0]
      /\ fs' = [fs EXCEPT ![sector] = file_desc']
      /\ sector' = init.next_free_sector
      /\ init' = [init EXCEPT !.next_free_sector = IF more THEN @ + 2 ELSE @]
      /\ k' = k + 1
      /\ pc' = IF more THEN "append" ELSE "file"
      /\ listing' = listing /\ current_dir_list' = current_dir_list /\ op' = op
      /\ index' = index /\ size' = size /\ next_descriptor' = next_descriptor
      /\ file_init' = file_init /\ issued' = issued /\ stored' = stored
      /\ misfit' = misfit /\ damage' = damage
  BY DEF AppendBlock
<1>6. <<issued, k>> \in Contents
  BY <1>1 DEF Contents
<1>7. file_desc' \in Block
  BY <1>4, <1>5, <1>6 DEF ZeroBlock, Block, Links
<1>8. fs' \in [FileSectors -> Block \cup {Nothing}]
  BY <1>1, <1>5, <1>7 DEF TypeOK
<1>9. /\ init' \in Listing /\ init' # NoListing /\ init'.entries = init.entries
      /\ init'.next_free_sector = IF more THEN sector + 4 ELSE sector + 2
  <2> DEFINE f == IF more THEN sector + 4 ELSE sector + 2
  <2>1. f \in Frees /\ f = IF more THEN init.next_free_sector + 2 ELSE init.next_free_sector
    BY <1>1, <1>3, <1>4
  <2>2. init' = [init EXCEPT !.next_free_sector = f]
    BY <1>5, <2>1
  <2> HIDE DEF f
  <2>3. init' \in Listing /\ init'.entries = init.entries /\ init'.next_free_sector = f
    BY <1>1, <2>1, <2>2 DEF Listing, Frees
  <2>4. QED
    BY <2>3, FilingAssumption DEF f
<1>10. sector' = sector + 2 /\ sector' \in Links \cup {LastSector + 2}
  BY <1>1, <1>3, <1>5 DEF Frees, Links
<1> HIDE DEF more
<1>11. TypeOK'
  BY <1>1, <1>5, <1>7, <1>8, <1>9, <1>10 DEF TypeOK
<1>12. Control'
  BY <1>1, <1>5, <1>9 DEF Control
<1>13. ASSUME more
       PROVE  /\ sector' + 2 = sector + 4 /\ k + 1 >= 1 /\ (k + 1) * BLOCK < size
              /\ sector' + 2 * (BlocksOf(size) - (k + 1)) <= LastSector + 2
  <2>1. (k + 1) * BLOCK = k * BLOCK + BLOCK /\ k * BLOCK \in Nat
    BY <1>1, FilingAssumption
  <2>2. (k + 1) * BLOCK < size
    BY <1>1, <1>13, <2>1, FilingAssumption DEF more
  <2>3. QED
    BY <1>1, <1>2, <1>3, <1>10, <2>2, FilingAssumption
<1>14. HasRoom'
  BY <1>5, <1>9, <1>13 DEF HasRoom
<1>15. QED
  BY <1>11, <1>12, <1>14 DEF TInv

\* The sizes that the first descriptor gets are numbers.
LEMMA TWriteFile == ASSUME TInv, WriteFile PROVE TInv'
<1>1. /\ TypeOK /\ Control /\ HasRoom /\ pc = "file" /\ op \in {"add", "update"}
      /\ size \in Nat /\ file_init \in Block
  BY DEF TInv, TypeOK, Control, WriteFile
<1>2. SizeInSectors(size) \in Nat /\ UnusedInLast(size) \in Nat
  BY <1>1, SizesTyped
<1>3. [file_init EXCEPT !.size_in_sectors = SizeInSectors(size),
                        !.bytes_unused_last_kb = UnusedInLast(size)] \in Block
  BY <1>1, <1>2 DEF Block
<1>4. fs' \in [FileSectors -> Block \cup {Nothing}]
  BY <1>1, <1>3 DEF TypeOK, WriteFile
<1>5. pc' = "list" /\ UNCHANGED <<listing, init, current_dir_list, locals, issued, stored, misfit, damage>>
  BY DEF WriteFile
<1>6. TypeOK'
  BY <1>1, <1>4, <1>5 DEF TypeOK, locals
<1>7. Control' /\ HasRoom'
  BY <1>1, <1>5 DEF Control, HasRoom, locals
<1>8. QED
  BY <1>6, <1>7 DEF TInv

\* The operation ends with the directory's write.
LEMMA TWriteList == ASSUME TInv, WriteList PROVE TInv'
<1>1. /\ TypeOK /\ Control /\ HasRoom /\ pc = "list" /\ op \in {"add", "update"}
      /\ index \in Entries /\ init # NoListing /\ issued \in 1..MaxWrites /\ size \in Nat
  BY DEF TInv, TypeOK, Control, WriteList
<1>2. stored' \in [Entries -> [id : 1..MaxWrites, size : Nat] \cup {Unknown}]
  BY <1>1 DEF TypeOK, WriteList
<1>3. listing' = init /\ misfit' = FALSE /\ Finish
      /\ UNCHANGED <<fs, init, current_dir_list, issued, damage>>
  BY DEF WriteList
<1>4. TypeOK'
  BY <1>1, <1>2, <1>3, FinishTyped DEF TypeOK
<1>5. Control' /\ HasRoom'
  BY <1>1, <1>3, FinishTyped DEF Control, HasRoom
<1>6. QED
  BY <1>4, <1>5 DEF TInv

\* Deleting marks an entry of the directory.
LEMMA TDeleteFile ==
  ASSUME TInv, NEW n \in Names, DeleteFile(n)
  PROVE  TInv'
<1>1. PICK i \in Entries :
        /\ AtMenu /\ FoundAt(n, i)
        /\ init' = [init EXCEPT !.entries[i].deleted = TRUE]
        /\ listing' = init'
        /\ pc' = "markfile" /\ op' = "delete" /\ index' = i
        /\ UNCHANGED <<fs, current_dir_list, size, k, sector, next_descriptor,
                       file_init, file_desc, issued, stored, misfit, damage>>
  BY DEF DeleteFile
<1>2. /\ TypeOK /\ Control /\ init \in Listing /\ init # NoListing
      /\ i \in DOMAIN init.entries /\ i \in Nat
  BY <1>1 DEF TInv, TypeOK, AtMenu, FoundAt, Entries
<1>3. /\ init' \in Listing /\ init' # NoListing
      /\ DOMAIN init'.entries = DOMAIN init.entries /\ Len(init'.entries) = Len(init.entries)
  BY <1>1, <1>2, MarkSet
<1>4. TypeOK'
  BY <1>1, <1>2, <1>3 DEF TypeOK
<1>5. Control' /\ HasRoom'
  BY <1>1, <1>2, <1>3 DEF Control, HasRoom
<1>6. QED
  BY <1>4, <1>5 DEF TInv

\* Renaming changes an entry's name.
LEMMA TRename ==
  ASSUME TInv, NEW n \in Names, NEW m \in Names, Rename(n, m)
  PROVE  TInv'
<1>1. PICK i \in Entries :
        /\ AtMenu /\ FoundAt(n, i)
        /\ init' = [init EXCEPT !.entries[i].name = m]
        /\ listing' = init'
        /\ UNCHANGED <<fs, current_dir_list, pc, locals, issued, stored, misfit, damage>>
  BY DEF Rename
<1>2. /\ TypeOK /\ Control /\ init \in Listing /\ init # NoListing /\ pc = "menu"
      /\ i \in DOMAIN init.entries /\ init' = [init EXCEPT !.entries[i].name = m]
  BY <1>1 DEF TInv, TypeOK, AtMenu, FoundAt
<1>3. init' \in Listing /\ init' # NoListing /\ Len(init'.entries) = Len(init.entries)
  BY SMTT(30), <1>2, MarkSet
<1>4. TypeOK'
  BY <1>1, <1>2, <1>3 DEF TypeOK, locals
<1>5. Control' /\ HasRoom'
  BY <1>1, <1>2, <1>3 DEF Control, HasRoom, locals
<1>6. QED
  BY <1>4, <1>5 DEF TInv

\* Marking goes through sectors of the image.
LEMMA TMark == ASSUME TInv, MarkFile \/ MarkNext PROVE TInv'
<1> DEFINE s == IF pc = "markfile" THEN init.entries[index].sector ELSE next_descriptor
           b == IF pc = "markfile" THEN ZeroBlock ELSE file_desc
           new == [Read(s, b) EXCEPT !.deleted = TRUE]
<1>1. /\ TypeOK /\ Control /\ pc \in {"markfile", "mark"} /\ op = "delete"
      /\ init \in Listing /\ init # NoListing /\ index \in DOMAIN init.entries
  BY DEF TInv, TypeOK, Control, MarkFile, MarkNext
<1>2. s \in FileSectors /\ b \in Block
  BY <1>1, EntryTyped, ZerosTyped DEF TypeOK, Control, Links
<1>3. Read(s, b) \in Block
  BY <1>1, <1>2, ReadTyped
<1> HIDE DEF s, b
<1>4. new \in Block
  BY <1>3 DEF Block
<1>5. /\ fs' = [fs EXCEPT ![s] = new]
      /\ UNCHANGED <<listing, init, current_dir_list, issued, stored, misfit, damage>>
      /\ IF new.next_descriptor = 0 THEN Finish
         ELSE /\ pc' = "mark" /\ next_descriptor' = new.next_descriptor
              /\ file_desc' \in {file_desc, new}
              /\ UNCHANGED <<op, index, size, k, sector, file_init>>
  BY DEF MarkFile, MarkNext, s, b
<1>6. fs' \in [FileSectors -> Block \cup {Nothing}]
  BY <1>1, <1>4, <1>5 DEF TypeOK
<1>7. new.next_descriptor \in Links
  BY <1>4 DEF Block
<1> HIDE DEF new
<1>8. CASE new.next_descriptor = 0
  <2>1. TypeOK'
    BY <1>1, <1>5, <1>6, <1>8, FinishTyped DEF TypeOK
  <2>2. Control' /\ HasRoom'
    BY <1>1, <1>5, <1>8, FinishTyped DEF Control, HasRoom
  <2>3. QED
    BY <2>1, <2>2 DEF TInv
<1>9. CASE new.next_descriptor # 0
  <2>1. TypeOK'
    BY <1>1, <1>4, <1>5, <1>6, <1>7, <1>9 DEF TypeOK
  <2>2. Control' /\ HasRoom'
    BY <1>1, <1>5, <1>9 DEF Control, HasRoom
  <2>3. QED
    BY <2>1, <2>2 DEF TInv
<1>10. QED
  BY <1>8, <1>9

\* A restart takes the directory from the image.
LEMMA TRestart ==
  ASSUME TInv, NEW list \in {listing, NoListing}, Restart(list),
         listing' \in {listing, NoListing}, damage' \subseteq {"directory", "growth", "hollow"},
         UNCHANGED <<fs, issued, stored>>
  PROVE  TInv'
<1>1. /\ init' = list /\ current_dir_list' = "unset" /\ misfit' = FALSE /\ Finish
  BY DEF Restart
<1>2. TypeOK'
  BY <1>1, FinishTyped DEF TInv, TypeOK
<1>3. Control' /\ HasRoom'
  BY <1>1, FinishTyped DEF TInv, Control, HasRoom
<1>4. QED
  BY <1>2, <1>3 DEF TInv

\* The failed rename ends in a restart.
LEMMA TRenameMissing ==
  ASSUME TInv, NEW n \in Names, RenameMissing(n)
  PROVE  TInv'
<1>1. damage' \subseteq {"directory", "growth", "hollow"}
  BY DEF TInv, TypeOK, RenameMissing
<1>2. QED
  BY <1>1, TRestart DEF RenameMissing

\* So does the end of the program.
LEMMA TCrash == ASSUME TInv, Crash PROVE TInv'
<1>1. damage' \subseteq {"directory", "growth", "hollow"}
  BY DEF TInv, TypeOK, Crash
<1>2. QED
  BY <1>1, TRestart DEF Crash, image

\* Types, control and room are kept by every step.
LEMMA TNext == ASSUME TInv, [Next]_vars PROVE TInv'
  BY TStutter, TCreateFS, TAddFile, TAddBeyond, TUpdateFile, TOverwrite, TLink,
     TAppendBlock, TWriteFile, TWriteList, TDeleteFile, TRename, TMark,
     TRenameMissing, TCrash DEF Next, Step

\* Every variable keeps its type: sectors that are written lie in the image, and
\* numbers the image stores are not negative.
THEOREM TypeCorrect == Spec => []TypeOK
<1>1. Init => TInv
  BY TInit
<1>2. TInv /\ [Next]_vars => TInv'
  BY TNext
<1>3. TInv => TypeOK
  BY DEF TInv
<1>4. QED
  BY <1>1, <1>2, <1>3, PTL DEF Spec

------------------------------------------------------------------------------
(***************************************************************************)
(* How writes and allocations keep a directory sound.                      *)
(***************************************************************************)
Images == [FileSectors -> Block \cup {Nothing}]

\* Entries lie in used sectors and differ; links of written sectors lie in used
\* sectors that are no entry's, and differ.
HeadsFit(d) ==
  /\ Heads(d) \subseteq Used(d)
  /\ \A i, j \in DOMAIN d.entries : i # j => d.entries[i].sector # d.entries[j].sector
LinksFit(f, d, u) ==
  \A s \in Used(d) \ u :
    f[s] \in Block /\ f[s].next_descriptor \in (Used(d) \ Heads(d)) \cup {0}
LinksDiffer(f, d, u) ==
  \A s, t \in Used(d) \ u :
    s # t /\ f[s].next_descriptor = f[t].next_descriptor => f[s].next_descriptor = 0

\* These are the parts of Sound.
LEMMA SoundParts ==
  ASSUME NEW f, NEW d, NEW u
  PROVE  Sound(f, d, u) <=> HeadsFit(d) /\ LinksFit(f, d, u) /\ LinksDiffer(f, d, u)
  BY DEF Sound, HeadsFit, LinksFit, LinksDiffer, Used, Heads

\* It does not depend on names and attributes.
LEMMA SameShape ==
  ASSUME NEW f, NEW c, NEW d, NEW u, Sound(f, d, u),
         DOMAIN c.entries = DOMAIN d.entries, c.next_free_sector = d.next_free_sector,
         \A j \in DOMAIN d.entries : c.entries[j].sector = d.entries[j].sector
  PROVE  Sound(f, c, u) /\ Used(c) = Used(d) /\ Heads(c) = Heads(d)
<1>1. Used(c) = Used(d)
  BY DEF Used
<1>2. Heads(c) = Heads(d)
  BY DEF Heads
<1>3. QED
  BY <1>1, <1>2, SoundParts DEF HeadsFit, LinksFit, LinksDiffer

\* Nor on what is written without a change of the link, or outside its sectors.
LEMMA WriteSame ==
  ASSUME NEW f \in Images, NEW d, NEW u, Sound(f, d, u),
         NEW s, NEW b \in Block,
         s \in Used(d) \ u => b.next_descriptor = f[s].next_descriptor
  PROVE  Sound([f EXCEPT ![s] = b], d, u)
<1> DEFINE g == [f EXCEPT ![s] = b]
<1>1. HeadsFit(d) /\ LinksFit(f, d, u) /\ LinksDiffer(f, d, u)
  BY SoundParts
<1>2. \A t \in Used(d) \ u : g[t] \in Block /\ g[t].next_descriptor = f[t].next_descriptor
  BY <1>1 DEF Images, LinksFit, Used
<1> HIDE DEF g
<1>3. LinksFit(g, d, u) /\ LinksDiffer(g, d, u)
  BY <1>1, <1>2 DEF LinksFit, LinksDiffer
<1>4. Sound(g, d, u)
  BY <1>1, <1>3, SoundParts
<1>5. QED
  BY <1>4 DEF g

\* A descriptor written to a sector that was taken, with a link of its own.
LEMMA WriteNew ==
  ASSUME NEW f \in Images, NEW d, NEW u, Sound(f, d, u),
         NEW n \in FileSectors, NEW b \in Block,
         b.next_descriptor # 0 =>
           /\ b.next_descriptor \in Used(d) \ Heads(d)
           /\ \A s \in Used(d) \ u : s # n => f[s].next_descriptor # b.next_descriptor
  PROVE  Sound([f EXCEPT ![n] = b], d, u \ {n})
<1> DEFINE g == [f EXCEPT ![n] = b]
<1>1. HeadsFit(d) /\ LinksFit(f, d, u) /\ LinksDiffer(f, d, u)
  BY SoundParts
<1>2. g[n] = b /\ \A t \in Used(d) : t # n => g[t] = f[t]
  BY DEF Images, Used
<1> HIDE DEF g
<1>3. LinksFit(g, d, u \ {n})
  BY <1>1, <1>2 DEF LinksFit
<1>4. LinksDiffer(g, d, u \ {n})
  <2>1. SUFFICES ASSUME NEW s \in Used(d) \ (u \ {n}), NEW t \in Used(d) \ (u \ {n}), s # t,
                        g[s].next_descriptor = g[t].next_descriptor
                 PROVE  g[s].next_descriptor = 0
    BY DEF LinksDiffer
  <2>2. CASE s = n
    BY <1>2, <2>1, <2>2
  <2>3. CASE t = n
    BY <1>2, <2>1, <2>3
  <2>4. CASE s # n /\ t # n
    BY <1>1, <1>2, <2>1, <2>4 DEF LinksDiffer
  <2>5. QED
    BY <2>2, <2>3, <2>4
<1>5. Sound(g, d, u \ {n})
  BY <1>1, <1>3, <1>4, SoundParts
<1>6. QED
  BY <1>5 DEF g

\* Sectors below the one after n are those below n, and n.
LEMMA UsedGrows ==
  ASSUME NEW c, NEW d, d.next_free_sector \in FileSectors,
         c.next_free_sector = d.next_free_sector + 2
  PROVE  /\ Used(c) = Used(d) \cup {d.next_free_sector}
         /\ d.next_free_sector \notin Used(d)
  BY FilingAssumption DEF Used, FileSectors

\* The next free sector is taken for the directory's first n entries.
LEMMA Take ==
  ASSUME NEW f, NEW c, NEW d, NEW u, Sound(f, d, u),
         d.next_free_sector \in FileSectors,
         c.next_free_sector = d.next_free_sector + 2, c.entries = d.entries
  PROVE  /\ Sound(f, c, u \cup {d.next_free_sector})
         /\ d.next_free_sector \in Used(c) \ Heads(c)
         /\ \A s \in Used(c) \ (u \cup {d.next_free_sector}) :
              f[s].next_descriptor # d.next_free_sector
<1>1. HeadsFit(d) /\ LinksFit(f, d, u) /\ LinksDiffer(f, d, u)
  BY SoundParts
<1>2. Used(c) = Used(d) \cup {d.next_free_sector} /\ d.next_free_sector \notin Used(d)
  BY UsedGrows
<1>3. Heads(c) = Heads(d)
  BY DEF Heads
<1>4. 0 \notin FileSectors
  BY SectorsAreNumbers
<1>5. HeadsFit(c)
  BY <1>1, <1>2, <1>3 DEF HeadsFit
<1>6. LinksFit(f, c, u \cup {d.next_free_sector})
  BY <1>1, <1>2, <1>3 DEF LinksFit
<1>7. LinksDiffer(f, c, u \cup {d.next_free_sector})
  BY <1>1, <1>2 DEF LinksDiffer
<1>8. d.next_free_sector \in Used(c) \ Heads(c)
  BY <1>1, <1>2, <1>3 DEF HeadsFit
<1>9. \A s \in Used(c) \ (u \cup {d.next_free_sector}) :
        f[s].next_descriptor # d.next_free_sector
  BY <1>1, <1>2, <1>4 DEF LinksFit
<1>10. QED
  BY <1>5, <1>6, <1>7, <1>8, <1>9, SoundParts

\* The next free sector is taken for a new entry.
LEMMA TakeEntry ==
  ASSUME NEW f, NEW c, NEW d, NEW u, Sound(f, d, u), NEW i,
         d.next_free_sector \in FileSectors,
         c.next_free_sector = d.next_free_sector + 2,
         i \notin DOMAIN d.entries, DOMAIN c.entries = DOMAIN d.entries \cup {i},
         c.entries[i].sector = d.next_free_sector,
         \A j \in DOMAIN d.entries : c.entries[j] = d.entries[j]
  PROVE  Sound(f, c, u \cup {d.next_free_sector})
<1>1. HeadsFit(d) /\ LinksFit(f, d, u) /\ LinksDiffer(f, d, u)
  BY SoundParts
<1>2. Used(c) = Used(d) \cup {d.next_free_sector} /\ d.next_free_sector \notin Used(d)
  BY UsedGrows
<1>3. Heads(c) = Heads(d) \cup {d.next_free_sector}
  BY DEF Heads
<1>4. 0 \notin FileSectors
  BY SectorsAreNumbers
<1>5. \A j \in DOMAIN d.entries : d.entries[j].sector # d.next_free_sector
  BY <1>1, <1>2 DEF HeadsFit, Heads
<1>6. HeadsFit(c)
  BY <1>1, <1>2, <1>3, <1>5 DEF HeadsFit
<1>7. LinksFit(f, c, u \cup {d.next_free_sector})
  BY <1>1, <1>2, <1>3, <1>4 DEF LinksFit
<1>8. LinksDiffer(f, c, u \cup {d.next_free_sector})
  BY <1>1, <1>2 DEF LinksDiffer
<1>9. QED
  BY <1>6, <1>7, <1>8, SoundParts

------------------------------------------------------------------------------
(***************************************************************************)
(* The directories stay sound.                                             *)
(***************************************************************************)
\* Nothing is claimed of a blank image.
LEMMA SInit == ASSUME Init PROVE SInv
  BY DEF Init, Idle, SInv, AddInv, UpdateInv, OwnInv, AgreeInv

\* Nor does a stutter change what is claimed.
LEMMA SStutter == ASSUME SInv, UNCHANGED vars PROVE SInv'
  BY DEF SInv, AddInv, UpdateInv, OwnInv, AgreeInv, Unwritten, Growing, Used, Heads,
         Sound, vars, image, locals

\* What an operation begins with.
LEMMA AtRest ==
  ASSUME TInv, SInv, AtMenu, damage = {}
  PROVE  /\ pc = "menu" /\ op = "none" /\ init \in Listing /\ init # NoListing
         /\ fs \in Images /\ Unwritten = {} /\ Sound(fs, init, {}) /\ listing = init
<1>1. pc = "menu" /\ op = "none" /\ init # NoListing /\ init \in Listing /\ fs \in Images
  BY DEF AtMenu, TInv, Control, TypeOK, Images
<1>2. Unwritten = {}
  BY <1>1 DEF Unwritten
<1>3. QED
  BY <1>1, <1>2 DEF SInv, AgreeInv

\* A state between operations, in which disk and memory agree.
LEMMA RestIsSound ==
  ASSUME pc' = "menu", op' = "none",
         init' # NoListing => listing' = init' /\ Sound(fs', init', {}),
         listing' # NoListing => init' = listing'
  PROVE  SInv'
<1>1. Unwritten' = {}
  BY DEF Unwritten
<1>2. QED
  BY <1>1 DEF SInv, AddInv, UpdateInv, OwnInv, AgreeInv

\* An empty directory is sound whatever the sectors hold.
LEMMA SCreateFS == ASSUME TInv, SInv, CreateFS PROVE SInv'
<1>1. pc' = "menu" /\ op' = "none"
  BY DEF CreateFS, locals, TInv, Control
<1>2. Used(EmptyListing) = {} /\ Heads(EmptyListing) = {} /\ DOMAIN EmptyListing.entries = {}
  BY FilingAssumption DEF Used, Heads, EmptyListing, FileSectors
<1>3. Sound(fs', EmptyListing, {})
  BY <1>2, SoundParts DEF HeadsFit, LinksFit, LinksDiffer
<1>4. init' = EmptyListing /\ listing' = EmptyListing
  BY DEF CreateFS
<1>5. QED
  BY <1>1, <1>3, <1>4, RestIsSound

\* A new file takes its first sector, and one for its second descriptor.
LEMMA SAddFile ==
  ASSUME TInv, SInv, NEW n \in Names, NEW b \in BOOLEAN, NEW sz \in Sizes, AddFile(n, b, sz),
         damage' = {}
  PROVE  SInv'
<1> DEFINE e == [name |-> n, sector |-> init.next_free_sector,
                 deleted |-> FALSE, usable |-> FALSE]
           c == [entries |-> Append(init.entries, e),
                 next_free_sector |-> init.next_free_sector + 2]
           i == Len(init.entries) + 1
           h == init.next_free_sector
<1>1. /\ AtMenu /\ Room(1 + BlocksOf(sz)) /\ Len(init.entries) < MAX_FILES_PER_DIR
      /\ damage = {} /\ NewFile(i, c, sz) /\ listing' = listing
  BY DEF AddFile, Start
<1>2. /\ init \in Listing /\ fs \in Images /\ Sound(fs, init, {}) /\ listing = init
  BY <1>1, AtRest
<1>3. /\ c \in Listing /\ h \in FileSectors /\ c.next_free_sector = h + 2
      /\ Len(init.entries) \in Nat
      /\ DOMAIN init.entries = 1..Len(init.entries)
      /\ DOMAIN c.entries = 1..(Len(init.entries) + 1)
      /\ c.entries[i] = e
      /\ \A j \in DOMAIN init.entries : c.entries[j] = init.entries[j]
      /\ c.next_free_sector + 2 * BlocksOf(sz) <= LastSector + 2
  BY <1>1, AddFileList
<1>4. i \notin DOMAIN init.entries /\ DOMAIN c.entries = DOMAIN init.entries \cup {i}
  BY <1>3
<1> HIDE DEF c, i
<1>5. e.sector = h /\ h \in Nat
  BY <1>3, SectorsAreNumbers
<1>6. c.entries[i].sector = h /\ h \in Nat
  BY <1>3, <1>5
<1>7. Sound(fs, c, {h})
  <2>1. Sound(fs, c, {} \cup {h})
    BY <1>2, <1>3, <1>4, <1>6, TakeEntry
  <2>2. QED
    BY <2>1
<1>8. /\ op' = "add" /\ index' = i /\ fs' = fs /\ sector' = h + 2
      /\ file_init'.next_descriptor = IF sz > BLOCK THEN sector' ELSE 0
      /\ init' = [c EXCEPT !.next_free_sector = IF sz > BLOCK THEN @ + 2 ELSE @]
      /\ pc' = IF sz > BLOCK THEN "append" ELSE "file"
  BY <1>1, <1>3 DEF NewFile, ZeroBlock
<1>9. init'.entries = c.entries
  BY <1>3, <1>8 DEF Listing
<1>10. ~Growing' /\ listing' = init /\ (listing' # NoListing => Sound(fs', listing', {}))
  BY <1>1, <1>2, <1>8 DEF Growing
<1>11. UpdateInv' /\ AgreeInv'
  BY <1>8 DEF UpdateInv, AgreeInv
<1>12. CASE sz > BLOCK
  <2>1. init'.next_free_sector = c.next_free_sector + 2
    BY <1>3, <1>8, <1>12 DEF Listing
  <2>2. sz \in Nat /\ BlocksOf(sz) \in Nat /\ 2 <= BlocksOf(sz)
    BY <1>12, SizesTyped, TwoBlocks, FilingAssumption
  <2>3. c.next_free_sector \in Frees /\ c.next_free_sector \in Nat
    BY <1>3, SectorsAreNumbers DEF Listing, Frees
  <2>4. c.next_free_sector + 2 <= LastSector + 2
    BY <1>3, <2>2, <2>3, FilingAssumption
  <2>5. c.next_free_sector \in FileSectors
    BY <2>3, <2>4, NextFree
  <2>6. /\ Sound(fs, init', {h} \cup {h + 2})
        /\ h + 2 \in Used(init') \ Heads(init')
        /\ \A s \in Used(init') \ ({h} \cup {h + 2}) : fs[s].next_descriptor # h + 2
    <3> HIDE DEF h
    <3>1. c.next_free_sector = h + 2 /\ c.next_free_sector \in FileSectors
      BY <1>3, <2>5
    <3>2. /\ Sound(fs, init', {h} \cup {c.next_free_sector})
          /\ c.next_free_sector \in Used(init') \ Heads(init')
          /\ \A s \in Used(init') \ ({h} \cup {c.next_free_sector}) :
               fs[s].next_descriptor # c.next_free_sector
      BY <1>7, <1>9, <2>1, <3>1, Take
    <3>3. QED
      BY <3>1, <3>2
  <2>7. Unwritten' = {h} \cup {h + 2}
    BY <1>6, <1>8, <1>9, <1>12 DEF Unwritten
  <2>8. Sound(fs', init', Unwritten') /\ OwnInv'
    BY <1>8, <1>12, <2>6, <2>7 DEF OwnInv
  <2>9. AddInv'
    BY <1>1, <1>2, <1>6, <1>8, <1>9, <1>12, <2>6, <2>7 DEF AddInv
  <2>10. QED
    BY <1>10, <1>11, <2>8, <2>9 DEF SInv
<1>13. CASE ~(sz > BLOCK)
  <2>1. init' = c
    BY <1>3, <1>8, <1>13 DEF Listing
  <2>2. Unwritten' = {h}
    BY <1>6, <1>8, <1>9, <1>13 DEF Unwritten
  <2>3. Sound(fs', init', Unwritten') /\ OwnInv'
    BY <1>7, <1>8, <1>13, <2>1, <2>2 DEF OwnInv
  <2>4. AddInv'
    BY <1>1, <1>2, <1>6, <1>8, <1>9, <1>13 DEF AddInv
  <2>5. QED
    BY <1>10, <1>11, <2>3, <2>4 DEF SInv
<1>14. QED
  BY <1>12, <1>13

\* The first descriptor of a file is one of the written sectors, unless a new
\* file's is still to come.
LEMMA HeadUsed ==
  ASSUME NEW f, NEW d, NEW u, Sound(f, d, u), NEW i \in DOMAIN d.entries
  PROVE  /\ d.entries[i].sector \in Used(d) \cap Heads(d)
         /\ d.entries[i].sector \notin u => f[d.entries[i].sector] \in Block
<1>1. HeadsFit(d) /\ LinksFit(f, d, u)
  BY SoundParts
<1>2. d.entries[i].sector \in Heads(d)
  BY DEF Heads
<1>3. QED
  BY <1>1, <1>2 DEF HeadsFit, LinksFit

\* Reading a sector that holds a descriptor.
LEMMA ReadWritten ==
  ASSUME NEW s, NEW b, fs[s] \in Block
  PROVE  Read(s, b) = fs[s]
  BY FilingAssumption DEF Read

\* An update begins with the link of its first descriptor in file_init.
LEMMA SUpdateFile ==
  ASSUME TInv, SInv, NEW n \in Names, NEW sz \in Sizes, UpdateFile(n, sz), damage' = {}
  PROVE  SInv'
<1>1. PICK i \in Entries :
        /\ Start /\ FoundAt(n, i)
        /\ op' = "update" /\ index' = i
        /\ LET old == Read(init.entries[i].sector, ZeroBlock)
           IN  /\ file_init' = IF sz = 0 THEN old ELSE [old EXCEPT !.data = <<issued', 0>>]
               /\ next_descriptor' = IF sz > BLOCK THEN old.next_descriptor ELSE 0
               /\ pc' = IF sz <= BLOCK THEN "file"
                        ELSE IF old.next_descriptor # 0 THEN "overwrite"
                        ELSE IF SizeInSectors(sz) > old.size_in_sectors THEN "link"
                        ELSE "file"
        /\ UNCHANGED <<image, init, damage>>
  BY DEF UpdateFile
<1> DEFINE h == init.entries[i].sector
<1>2. /\ init \in Listing /\ init # NoListing /\ fs \in Images
      /\ Sound(fs, init, {}) /\ listing = init
  BY <1>1, AtRest DEF Start
<1>3. i \in DOMAIN init.entries
  BY <1>1 DEF FoundAt
<1>4. h \in Used(init) /\ fs[h] \in Block
  BY <1>2, <1>3, HeadUsed
<1>5. Read(h, ZeroBlock) = fs[h]
  BY <1>4, ReadWritten
<1>6. fs[h].next_descriptor \in (Used(init) \ Heads(init)) \cup {0}
  BY <1>2, <1>4, SoundParts DEF LinksFit
<1> HIDE DEF h
<1>7. file_init'.next_descriptor = fs[h].next_descriptor
  BY <1>1, <1>4, <1>5 DEF h, Block
<1>8. sz \in Nat /\ BLOCK \in Nat
  BY FilingAssumption
<1>9. /\ pc' \in {"file", "overwrite", "link"}
      /\ pc' = "overwrite" => next_descriptor' = fs[h].next_descriptor /\ next_descriptor' # 0
      /\ pc' = "link" => next_descriptor' = 0
  BY <1>1, <1>5, <1>8 DEF h
<1>10. fs' = fs /\ init' = init /\ listing' = listing
  BY <1>1 DEF image
<1>11. Unwritten' = {} /\ ~Growing'
  BY <1>1, <1>2, <1>9, <1>10 DEF Unwritten, Growing
<1>12. AddInv' /\ OwnInv' /\ AgreeInv'
  BY <1>1, <1>9 DEF AddInv, OwnInv, AgreeInv
<1>13. /\ fs'[init'.entries[index'].sector].next_descriptor = file_init'.next_descriptor
       /\ pc' = "overwrite" => next_descriptor' \in Used(init') \ Heads(init')
  BY <1>1, <1>6, <1>7, <1>9, <1>10 DEF h
<1>14. UpdateInv'
  BY <1>2, <1>9, <1>10, <1>13 DEF UpdateInv
<1>15. QED
  BY <1>2, <1>10, <1>11, <1>12, <1>14 DEF SInv

\* What one turn of the loop over the old chain does.
LEMMA OverwriteDoes ==
  ASSUME TInv, SInv, TInv', Overwrite, damage' = {}
  PROVE  LET x   == next_descriptor
             new == fs'[x]
         IN  /\ damage = {} /\ op = "update" /\ Unwritten = {} /\ Unwritten' = {}
             /\ init \in Listing /\ init # NoListing
             /\ index \in Entries /\ index \in DOMAIN init.entries
             /\ x \in FileSectors /\ x \in Used(init) /\ x \notin Heads(init)
             /\ fs \in Images /\ fs' = [fs EXCEPT ![x] = new] /\ new \in Block
             /\ new.data = IF k * BLOCK < size THEN <<issued, k>> ELSE <<0, 0>>
             /\ new.next_descriptor = fs[x].next_descriptor
             /\ k' = IF k * BLOCK < size THEN k + 1 ELSE k
             /\ next_descriptor' = IF new.next_descriptor # 0 THEN new.next_descriptor ELSE x
             /\ pc' \in {"overwrite", "link", "file"}
             /\ pc' = "overwrite" <=> new.next_descriptor # 0
             /\ misfit' <=> /\ new.next_descriptor = 0
                            /\ ~(k * BLOCK < size) \/ (pc' = "file" /\ k' * BLOCK < size)
             /\ DOMAIN init'.entries = DOMAIN init.entries
             /\ init' # NoListing /\ init'.next_free_sector = init.next_free_sector
             /\ \A j \in DOMAIN init.entries : init'.entries[j].sector = init.entries[j].sector
             /\ listing' = listing /\ op' = op /\ index' = index /\ size' = size
             /\ file_init' = file_init /\ issued' = issued /\ stored' = stored
<1> DEFINE old  == Read(next_descriptor, file_desc)
           left == k * BLOCK < size
           new  == [old EXCEPT !.data = IF left THEN <<issued, k>> ELSE <<0, 0>>,
                               !.usable = @ \/ ~left]
<1>1. /\ pc = "overwrite" /\ op = "update" /\ damage = {}
      /\ init \in Listing /\ init # NoListing /\ index \in Entries
      /\ index \in DOMAIN init.entries /\ fs \in Images
  BY DEF TInv, TypeOK, Control, Overwrite, Images
<1>2. Unwritten = {} /\ Unwritten' = {}
  BY <1>1 DEF Unwritten, Overwrite
<1>3. Sound(fs, init, {}) /\ next_descriptor \in Used(init) \ Heads(init)
  BY <1>1, <1>2 DEF SInv, UpdateInv
<1>4. next_descriptor \in FileSectors /\ fs[next_descriptor] \in Block
  BY <1>3, SoundParts DEF LinksFit, Used
<1>5. old = fs[next_descriptor]
  BY <1>4, ReadWritten
<1>6. /\ fs' = [fs EXCEPT ![next_descriptor] = new]
      /\ k' = IF left THEN k + 1 ELSE k
      /\ init' = IF left THEN init ELSE [init EXCEPT !.entries[index].usable = TRUE]
      /\ next_descriptor' = IF new.next_descriptor # 0 THEN new.next_descriptor
                            ELSE next_descriptor
      /\ pc' \in {"overwrite", "link", "file"}
      /\ pc' = "overwrite" <=> new.next_descriptor # 0
      /\ misfit' = (/\ new.next_descriptor = 0
                    /\ ~left \/ (pc' = "file" /\ k' * BLOCK < size))
      /\ listing' = listing /\ op' = op /\ index' = index /\ size' = size
      /\ file_init' = file_init /\ issued' = issued /\ stored' = stored
      /\ file_desc' = new
  BY DEF Overwrite
<1> HIDE DEF left, old
<1>7. /\ new.next_descriptor = fs[next_descriptor].next_descriptor
      /\ new.data = IF left THEN <<issued, k>> ELSE <<0, 0>>
  BY <1>4, <1>5 DEF Block
<1> HIDE DEF new
<1>8. new \in Block
  BY <1>6 DEF TInv, TypeOK
<1>9. /\ DOMAIN init'.entries = DOMAIN init.entries /\ init' # NoListing
      /\ init'.next_free_sector = init.next_free_sector
      /\ \A j \in DOMAIN init.entries : init'.entries[j].sector = init.entries[j].sector
  <2>1. CASE left
    BY <1>1, <1>6, <2>1
  <2>2. CASE ~left
    <3>1. init.entries[index].name \in Names
      BY <1>1, EntryTyped DEF Entry
    <3>2. init' = [init EXCEPT !.entries[index].usable = TRUE]
      BY <1>6, <2>2
    <3>3. QED
      BY <1>1, <3>1, <3>2, MarkSet
  <2>3. QED
    BY <2>1, <2>2
<1>10. fs'[next_descriptor] = new
  BY <1>1, <1>4, <1>6 DEF Images
<1>11. misfit' <=> new.next_descriptor = 0 /\ (~left \/ (pc' = "file" /\ k' * BLOCK < size))
  BY <1>6
<1>12. QED
  BY <1>1, <1>2, <1>3, <1>4, <1>6, <1>7, <1>8, <1>9, <1>10, <1>11 DEF left

\* Overwriting changes no link.
LEMMA SOverwrite == ASSUME TInv, SInv, TInv', Overwrite, damage' = {} PROVE SInv'
<1> DEFINE x   == next_descriptor
           new == fs'[x]
           h   == init.entries[index].sector
<1>1. /\ damage = {} /\ op = "update" /\ Unwritten = {} /\ Unwritten' = {}
      /\ init \in Listing /\ init # NoListing /\ index \in DOMAIN init.entries
      /\ x \in FileSectors /\ x \in Used(init) /\ x \notin Heads(init)
      /\ fs \in Images /\ fs' = [fs EXCEPT ![x] = new] /\ new \in Block
      /\ new.next_descriptor = fs[x].next_descriptor
  BY OverwriteDoes
<1>2. /\ next_descriptor' = IF new.next_descriptor # 0 THEN new.next_descriptor ELSE x
      /\ pc' \in {"overwrite", "link", "file"}
      /\ pc' = "overwrite" <=> new.next_descriptor # 0
      /\ DOMAIN init'.entries = DOMAIN init.entries
      /\ init'.next_free_sector = init.next_free_sector
      /\ \A j \in DOMAIN init.entries : init'.entries[j].sector = init.entries[j].sector
      /\ listing' = listing /\ op' = op /\ index' = index /\ file_init' = file_init
  BY OverwriteDoes
<1>3. pc = "overwrite" /\ file_desc' = new
  <2>1. /\ pc = "overwrite" /\ \E b : fs' = [fs EXCEPT ![x] = b] /\ file_desc' = b
    BY DEF Overwrite
  <2>2. QED
    BY <1>1, <2>1 DEF Images
<1> HIDE DEF new, h
<1>4. /\ Sound(fs, init, {}) /\ UpdateInv
      /\ listing # NoListing => listing.next_free_sector = init.next_free_sector
      /\ listing # NoListing => Sound(fs, listing, {})
      /\ fs[h].next_descriptor = file_init.next_descriptor
  BY <1>1, <1>3 DEF SInv, UpdateInv, Growing, h
<1>5. fs[x].next_descriptor \in (Used(init) \ Heads(init)) \cup {0}
  BY <1>1, <1>4, SoundParts DEF LinksFit
<1>6. h \in Heads(init)
  BY <1>1 DEF Heads, h
<1>7. Sound(fs', init, {})
  BY <1>1, <1>4, WriteSame
<1>8. Sound(fs', init', {}) /\ Used(init') = Used(init) /\ Heads(init') = Heads(init)
  BY <1>2, <1>7, SameShape
<1>9. listing' # NoListing => Sound(fs', listing', {})
  BY <1>1, <1>2, <1>4, WriteSame
<1>10. fs'[h].next_descriptor = fs[h].next_descriptor
  BY <1>1, <1>6 DEF Images
<1>11. init'.entries[index'].sector = h
  BY <1>1, <1>2 DEF h
<1>12. UpdateInv'
  <2>1. fs'[init'.entries[index'].sector].next_descriptor = file_init'.next_descriptor
    BY <1>2, <1>4, <1>10, <1>11
  <2>2. pc' = "overwrite" => next_descriptor' \in Used(init') \ Heads(init')
    BY <1>1, <1>2, <1>5, <1>8
  <2>3. pc' = "link" => /\ next_descriptor' \in Used(init') \ Heads(init')
                        /\ fs'[next_descriptor'] = file_desc' /\ file_desc'.next_descriptor = 0
    BY <1>1, <1>2, <1>3, <1>8 DEF new
  <2>4. listing' # NoListing => listing'.next_free_sector = init'.next_free_sector
    BY <1>2, <1>4
  <2>5. QED
    BY <1>2, <2>1, <2>2, <2>3, <2>4 DEF UpdateInv
<1>13. AddInv' /\ OwnInv' /\ AgreeInv'
  BY <1>1, <1>2 DEF AddInv, OwnInv, AgreeInv
<1>14. QED
  BY <1>1, <1>8, <1>9, <1>12, <1>13 DEF SInv

\* Linking hands one more sector to the chain; on disk it still counts as free.
LEMMA SLink == ASSUME TInv, SInv, TInv', Link, damage' = {} PROVE SInv'
<1> DEFINE h == init.entries[index].sector
<1>1. /\ pc = "link" /\ op = "update" /\ pc' = "append" /\ op' = "update" /\ damage = {}
      /\ init \in Listing /\ init # NoListing /\ index \in DOMAIN init.entries /\ fs \in Images
      /\ sector = init.next_free_sector
      /\ init'.next_free_sector \in Frees
  BY DEF TInv, TypeOK, Control, HasRoom, Link, Images, Listing, Frees
<1>2. Unwritten = {}
  BY <1>1 DEF Unwritten
<1>3. /\ Sound(fs, init, {}) /\ UpdateInv
      /\ listing # NoListing => listing.next_free_sector = init.next_free_sector
      /\ fs[h].next_descriptor = file_init.next_descriptor
      /\ next_descriptor # 0 =>
           /\ next_descriptor \in Used(init) \ Heads(init)
           /\ fs[next_descriptor] = file_desc /\ file_desc.next_descriptor = 0
  BY <1>1, <1>2 DEF SInv, UpdateInv
<1>4. /\ init' = [init EXCEPT !.next_free_sector = @ + 2]
      /\ UNCHANGED <<index, sector, next_descriptor, file_init>>
  BY DEF Link
<1>5. init'.entries = init.entries /\ init'.next_free_sector = init.next_free_sector + 2
  BY <1>1, <1>4 DEF Listing
<1>6. init.next_free_sector \in FileSectors
  <2>1. init.next_free_sector \in Frees
    BY <1>1 DEF Listing, Frees
  <2>2. init'.next_free_sector <= LastSector + 2
    BY <1>1, FreesBounded
  <2>3. init.next_free_sector + 2 <= LastSector + 2
    BY <1>5, <2>2
  <2>4. QED
    BY <2>1, <2>3, NextFree
<1>7. init.next_free_sector \in Nat
  BY <1>6, SectorsAreNumbers
<1>8. /\ Sound(fs, init', {} \cup {sector})
      /\ sector \in Used(init') \ Heads(init')
      /\ \A s \in Used(init') \ ({} \cup {sector}) : fs[s].next_descriptor # sector
  BY <1>1, <1>3, <1>5, <1>6, Take
<1>9. Unwritten' = {sector}
  BY <1>1, <1>4 DEF Unwritten
<1>10. h \in Heads(init)
  BY <1>1 DEF Heads
<1>11. Sound(fs', init', {sector}) /\ fs'[h].next_descriptor = fs[h].next_descriptor
  <2>1. CASE next_descriptor = 0
    BY <1>8, <2>1 DEF Link
  <2>2. CASE next_descriptor # 0
    <3>1. /\ file_desc' = [file_desc EXCEPT !.next_descriptor = sector]
          /\ fs' = [fs EXCEPT ![next_descriptor] = file_desc']
      BY <2>2 DEF Link
    <3>2. file_desc \in Block /\ file_desc' \in Block
      BY DEF TInv, TypeOK
    <3>3. file_desc'.next_descriptor = sector
      BY <3>1, <3>2 DEF Block
    <3>4. next_descriptor \in FileSectors /\ h # next_descriptor
      BY <1>3, <1>10, <2>2 DEF Used
    <3>5. Sound(fs, init', {sector})
      BY <1>8
    <3>6. Sound(fs', init', {sector} \ {next_descriptor})
      BY <1>1, <1>8, <3>1, <3>2, <3>3, <3>4, <3>5, WriteNew
    <3>7. sector # next_descriptor
      BY <1>1, <1>3, <2>2, <1>7 DEF Used
    <3>8. {sector} \ {next_descriptor} = {sector}
      BY <3>7
    <3>9. QED
      BY <1>1, <3>1, <3>4, <3>6, <3>8 DEF Images
  <2>3. QED
    BY <2>1, <2>2
<1>12. listing' # NoListing => listing' = listing /\ listing # NoListing
  BY DEF Link
<1>13. init.next_free_sector < init'.next_free_sector
  BY <1>5, <1>7
<1>14. listing' # NoListing => Growing'
  <2>1. SUFFICES ASSUME listing' # NoListing PROVE Growing'
    OBVIOUS
  <2>2. listing'.next_free_sector = init.next_free_sector
    BY <1>3, <1>12, <2>1
  <2>3. init'.next_free_sector # listing'.next_free_sector
    BY <1>5, <1>7, <2>2
  <2>4. init' # listing'
    BY <2>3
  <2>5. QED
    BY <1>1, <2>1, <2>3, <2>4 DEF Growing
<1>15. UpdateInv'
  BY <1>1, <1>3, <1>4, <1>5, <1>11, <1>12, <1>13 DEF UpdateInv
<1>16. AddInv' /\ AgreeInv' /\ OwnInv'
  BY <1>1, <1>4, <1>8 DEF AddInv, AgreeInv, OwnInv
<1>17. QED
  BY <1>9, <1>11, <1>14, <1>15, <1>16 DEF SInv

\* The sector taken last lies in the image, among those in use.
LEMMA AppendSector ==
  ASSUME TInv, SInv, TInv', AppendBlock, damage = {}
  PROVE  /\ sector \in FileSectors /\ sector \in Used(init) /\ sector \notin Heads(init)
         /\ sector + 2 = init.next_free_sector /\ sector + 2 \notin Used(init)
<1> DEFINE h == init.entries[index].sector
           next == sector + 2
<1>1. /\ pc = "append" /\ init \in Listing /\ init # NoListing /\ index \in DOMAIN init.entries
      /\ init.next_free_sector = next
  BY DEF TInv, TypeOK, Control, HasRoom, AppendBlock
<1>2. Sound(fs, init, Unwritten) /\ sector \notin Heads(init)
  BY <1>1 DEF SInv, OwnInv
<1>3. next \in Frees /\ sector \in Links \cup {LastSector + 2}
  BY <1>1 DEF Listing, Frees, TInv, TypeOK
<1>4. next \in Nat /\ next <= LastSector + 2
  BY <1>3, FreesBounded
<1>5. sector \in FileSectors \cup {0, LastSector + 2}
  BY <1>3 DEF Links
<1>6. LastSector \in Nat /\ sector \in Nat
  BY <1>5, SectorsAreNumbers, FilingAssumption
<1>7. h \in FileSectors /\ h < next
  BY <1>1, <1>2, SoundParts DEF HeadsFit, Used, Heads
<1>8. 2 <= h /\ h \in Nat
  BY <1>7 DEF FileSectors
<1>9. sector # LastSector + 2 /\ sector # 0
  BY <1>4, <1>6, <1>7, <1>8
<1>10. QED
  BY <1>1, <1>2, <1>4, <1>5, <1>6, <1>9 DEF Used

\* A new descriptor points to nothing, or to the sector taken with it.
LEMMA SAppendBlock == ASSUME TInv, SInv, TInv', AppendBlock, damage' = {} PROVE SInv'
<1> DEFINE more == size - k * BLOCK > BLOCK
           h == init.entries[index].sector
           next == sector + 2
           u == (IF more THEN {next} ELSE {}) \cup (IF op = "add" THEN {h} ELSE {})
<1>1. /\ pc = "append" /\ op \in {"add", "update"} /\ damage = {}
      /\ init \in Listing /\ init # NoListing /\ index \in DOMAIN init.entries /\ fs \in Images
      /\ init.next_free_sector = next
      /\ file_desc' \in Block
      /\ init'.next_free_sector \in Frees
  BY DEF TInv, TypeOK, Control, HasRoom, AppendBlock, Images, Listing, Frees
<1>2. /\ Sound(fs, init, Unwritten) /\ AddInv /\ UpdateInv /\ sector \notin Heads(init)
      /\ listing # NoListing /\ op = "add" => Sound(fs, listing, {})
  BY <1>1 DEF SInv, OwnInv, Growing
<1>3. /\ fs' = [fs EXCEPT ![sector] = file_desc']
      /\ file_desc' = [ZeroBlock EXCEPT !.data = <<issued, k>>,
                          !.next_descriptor = IF more THEN next ELSE 0]
      /\ sector' = init.next_free_sector
      /\ init' = [init EXCEPT !.next_free_sector = IF more THEN @ + 2 ELSE @]
      /\ pc' = IF more THEN "append" ELSE "file"
      /\ UNCHANGED <<listing, op, index, file_init>>
  BY DEF AppendBlock
<1>4. file_desc'.next_descriptor = IF more THEN next ELSE 0
  BY <1>3 DEF ZeroBlock
<1> HIDE DEF more
<1>5. /\ init'.entries = init.entries
      /\ init'.next_free_sector = IF more THEN next + 2 ELSE next
  BY <1>1, <1>3 DEF Listing
<1>6. h \in Heads(init) /\ h # sector
  BY <1>1, <1>2 DEF Heads
<1>7. Unwritten = {sector} \cup (IF op = "add" THEN {h} ELSE {})
  BY <1>1 DEF Unwritten
<1>8. sector \in FileSectors /\ next \in Nat /\ sector < next
  <2>1. sector \in FileSectors
    BY <1>1, AppendSector
  <2>2. QED
    BY <2>1, SectorsAreNumbers
<1>9. sector \in Used(init) /\ h \in Used(init)
  BY <1>1, <1>2, <1>6, <1>8, SoundParts DEF Used, HeadsFit
<1>10. next \notin Used(init)
  BY <1>1, <1>8 DEF Used
<1>11. more => /\ next \in FileSectors
               /\ Sound(fs, init', Unwritten \cup {next})
               /\ next \in Used(init') \ Heads(init')
               /\ \A s \in Used(init') \ (Unwritten \cup {next}) : fs[s].next_descriptor # next
               /\ Used(init') = Used(init) \cup {next}
  <2>1. SUFFICES ASSUME more
                 PROVE  /\ next \in FileSectors
                        /\ Sound(fs, init', Unwritten \cup {next})
                        /\ next \in Used(init') \ Heads(init')
                        /\ \A s \in Used(init') \ (Unwritten \cup {next}) :
                             fs[s].next_descriptor # next
                        /\ Used(init') = Used(init) \cup {next}
    OBVIOUS
  <2>2. next \in Frees /\ next + 2 <= LastSector + 2
    BY <1>1, <1>5, <2>1, FreesBounded DEF Frees, Listing
  <2>3. next \in FileSectors
    BY <2>2, NextFree
  <2> HIDE DEF next
  <2>4. QED
    BY <1>1, <1>2, <1>5, <2>1, <2>3, Take, UsedGrows
<1>12. Heads(init') = Heads(init)
  BY <1>5 DEF Heads
<1>13. Unwritten' = u
  BY <1>1, <1>3, <1>5 DEF Unwritten, u
<1>14. Sound(fs', init', u) /\ Used(init) \subseteq Used(init')
  <2>1. CASE more
    <3>1. Sound(fs', init', (Unwritten \cup {next}) \ {sector})
      BY ZenonT(60), <1>1, <1>3, <1>4, <1>8, <1>9, <1>10, <1>11, <2>1, WriteNew
    <3>2. (Unwritten \cup {next}) \ {sector} = u
      BY <1>6, <1>7, <1>9, <1>10, <2>1
    <3>3. QED
      BY <1>11, <2>1, <3>1, <3>2
  <2>2. CASE ~more
    <3>1. file_desc'.next_descriptor = 0
      BY <1>4, <2>2
    <3>2. Sound(fs', init, Unwritten \ {sector})
      BY <1>1, <1>2, <1>3, <1>8, <3>1, WriteNew
    <3>3. Unwritten \ {sector} = u
      BY <1>6, <1>7, <2>2
    <3>4. init' = init
      BY <1>1, <1>3, <2>2 DEF Listing
    <3>5. QED
      BY <3>2, <3>3, <3>4
  <2>3. QED
    BY <2>1, <2>2
<1>15. /\ fs'[h].next_descriptor = fs[h].next_descriptor
       /\ fs'[sector] = file_desc'
       /\ \A s \in FileSectors \ {sector} : fs'[s] = fs[s]
  <2>1. \A s \in FileSectors : fs'[s] = IF s = sector THEN file_desc' ELSE fs[s]
    BY <1>1, <1>3 DEF Images
  <2>2. QED
    BY <1>6, <1>8, <1>9, <2>1 DEF Used
<1>16. listing # NoListing => listing.next_free_sector \in Nat
  BY SectorsAreNumbers DEF TInv, TypeOK, Listing, Frees
<1>17. AddInv'
  <2>1. SUFFICES ASSUME op = "add" PROVE AddInv'
    BY <1>3 DEF AddInv
  <2>2. init'.entries[index'].sector = h
    BY <1>3, <1>5
  <2>3. ASSUME file_init.next_descriptor # 0
        PROVE  /\ file_init.next_descriptor \in Used(init') \ Heads(init')
               /\ \A s \in Used(init') \ u : fs'[s].next_descriptor # file_init.next_descriptor
    <3>1. /\ file_init.next_descriptor \in Used(init) \ Heads(init)
          /\ \A s \in Used(init) \ Unwritten :
               fs[s].next_descriptor # file_init.next_descriptor
      BY <1>1, <1>2, <2>1, <2>3 DEF AddInv
    <3>2. SUFFICES ASSUME NEW s \in Used(init') \ u
                   PROVE  fs'[s].next_descriptor # file_init.next_descriptor
      BY <1>12, <1>14, <3>1
    <3>3. CASE s = sector
      BY <1>4, <1>10, <1>15, <2>3, <3>1, <3>3
    <3>4. CASE s # sector
      <4>1. s \in Used(init) \ Unwritten
        BY <1>1, <1>5, <1>7, <1>11, <2>1, <3>2, <3>4 DEF Used
      <4>2. QED
        BY <1>15, <3>1, <3>4, <4>1 DEF Used
    <3>5. QED
      BY <3>3, <3>4
  <2>4. listing # NoListing =>
          /\ listing.next_free_sector <= h
          /\ listing.next_free_sector <= sector'
    BY <1>1, <1>2, <1>3, <1>8, <1>16, <2>1, SectorsAreNumbers DEF AddInv
  <2>5. QED
    BY <1>3, <1>13, <2>2, <2>3, <2>4 DEF AddInv
<1>18. UpdateInv'
  <2>1. SUFFICES ASSUME op = "update" PROVE UpdateInv'
    BY <1>3 DEF UpdateInv
  <2>2. fs[h].next_descriptor = file_init.next_descriptor
        /\ (listing # NoListing => listing.next_free_sector < next)
    BY <1>1, <1>2, <2>1 DEF UpdateInv
  <2>3. listing # NoListing => listing.next_free_sector < init'.next_free_sector
    BY <1>5, <1>8, <1>16, <2>2
  <2>4. fs'[init'.entries[index'].sector].next_descriptor = file_init'.next_descriptor
    BY <1>3, <1>5, <1>15, <2>2
  <2>5. QED
    BY <1>3, <2>3, <2>4 DEF UpdateInv
<1>19. OwnInv' /\ AgreeInv'
  BY <1>1, <1>2, <1>3, <1>9, <1>10, <1>12, SoundParts DEF OwnInv, AgreeInv, HeadsFit
<1>20. ASSUME listing' # NoListing, ~Growing' PROVE Sound(fs', listing', {})
  <2>1. CASE op = "add"
    <3>1. listing.next_free_sector <= sector
      BY <1>1, <1>2, <1>3, <1>20, <2>1 DEF AddInv
    <3>2. sector \notin Used(listing)
      BY <1>3, <1>8, <1>16, <1>20, <3>1, SectorsAreNumbers DEF Used
    <3>3. QED
      BY <1>1, <1>2, <1>3, <1>20, <2>1, <3>2, WriteSame
  <2>2. CASE op = "update"
    <3>1. listing.next_free_sector < next
      BY <1>1, <1>2, <1>3, <1>20, <2>2 DEF UpdateInv
    <3>2. init'.next_free_sector # listing'.next_free_sector
      BY <1>3, <1>5, <1>8, <1>16, <1>20, <3>1
    <3>3. QED
      BY <1>3, <1>20, <2>2, <3>2 DEF Growing
  <2>3. QED
    BY <1>1, <2>1, <2>2
<1>21. QED
  BY <1>13, <1>14, <1>17, <1>18, <1>19, <1>20 DEF SInv

\* The first descriptor keeps the link that file_init holds.
LEMMA SWriteFile == ASSUME TInv, SInv, WriteFile, damage' = {} PROVE SInv'
<1> DEFINE h == init.entries[index].sector
           b == [file_init EXCEPT !.size_in_sectors = SizeInSectors(size),
                                  !.bytes_unused_last_kb = UnusedInLast(size)]
<1>1. /\ pc = "file" /\ op \in {"add", "update"} /\ damage = {} /\ size \in Nat
      /\ init \in Listing /\ init # NoListing /\ index \in DOMAIN init.entries
      /\ fs \in Images /\ file_init \in Block
      /\ fs' = [fs EXCEPT ![h] = b] /\ pc' = "list"
      /\ UNCHANGED <<listing, init, op, index, file_init>>
  BY DEF TInv, TypeOK, Control, WriteFile, Images, locals
<1>2. b \in Block /\ b.next_descriptor = file_init.next_descriptor
  BY <1>1, SizesTyped DEF Block
<1>3. h \in FileSectors
  BY <1>1, EntryTyped
<1>4. /\ Sound(fs, init, Unwritten) /\ AddInv /\ UpdateInv
      /\ listing # NoListing /\ ~Growing => Sound(fs, listing, {})
  BY <1>1 DEF SInv
<1>5. Unwritten = IF op = "add" THEN {h} ELSE {}
  BY <1>1 DEF Unwritten
<1>6. op = "update" => b.next_descriptor = fs[h].next_descriptor
  BY <1>1, <1>2, <1>4 DEF UpdateInv
<1>7. /\ op = "add" /\ b.next_descriptor # 0 =>
           /\ b.next_descriptor \in Used(init) \ Heads(init)
           /\ \A s \in Used(init) \ {h} : fs[s].next_descriptor # b.next_descriptor
      /\ op = "add" /\ listing # NoListing => listing.next_free_sector <= h
  BY <1>1, <1>2, <1>4, <1>5 DEF AddInv
<1> HIDE DEF b, h
<1>8. Sound(fs', init', {})
  <2>1. CASE op = "add"
    <3>1. Sound(fs, init, {h})
      BY <1>4, <1>5, <2>1
    <3>2. Sound([fs EXCEPT ![h] = b], init, {h} \ {h})
      BY <1>1, <1>2, <1>3, <1>7, <2>1, <3>1, WriteNew
    <3>3. {h} \ {h} = {}
      OBVIOUS
    <3>4. QED
      BY <1>1, <3>2, <3>3
  <2>2. CASE op = "update"
    <3>1. Sound(fs, init, {})
      BY <1>4, <1>5, <2>2
    <3>2. QED
      BY <1>1, <1>2, <1>6, <2>2, <3>1, WriteSame
  <2>3. QED
    BY <1>1, <2>1, <2>2
<1>9. ASSUME listing' # NoListing, ~Growing' PROVE Sound(fs', listing', {})
  <2>1. Sound(fs, listing, {})
    BY <1>1, <1>4, <1>9 DEF Growing
  <2>2. h \in Used(listing) => b.next_descriptor = fs[h].next_descriptor
    <3>1. CASE op = "add"
      <4>1. listing.next_free_sector \in Nat /\ h \in Nat
        BY <1>1, <1>3, <1>9, SectorsAreNumbers DEF TInv, TypeOK, Listing, Frees
      <4>2. h \notin Used(listing)
        BY <1>1, <1>7, <1>9, <3>1, <4>1 DEF Used
      <4>3. QED
        BY <4>2
    <3>2. QED
      BY <1>1, <1>6, <3>1
  <2>3. QED
    BY <1>1, <1>2, <2>1, <2>2, WriteSame
<1>10. Unwritten' = {}
  BY <1>1 DEF Unwritten
<1>11. AddInv' /\ UpdateInv' /\ OwnInv' /\ AgreeInv'
  BY <1>1 DEF AddInv, UpdateInv, OwnInv, AgreeInv
<1>12. QED
  BY <1>8, <1>9, <1>10, <1>11 DEF SInv

\* The directory in memory is sound and all written, so the one on disk is.
LEMMA SWriteList == ASSUME TInv, SInv, WriteList, damage' = {} PROVE SInv'
<1>1. /\ pc = "list" /\ damage = {} /\ init # NoListing
      /\ listing' = init /\ init' = init /\ fs' = fs /\ pc' = "menu" /\ op' = "none"
  BY DEF WriteList, Finish, TInv, Control
<1>2. Unwritten = {}
  BY <1>1 DEF Unwritten
<1>3. Sound(fs', init', {})
  BY <1>1, <1>2 DEF SInv
<1>4. QED
  BY <1>1, <1>3, RestIsSound

\* Deleting and renaming rewrite an entry, in memory and on disk.
LEMMA EntryRewritten ==
  ASSUME TInv, SInv, AtMenu, damage = {}, NEW i \in DOMAIN init.entries, NEW m \in Names,
         \/ init' = [init EXCEPT !.entries[i].deleted = TRUE]
         \/ init' = [init EXCEPT !.entries[i].name = m],
         fs' = fs
  PROVE  init' # NoListing /\ Sound(fs', init', {})
<1>1. init \in Listing /\ Sound(fs, init, {})
  BY AtRest
<1>2. /\ init' # NoListing /\ DOMAIN init'.entries = DOMAIN init.entries
      /\ init'.next_free_sector = init.next_free_sector
      /\ \A j \in DOMAIN init.entries : init'.entries[j].sector = init.entries[j].sector
  BY <1>1, MarkSet
<1>3. QED
  BY <1>1, <1>2, SameShape

\* Deleting an entry keeps every sector.
LEMMA SDeleteFile ==
  ASSUME TInv, SInv, NEW n \in Names, DeleteFile(n), damage' = {}
  PROVE  SInv'
<1>1. PICK i \in Entries :
        /\ AtMenu /\ FoundAt(n, i)
        /\ init' = [init EXCEPT !.entries[i].deleted = TRUE]
        /\ listing' = init' /\ fs' = fs /\ damage' = damage
        /\ pc' = "markfile" /\ op' = "delete"
  BY DEF DeleteFile
<1>2. i \in DOMAIN init.entries
  BY <1>1 DEF FoundAt
<1>3. init' # NoListing /\ Sound(fs', init', {})
  BY <1>1, <1>2, EntryRewritten
<1>4. Unwritten' = {}
  BY <1>1 DEF Unwritten
<1>5. AddInv' /\ UpdateInv' /\ OwnInv' /\ AgreeInv'
  BY <1>1 DEF AddInv, UpdateInv, OwnInv, AgreeInv
<1>6. QED
  BY <1>1, <1>3, <1>4, <1>5 DEF SInv

\* So does renaming one.
LEMMA SRename ==
  ASSUME TInv, SInv, NEW n \in Names, NEW m \in Names, Rename(n, m), damage' = {}
  PROVE  SInv'
<1>1. PICK i \in Entries :
        /\ AtMenu /\ FoundAt(n, i)
        /\ init' = [init EXCEPT !.entries[i].name = m]
        /\ listing' = init' /\ fs' = fs /\ damage' = damage /\ pc' = pc /\ op' = op
  BY DEF Rename, locals
<1>2. i \in DOMAIN init.entries /\ pc = "menu" /\ op = "none"
  BY <1>1 DEF FoundAt, AtMenu, TInv, Control
<1>3. init' # NoListing /\ Sound(fs', init', {})
  BY <1>1, <1>2, EntryRewritten
<1>4. QED
  BY <1>1, <1>2, <1>3, RestIsSound

\* Marking changes no link, so the chain walked stays in the directory's sectors.
LEMMA SMark == ASSUME TInv, SInv, MarkFile \/ MarkNext, damage' = {} PROVE SInv'
<1> DEFINE s == IF pc = "markfile" THEN init.entries[index].sector ELSE next_descriptor
           b == IF pc = "markfile" THEN ZeroBlock ELSE file_desc
           new == [Read(s, b) EXCEPT !.deleted = TRUE]
<1>1. /\ pc \in {"markfile", "mark"} /\ op = "delete" /\ damage' = damage
      /\ init \in Listing /\ init # NoListing /\ index \in DOMAIN init.entries /\ fs \in Images
      /\ fs' = [fs EXCEPT ![s] = new] /\ UNCHANGED <<listing, init>>
      /\ IF new.next_descriptor = 0 THEN Finish
         ELSE pc' = "mark" /\ next_descriptor' = new.next_descriptor /\ op' = op
  BY DEF TInv, TypeOK, Control, MarkFile, MarkNext, Images
<1>2. Unwritten = {} /\ damage = {}
  BY <1>1 DEF Unwritten
<1>3. Sound(fs, init, {}) /\ OwnInv /\ listing = init
  BY <1>1, <1>2 DEF SInv, AgreeInv
<1>4. s \in Used(init)
  BY <1>1, <1>3, HeadUsed DEF OwnInv
<1>5. fs[s] \in Block /\ fs[s].next_descriptor \in (Used(init) \ Heads(init)) \cup {0}
  BY <1>3, <1>4, SoundParts DEF LinksFit
<1>6. Read(s, b) = fs[s]
  BY <1>5, ReadWritten
<1> HIDE DEF s, b
<1>7. new \in Block /\ new.next_descriptor = fs[s].next_descriptor
  BY <1>5, <1>6 DEF Block
<1> HIDE DEF new
<1>8. Sound(fs', init', {})
  BY <1>1, <1>3, <1>7, WriteSame
<1>9. CASE new.next_descriptor = 0
  BY <1>1, <1>3, <1>8, <1>9, RestIsSound DEF Finish
<1>10. CASE new.next_descriptor # 0
  <2>1. pc' = "mark" /\ op' = "delete" /\ next_descriptor' \in Used(init') \ Heads(init')
    BY <1>1, <1>5, <1>7, <1>10
  <2>2. Unwritten' = {}
    BY <2>1 DEF Unwritten
  <2>3. AddInv' /\ UpdateInv' /\ OwnInv' /\ AgreeInv'
    BY <1>1, <1>3, <2>1 DEF AddInv, UpdateInv, OwnInv, AgreeInv
  <2>4. QED
    BY <1>1, <1>3, <1>8, <2>2, <2>3 DEF SInv
<1>11. QED
  BY <1>9, <1>10

\* A crash leaves what is on disk.
LEMMA SCrash == ASSUME TInv, SInv, Crash, damage' = {} PROVE SInv'
<1>1. /\ damage = {} /\ ~Growing /\ (listing # NoListing \/ init = NoListing)
      /\ init' = listing /\ listing' = listing /\ fs' = fs /\ pc' = "menu" /\ op' = "none"
  BY DEF Crash, Restart, Finish, image
<1>2. listing # NoListing => Sound(fs', listing, {})
  BY <1>1 DEF SInv
<1>3. QED
  BY <1>1, <1>2, RestIsSound

\* Harm to the image ends what is claimed.
LEMMA SHarm ==
  ASSUME \/ \E g \in Entries, sz \in Sizes : AddBeyond(g, sz)
         \/ \E n \in Names : RenameMissing(n)
  PROVE  damage' # {}
  BY DEF AddBeyond, RenameMissing

\* Both directories stay sound by every step.
LEMMA SNext == ASSUME TInv, SInv, [Next]_vars PROVE SInv'
<1>1. TInv'
  BY TNext
<1>2. damage' # {} => SInv'
  BY DEF SInv
<1>3. QED
  BY <1>1, <1>2, SStutter, SCreateFS, SAddFile, SUpdateFile, SOverwrite, SLink,
     SAppendBlock, SWriteFile, SWriteList, SDeleteFile, SRename, SMark, SCrash, SHarm
     DEF Next, Step

\* Adding, updating, deleting and renaming files in any order, the program
\* killed anywhere, the directory in memory is sound: no two files share a
\* descriptor, and none has one that is still to be handed out.
THEOREM MemoryIsSound == Spec => []AllocationIsSound
<1>1. Init => TInv /\ SInv
  BY TInit, SInit
<1>2. TInv /\ SInv /\ [Next]_vars => TInv' /\ SInv'
  BY TNext, SNext
<1>3. SInv => AllocationIsSound
  BY DEF SInv, AllocationIsSound
<1>4. QED
  BY <1>1, <1>2, <1>3, PTL DEF Spec

\* So is the directory on disk, the one a restart goes by, unless an update
\* has linked new descriptors and not written the directory yet.
THEOREM DiskStaysSound == Spec => []DiskIsSound
<1>1. Init => TInv /\ SInv
  BY TInit, SInit
<1>2. TInv /\ SInv /\ [Next]_vars => TInv' /\ SInv'
  BY TNext, SNext
<1>3. SInv => DiskIsSound
  BY DEF SInv, DiskIsSound
<1>4. QED
  BY <1>1, <1>2, <1>3, PTL DEF Spec

------------------------------------------------------------------------------
(***************************************************************************)
(* What the files hold.                                                    *)
(***************************************************************************)
\* Sector s holds part m of what write operation id wrote.
At(f, s, id, m) == f[s] \in Block /\ f[s].data = <<id, m>>

\* Image f has, from sector h on, a file of size sz as operation id wrote it: its
\* parts are nowhere but in its chain, in their order, and the chain ends with the
\* last of them.  Nothing is said of the
\* order in which a walk meets them, so that a step needs to look at one link.
Kept(f, h, id, sz) ==
  /\ f[h] \in Block /\ FileSize(f[h]) = sz
  /\ BlocksOf(sz) > 0 => At(f, h, id, 0)
  /\ \A s \in FileSectors, m \in Nat :
       At(f, s, id, m) =>
         IF m = 0 THEN s = h
         ELSE \E q \in FileSectors : At(f, q, id, m - 1) /\ f[q].next_descriptor = s
  /\ \A s \in FileSectors, m \in Nat :
       At(f, s, id, m) /\ m + 1 < BlocksOf(sz) =>
         f[s].next_descriptor \in FileSectors /\ At(f, f[s].next_descriptor, id, m + 1)
  /\ \A s \in FileSectors, m \in Nat :
       At(f, s, id, m) /\ m + 1 = BlocksOf(sz) => f[s].next_descriptor = 0

Written == Used(init) \ Unwritten
HeadOf(j) == init.entries[j].sector

\* What the history says of entry j is there, on disk and in memory.
FileInv(j) ==
  /\ init # NoListing /\ j \in DOMAIN init.entries
  /\ listing # NoListing => /\ j \in DOMAIN listing.entries
                            /\ listing.entries[j].sector = HeadOf(j)
  /\ Kept(fs, HeadOf(j), stored[j].id, stored[j].size)
  /\ \A s \in FileSectors, m \in Nat :
       At(fs, s, stored[j].id, m) =>
         s \in Written /\ (listing # NoListing => s < listing.next_free_sector)
  /\ stored[j].id <= issued
  /\ op \in {"add", "update"} => stored[j].id # issued

StoredInv ==
  /\ \A j \in Entries : stored[j] # Unknown => FileInv(j)
  /\ \A i, j \in Entries :
       i # j /\ stored[i] # Unknown /\ stored[j] # Unknown => stored[i].id # stored[j].id

\* Sector s holds the part written last.
Last(s) == At(fs, s, issued, k - 1)

\* The part written last, or the first descriptor in memory, points to x.
TailAt(x) ==
  IF k = 1 THEN file_init.next_descriptor = x
  ELSE /\ \E s \in FileSectors : Last(s)
       /\ \A s \in FileSectors : Last(s) => fs[s].next_descriptor = x

\* Of the k parts that the file being written has so far the first is in file_init
\* and the others are in the image, each where the one before it points.
Parts ==
  /\ k >= 1 /\ (k = 1 \/ (k - 1) * BLOCK < size)
  /\ \A s \in FileSectors, m \in Nat :
       At(fs, s, issued, m) =>
         /\ 1 <= m /\ m < k
         /\ IF m = 1 THEN s = file_init.next_descriptor
            ELSE \E q \in FileSectors : At(fs, q, issued, m - 1) /\ fs[q].next_descriptor = s
  /\ k >= 2 => /\ file_init.next_descriptor \in FileSectors
               /\ At(fs, file_init.next_descriptor, issued, 1)
  /\ \A s \in FileSectors, m \in Nat :
       At(fs, s, issued, m) /\ m + 1 < k =>
         fs[s].next_descriptor \in FileSectors /\ At(fs, fs[s].next_descriptor, issued, m + 1)

\* What is left to write goes where the last part points, or will point.
Building ==
  /\ Parts
  /\ pc = "file" => k * BLOCK >= size /\ (size > 0 => TailAt(0))
  /\ pc = "append" => TailAt(sector)
  /\ pc = "overwrite" /\ k * BLOCK < size => TailAt(next_descriptor)
  /\ pc = "link" /\ k * BLOCK < size =>
       /\ next_descriptor # 0 /\ k >= 2 /\ Last(next_descriptor)
       /\ \A s \in FileSectors : Last(s) => s = next_descriptor

\* The first part; an update to nothing leaves the old one.
FirstPart ==
  IF size = 0 /\ op = "update"
  THEN fs[HeadOf(index)] \in Block /\ file_init.data = fs[HeadOf(index)].data
  ELSE file_init.data = <<issued, 0>>

\* The descriptor to be overwritten is the next one of the first, of the one
\* written last, or of one that has been cleared.
CursorInv ==
  \E p \in Used(init) :
    /\ fs[p] \in Block /\ fs[p].next_descriptor = next_descriptor
    /\ \/ k = 1 /\ p = HeadOf(index)
       \/ k >= 2 /\ Last(p)
       \/ p \notin Heads(init) /\ At(fs, p, 0, 0)

WritingInv ==
  op \in {"add", "update"} =>
    /\ stored[index] = Unknown
    /\ \A s \in FileSectors, m \in Nat : At(fs, s, issued, m) => s \in Written
    /\ pc = "overwrite" => ~misfit /\ CursorInv
    /\ pc = "link" /\ next_descriptor # 0 /\ k * BLOCK < size => ~misfit
    /\ pc # "list" => FirstPart /\ (~misfit => Building)
    /\ pc = "list" /\ ~misfit => Kept(fs, HeadOf(index), issued, size)

\* Nothing on disk or in a buffer is newer than the last operation.
Fresh ==
  /\ \A s \in FileSectors : fs[s] \in Block => fs[s].data[1] <= issued
  /\ file_init.data[1] <= issued /\ file_desc.data[1] <= issued

DInv ==
  /\ Fresh
  /\ damage = {} => /\ init = NoListing => listing = NoListing
                    /\ StoredInv /\ WritingInv

------------------------------------------------------------------------------
(***************************************************************************)
(* Induction, as a fact about sets of numbers.                             *)
(***************************************************************************)
\* The order of the naturals as the library's theorems take it.
Below == {p \in Nat \X Nat : p[1] < p[2]}

\* It has no endless descent.
LEMMA BelowIsWellFounded == IsWellFoundedOn(Below, Nat)
  BY NatLessThanWellFounded DEF OpToRel, Below

\* A set of naturals has a least one.
LEMMA LeastNumber ==
  ASSUME NEW T, T \subseteq Nat, T # {}
  PROVE  \E x \in T : \A y \in T : x <= y
<1>1. PICK x \in T : \A y \in T : <<y, x>> \notin Below
  BY BelowIsWellFounded, WFMin
<1>2. ASSUME NEW y \in T PROVE x <= y
  <2>1. x \in Nat /\ y \in Nat
    OBVIOUS
  <2>2. y < x => <<y, x>> \in Below
    BY <2>1 DEF Below
  <2>3. QED
    BY <1>1, <2>1, <2>2
<1>3. QED
  BY <1>2

\* What holds of 0 and with n of n + 1, below a bound, holds of all below it.
LEMMA Induction ==
  ASSUME NEW S, NEW b \in Nat, b > 0 => 0 \in S,
         \A n \in Nat : n \in S /\ n + 1 < b => n + 1 \in S
  PROVE  \A n \in Nat : n < b => n \in S
<1> DEFINE T == {n \in Nat : n < b /\ n \notin S}
<1>1. SUFFICES ASSUME T # {} PROVE FALSE
  OBVIOUS
<1>2. PICK x \in T : \A y \in T : x <= y
  <2> HIDE DEF T
  <2>1. T \subseteq Nat
    BY DEF T
  <2>2. QED
    BY <1>1, <2>1, LeastNumber
<1>3. x # 0 /\ x - 1 \in Nat /\ ~(x <= x - 1)
  OBVIOUS
<1>4. x - 1 \in S
  BY <1>2, <1>3
<1>5. QED
  BY <1>3, <1>4

------------------------------------------------------------------------------
(***************************************************************************)
(* Reading.                                                                *)
(***************************************************************************)
\* The copies of the first n + 1 descriptors of a chain.
Walk(f, s, n) == f = [m \in 0..n |-> IF m = 0 THEN fs[s] ELSE NextCopy(f[m - 1])]

\* There is one of every length.
LEMMA WalkExists ==
  ASSUME NEW s, NEW n \in Nat
  PROVE  \E f : Walk(f, s, n)
<1> DEFINE S == {j \in Nat : \E f : Walk(f, s, j)}
<1>1. 0 \in S
  <2>1. Walk([m \in 0..0 |-> fs[s]], s, 0)
    BY DEF Walk
  <2>2. QED
    BY <2>1
<1>2. ASSUME NEW j \in Nat, j \in S PROVE j + 1 \in S
  <2>1. PICK f : Walk(f, s, j)
    BY <1>2
  <2> DEFINE g == [m \in 0..(j + 1) |-> IF m = j + 1 THEN NextCopy(f[j]) ELSE f[m]]
  <2>2. \A m \in 0..j : f[m] = IF m = 0 THEN fs[s] ELSE NextCopy(f[m - 1])
    BY <2>1 DEF Walk
  <2>3. j \in Nat
    OBVIOUS
  <2>4. \A m \in 0..(j + 1) : g[m] = IF m = 0 THEN fs[s] ELSE NextCopy(g[m - 1])
    BY <2>2, <2>3
  <2>5. g = [m \in 0..(j + 1) |-> g[m]]
    OBVIOUS
  <2>6. Walk(g, s, j + 1)
    <3> DEFINE r == [m \in 0..(j + 1) |-> IF m = 0 THEN fs[s] ELSE NextCopy(g[m - 1])]
    <3> HIDE DEF g
    <3>1. \A m \in 0..(j + 1) : g[m] = r[m]
      BY <2>4
    <3>2. g = r
      BY <2>5, <3>1
    <3>3. QED
      BY <3>2 DEF Walk
  <2>7. QED
    BY <2>3, <2>6
<1> HIDE DEF S
<1>3. \A m \in Nat : m < n + 1 => m \in S
  BY <1>1, <1>2, Induction
<1>4. QED
  BY <1>3 DEF S

\* Two walks from one sector copy the same.
LEMMA WalksAgree ==
  ASSUME NEW s, NEW n \in Nat, NEW i \in Nat, n <= i, NEW f, NEW g, Walk(f, s, n), Walk(g, s, i)
  PROVE  \A m \in 0..n : f[m] = g[m]
<1> DEFINE S == {m \in Nat : m <= n => f[m] = g[m]}
<1>1. \A m \in 0..n : f[m] = IF m = 0 THEN fs[s] ELSE NextCopy(f[m - 1])
  BY DEF Walk
<1>2. \A m \in 0..i : g[m] = IF m = 0 THEN fs[s] ELSE NextCopy(g[m - 1])
  BY DEF Walk
<1>3. 0 \in S
  BY <1>1, <1>2
<1>4. ASSUME NEW j \in Nat, j \in S PROVE j + 1 \in S
  <2>1. SUFFICES ASSUME j + 1 <= n PROVE f[j + 1] = g[j + 1]
    OBVIOUS
  <2>2. f[j] = g[j]
    BY <1>4, <2>1
  <2>3. j + 1 \in 0..n /\ j + 1 \in 0..i /\ j + 1 # 0 /\ (j + 1) - 1 = j
    BY <2>1
  <2>4. QED
    BY <1>1, <1>2, <2>2, <2>3
<1> HIDE DEF S
<1>5. \A m \in Nat : m < n + 1 => m \in S
  BY <1>3, <1>4, Induction
<1>6. QED
  BY <1>5 DEF S

\* Copied is the end of the walk.
LEMMA CopiedWalks ==
  ASSUME NEW s, NEW n \in Nat, NEW f, Walk(f, s, n)
  PROVE  Copied(s, n) = f[n]
<1> DEFINE w == CHOOSE g : g = [m \in 0..n |-> IF m = 0 THEN fs[s] ELSE NextCopy(g[m - 1])]
<1>1. Copied(s, n) = w[n]
  BY DEF Copied
<1>2. Walk(w, s, n)
  BY DEF Walk
<1> HIDE DEF w
<1>3. QED
  BY <1>1, <1>2, WalksAgree

\* Reading goes from a descriptor to the next.
LEMMA CopiedStep ==
  ASSUME NEW s, NEW n \in Nat
  PROVE  /\ Copied(s, 0) = fs[s]
         /\ Copied(s, n + 1) = NextCopy(Copied(s, n))
<1>1. PICK f : Walk(f, s, 0)
  BY WalkExists
<1>2. Copied(s, 0) = f[0] /\ f[0] = fs[s]
  <2>1. Copied(s, 0) = f[0]
    BY <1>1, CopiedWalks
  <2>2. f = [m \in 0..0 |-> IF m = 0 THEN fs[s] ELSE NextCopy(f[m - 1])] /\ 0 \in 0..0
    BY <1>1 DEF Walk
  <2>3. QED
    BY <2>1, <2>2
<1>3. PICK g : Walk(g, s, n)
  BY WalkExists
<1>4. PICK h : Walk(h, s, n + 1)
  BY WalkExists
<1>5. Copied(s, n) = g[n] /\ Copied(s, n + 1) = h[n + 1]
  BY <1>3, <1>4, CopiedWalks
<1>6. g[n] = h[n]
  BY <1>3, <1>4, WalksAgree
<1>7. h[n + 1] = NextCopy(h[n])
  <2>1. n + 1 \in 0..(n + 1) /\ n + 1 # 0 /\ (n + 1) - 1 = n
    OBVIOUS
  <2>2. h = [m \in 0..(n + 1) |-> IF m = 0 THEN fs[s] ELSE NextCopy(h[m - 1])]
    BY <1>4 DEF Walk
  <2>3. QED
    BY <2>1, <2>2
<1>8. QED
  BY <1>2, <1>5, <1>6, <1>7

\* Behind the last descriptor nothing more is copied.
LEMMA CopiedEnds ==
  ASSUME NEW s, NEW n \in Nat, NEW i \in Nat, n <= i, Copied(s, n) = Nothing
  PROVE  Copied(s, i) = Nothing
<1> DEFINE S == {m \in Nat : Copied(s, n + m) = Nothing}
<1>1. 0 \in S
  OBVIOUS
<1>2. ASSUME NEW m \in Nat, m \in S PROVE m + 1 \in S
  <2>1. n + m \in Nat /\ n + (m + 1) = (n + m) + 1
    OBVIOUS
  <2>2. Copied(s, n + (m + 1)) = NextCopy(Nothing)
    BY <1>2, <2>1, CopiedStep
  <2>3. QED
    BY <2>2 DEF NextCopy
<1> HIDE DEF S
<1>3. \A m \in Nat : m < i + 1 => m \in S
  BY <1>1, <1>2, Induction
<1>4. i - n \in Nat /\ i - n < i + 1 /\ n + (i - n) = i
  OBVIOUS
<1>5. i - n \in S
  BY <1>3, <1>4
<1>6. QED
  BY <1>4, <1>5 DEF S

\* Where a written sector is linked, it is copied.
LEMMA CopiedNext ==
  ASSUME NEW s, NEW n \in Nat, NEW q \in FileSectors, fs[q] \in Block, Copied(s, n) = fs[q]
  PROVE  /\ fs[q].next_descriptor = 0 => Copied(s, n + 1) = Nothing
         /\ fs[q].next_descriptor \in FileSectors /\ fs[fs[q].next_descriptor] \in Block =>
              Copied(s, n + 1) = fs[fs[q].next_descriptor]
<1>1. Copied(s, n + 1) = NextCopy(fs[q]) /\ fs[q] # Nothing
  BY CopiedStep, FilingAssumption
<1>2. 0 \notin FileSectors
  BY SectorsAreNumbers
<1>3. QED
  BY <1>1, <1>2, ReadWritten DEF NextCopy

\* The parts of a file that an image has are copied in their order.
LEMMA KeptCopied ==
  ASSUME NEW h \in FileSectors, NEW id, NEW sz \in Nat, Kept(fs, h, id, sz)
  PROVE  \A m \in Nat : m < BlocksOf(sz) =>
           \E q \in FileSectors : At(fs, q, id, m) /\ Copied(h, m) = fs[q]
<1> DEFINE n == BlocksOf(sz)
           S == {m \in Nat : \E q \in FileSectors : At(fs, q, id, m) /\ Copied(h, m) = fs[q]}
<1>1. n \in Nat
  BY SizesTyped
<1>2. Copied(h, 0) = fs[h]
  BY CopiedStep
<1>3. n > 0 => 0 \in S
  BY <1>2 DEF Kept
<1>4. ASSUME NEW m \in Nat, m \in S, m + 1 < n PROVE m + 1 \in S
  <2>1. PICK q \in FileSectors : At(fs, q, id, m) /\ Copied(h, m) = fs[q]
    BY <1>4
  <2>2. fs[q].next_descriptor \in FileSectors /\ At(fs, fs[q].next_descriptor, id, m + 1)
    BY <1>4, <2>1 DEF Kept
  <2>3. Copied(h, m + 1) = fs[fs[q].next_descriptor]
    BY <2>1, <2>2, CopiedNext DEF At
  <2>4. QED
    BY <2>2, <2>3
<1> HIDE DEF n, S
<1>5. \A m \in Nat : m < n => m \in S
  BY <1>1, <1>3, <1>4, Induction
<1>6. QED
  BY <1>5 DEF n, S

\* A file that an image has reads back.
LEMMA KeptHolds ==
  ASSUME NEW h \in FileSectors, NEW id, NEW sz \in Nat, Kept(fs, h, id, sz)
  PROVE  Holds(h, id, sz)
<1>1. ASSUME NEW m \in 0..(BlocksOf(sz) - 1)
      PROVE  Copied(h, m) # Nothing /\ Copied(h, m).data = <<id, m>>
  <2>1. m \in Nat /\ m < BlocksOf(sz)
    BY SizesTyped
  <2>2. PICK q \in FileSectors : At(fs, q, id, m) /\ Copied(h, m) = fs[q]
    BY <2>1, KeptCopied
  <2>3. QED
    BY <2>2, FilingAssumption DEF At
<1>2. fs[h] # Nothing /\ FileSize(fs[h]) = sz
  BY FilingAssumption DEF Kept
<1>3. QED
  BY <1>1, <1>2 DEF Holds

\* Reading it copies its parts and no more, for which the buffer has room.
LEMMA KeptFits ==
  ASSUME NEW h \in FileSectors, NEW id, NEW sz \in Nat, Kept(fs, h, id, sz)
  PROVE  FitsBuffer(h)
<1> DEFINE n == BlocksOf(sz)
           r == fs[h].size_in_sectors \div 2
<1>1. fs[h] \in Block /\ FileSize(fs[h]) = sz
  BY DEF Kept
<1>2. SUFFICES ASSUME sz # 0 PROVE Copied(h, r) = Nothing
  BY <1>1 DEF FitsBuffer
<1>3. n \in Nat /\ n >= 1
  <2>1. n \in Nat
    BY SizesTyped
  <2>2. 0 * BLOCK < sz
    BY <1>2, FilingAssumption
  <2>3. 0 + 1 <= n
    BY <2>2, MoreBlocks
  <2>4. QED
    BY <2>1, <2>3
<1>4. r \in Nat /\ n <= r
  <2>1. r \in Nat /\ fs[h].bytes_unused_last_kb \in Nat /\ BLOCK \in Nat
    BY <1>1, DivMod, FilingAssumption DEF Block
  <2>2. r * BLOCK - fs[h].bytes_unused_last_kb = sz
    BY <1>1 DEF FileSize
  <2> HIDE DEF r
  <2>3. r * BLOCK >= sz
    <3>1. r * BLOCK \in Nat
      BY <2>1
    <3>2. QED
      BY <2>1, <2>2, <3>1
  <2>4. QED
    BY <2>1, <2>3, NoMoreBlocks
<1> HIDE DEF n, r
<1>5. PICK q \in FileSectors : At(fs, q, id, n - 1) /\ Copied(h, n - 1) = fs[q]
  <2>1. n - 1 \in Nat /\ n - 1 < n
    BY <1>3
  <2>2. QED
    BY <2>1, KeptCopied DEF n
<1>6. fs[q].next_descriptor = 0 /\ fs[q] \in Block
  <2>1. n - 1 \in Nat /\ (n - 1) + 1 = n
    BY <1>3
  <2>2. QED
    BY <1>5, <2>1 DEF Kept, At, n
<1>7. Copied(h, n) = Nothing
  <2>1. n - 1 \in Nat /\ (n - 1) + 1 = n
    BY <1>3
  <2>2. Copied(h, (n - 1) + 1) = Nothing
    BY <1>5, <1>6, <2>1, CopiedNext
  <2>3. QED
    BY <2>1, <2>2
<1>8. QED
  BY <1>3, <1>4, <1>7, CopiedEnds

------------------------------------------------------------------------------
(***************************************************************************)
(* Writing one descriptor.                                                 *)
(***************************************************************************)
\* What a write of other data leaves where it was.
LEMMA AtElsewhere ==
  ASSUME NEW f \in Images, NEW x \in FileSectors, NEW b \in Block, NEW id,
         \A m \in Nat : ~At(f, x, id, m), \A m \in Nat : b.data # <<id, m>>
  PROVE  \A s \in FileSectors, m \in Nat :
           /\ At([f EXCEPT ![x] = b], s, id, m) <=> At(f, s, id, m)
           /\ At(f, s, id, m) => s # x /\ [f EXCEPT ![x] = b][s] = f[s]
<1> DEFINE g == [f EXCEPT ![x] = b]
<1>1. g[x] = b /\ \A s \in FileSectors : s # x => g[s] = f[s]
  BY DEF Images
<1> HIDE DEF g
<1>2. \A s \in FileSectors, m \in Nat :
        /\ At(g, s, id, m) <=> At(f, s, id, m)
        /\ At(f, s, id, m) => s # x /\ g[s] = f[s]
  BY <1>1 DEF At
<1>3. QED
  BY <1>2 DEF g

\* A descriptor that gets the data it has.
LEMMA AtSame ==
  ASSUME NEW f \in Images, NEW x \in FileSectors, NEW b \in Block, NEW id,
         f[x] \in Block, b.data = f[x].data
  PROVE  \A s \in FileSectors, m \in Nat :
           At([f EXCEPT ![x] = b], s, id, m) <=> At(f, s, id, m)
<1> DEFINE g == [f EXCEPT ![x] = b]
<1>1. g[x] = b /\ \A s \in FileSectors : s # x => g[s] = f[s]
  BY DEF Images
<1> HIDE DEF g
<1>2. \A s \in FileSectors, m \in Nat : At(g, s, id, m) <=> At(f, s, id, m)
  BY <1>1 DEF At
<1>3. QED
  BY <1>2 DEF g

\* A file is kept when what is written holds none of it, before and after.
LEMMA KeptElsewhere ==
  ASSUME NEW f \in Images, NEW x \in FileSectors, NEW b \in Block,
         NEW h \in FileSectors, NEW id, NEW sz, Kept(f, h, id, sz), x # h,
         \A m \in Nat : ~At(f, x, id, m), \A m \in Nat : b.data # <<id, m>>
  PROVE  Kept([f EXCEPT ![x] = b], h, id, sz)
<1> DEFINE g == [f EXCEPT ![x] = b]
<1>1. /\ \A s \in FileSectors, m \in Nat : At(g, s, id, m) <=> At(f, s, id, m)
      /\ \A s \in FileSectors, m \in Nat : At(f, s, id, m) => g[s] = f[s]
  BY AtElsewhere
<1>2. g[h] = f[h]
  BY DEF Images
<1> HIDE DEF g
<1>3. g[h] \in Block /\ FileSize(g[h]) = sz /\ (BlocksOf(sz) > 0 => At(g, h, id, 0))
  BY <1>1, <1>2 DEF Kept
<1>4. ASSUME NEW s \in FileSectors, NEW m \in Nat, At(g, s, id, m)
      PROVE  IF m = 0 THEN s = h
             ELSE \E q \in FileSectors : At(g, q, id, m - 1) /\ g[q].next_descriptor = s
  <2>1. CASE m = 0
    BY <1>1, <1>4, <2>1 DEF Kept
  <2>2. CASE m # 0
    <3>1. m - 1 \in Nat
      BY <2>2
    <3>2. PICK q \in FileSectors : At(f, q, id, m - 1) /\ f[q].next_descriptor = s
      BY <1>1, <1>4, <2>2 DEF Kept
    <3>3. QED
      BY <1>1, <2>2, <3>1, <3>2
  <2>3. QED
    BY <2>1, <2>2
<1>5. ASSUME NEW s \in FileSectors, NEW m \in Nat, At(g, s, id, m), m + 1 < BlocksOf(sz)
      PROVE  g[s].next_descriptor \in FileSectors /\ At(g, g[s].next_descriptor, id, m + 1)
  <2>1. f[s].next_descriptor \in FileSectors /\ At(f, f[s].next_descriptor, id, m + 1)
    BY <1>1, <1>5 DEF Kept
  <2>2. QED
    BY <1>1, <1>5, <2>1
<1>6. \A s \in FileSectors, m \in Nat :
        At(g, s, id, m) /\ m + 1 = BlocksOf(sz) => g[s].next_descriptor = 0
  BY <1>1 DEF Kept
<1>7. Kept(g, h, id, sz)
  BY <1>3, <1>4, <1>5, <1>6 DEF Kept
<1>8. QED
  BY <1>7 DEF g

\* So is every file when a descriptor keeps its data, sizes and link.
LEMMA KeptSame ==
  ASSUME NEW f \in Images, NEW x \in FileSectors, NEW b \in Block,
         NEW h \in FileSectors, NEW id, NEW sz, Kept(f, h, id, sz),
         f[x] \in Block, b.data = f[x].data, FileSize(b) = FileSize(f[x]),
         b.next_descriptor = f[x].next_descriptor
  PROVE  Kept([f EXCEPT ![x] = b], h, id, sz)
<1> DEFINE g == [f EXCEPT ![x] = b]
<1>1. \A s \in FileSectors, m \in Nat : At(g, s, id, m) <=> At(f, s, id, m)
  BY AtSame
<1>2. g[x] = b /\ \A s \in FileSectors : s # x => g[s] = f[s]
  BY DEF Images
<1> HIDE DEF g
<1>3. \A s \in FileSectors : g[s].next_descriptor = f[s].next_descriptor
  BY <1>2
<1>4. g[h] \in Block /\ FileSize(g[h]) = sz /\ (BlocksOf(sz) > 0 => At(g, h, id, 0))
  BY <1>1, <1>2 DEF Kept
<1>5. 0 \notin FileSectors
  BY SectorsAreNumbers
<1>6. ASSUME NEW s \in FileSectors, NEW m \in Nat, At(g, s, id, m)
      PROVE  IF m = 0 THEN s = h
             ELSE \E q \in FileSectors : At(g, q, id, m - 1) /\ g[q].next_descriptor = s
  <2>1. CASE m = 0
    BY <1>1, <1>6, <2>1 DEF Kept
  <2>2. CASE m # 0
    <3>1. m - 1 \in Nat
      BY <2>2
    <3>2. PICK q \in FileSectors : At(f, q, id, m - 1) /\ f[q].next_descriptor = s
      BY <1>1, <1>6, <2>2 DEF Kept
    <3>3. g[q].next_descriptor = s
      BY <1>3, <1>5, <3>2
    <3>4. QED
      BY <1>1, <2>2, <3>1, <3>2, <3>3
  <2>3. QED
    BY <2>1, <2>2
<1>7. ASSUME NEW s \in FileSectors, NEW m \in Nat, At(g, s, id, m), m + 1 < BlocksOf(sz)
      PROVE  g[s].next_descriptor \in FileSectors /\ At(g, g[s].next_descriptor, id, m + 1)
  <2>1. f[s].next_descriptor \in FileSectors /\ At(f, f[s].next_descriptor, id, m + 1)
    BY <1>1, <1>7 DEF Kept
  <2>2. g[s].next_descriptor = f[s].next_descriptor
    BY <1>3, <1>5, <2>1
  <2>3. QED
    BY <1>1, <2>1, <2>2
<1>8. \A s \in FileSectors, m \in Nat :
        At(g, s, id, m) /\ m + 1 = BlocksOf(sz) => g[s].next_descriptor = 0
  BY <1>1, <1>3 DEF Kept
<1>9. Kept(g, h, id, sz)
  BY <1>4, <1>6, <1>7, <1>8 DEF Kept
<1>10. QED
  BY <1>9 DEF g

------------------------------------------------------------------------------
(***************************************************************************)
(* Nothing is newer than the last operation.                               *)
(***************************************************************************)
\* Data are a pair of numbers.
LEMMA DataTyped ==
  ASSUME NEW b \in Block
  PROVE  /\ b.data[1] \in Nat /\ \A id, m : b.data = <<id, m>> => b.data[1] = id
  BY FilingAssumption DEF Block, Contents

\* What is read is no newer than what was written, or what the buffer held.
LEMMA ReadFresh ==
  ASSUME TInv, Fresh, NEW s \in FileSectors, NEW b \in Block, b.data[1] <= issued
  PROVE  Read(s, b) \in Block /\ Read(s, b).data[1] <= issued
<1>1. issued \in Nat /\ ZeroBlock.data[1] = 0
  BY FilingAssumption DEF TInv, TypeOK, ZeroBlock
<1>2. fs[s] # Nothing => fs[s] \in Block
  BY DEF TInv, TypeOK
<1>3. Read(s, b) \in Block
  BY ReadTyped DEF TInv
<1>4. QED
  BY <1>1, <1>2, <1>3 DEF Read, Fresh

\* An operation that leaves the image and takes no new number.
LEMMA FreshKept ==
  ASSUME TInv, Fresh, fs' = fs, issued' = issued,
         file_init' = file_init \/ file_init' = ZeroBlock,
         file_desc' = file_desc \/ file_desc' = ZeroBlock
  PROVE  Fresh'
<1>1. issued \in Nat /\ ZeroBlock.data[1] = 0
  BY FilingAssumption DEF TInv, TypeOK, ZeroBlock
<1>2. QED
  BY <1>1 DEF Fresh

\* One that writes a descriptor no newer.
LEMMA FreshWrite ==
  ASSUME TInv, Fresh, NEW x \in FileSectors, NEW b \in Block, fs' = [fs EXCEPT ![x] = b],
         b.data[1] <= issued, issued' = issued,
         file_init' = file_init \/ file_init' = ZeroBlock,
         file_desc' = file_desc \/ file_desc' = ZeroBlock \/ file_desc' = b
  PROVE  Fresh'
<1>1. issued \in Nat /\ ZeroBlock.data[1] = 0
  BY FilingAssumption DEF TInv, TypeOK, ZeroBlock
<1>2. \A s \in FileSectors : fs'[s] = IF s = x THEN b ELSE fs[s]
  BY DEF TInv, TypeOK
<1>3. \A s \in FileSectors : fs'[s] \in Block => fs'[s].data[1] <= issued
  BY <1>2 DEF Fresh
<1>4. QED
  BY <1>1, <1>3 DEF Fresh

\* The start of an operation takes a new one.
LEMMA FreshStart ==
  ASSUME TInv, Fresh, fs' = fs, issued' = issued + 1, file_desc' = file_desc,
         file_init'.data[1] <= issued + 1
  PROVE  Fresh'
<1>1. issued \in Nat /\ file_desc \in Block
  BY FilingAssumption DEF TInv, TypeOK
<1>2. file_desc.data[1] \in Nat
  BY <1>1, DataTyped
<1>3. \A s \in FileSectors : fs[s] \in Block => fs[s].data[1] \in Nat
  BY DataTyped
<1>4. QED
  BY <1>1, <1>2, <1>3 DEF Fresh

\* A new file's first descriptor has the new number.
LEMMA FreshNewFile ==
  ASSUME TInv, Fresh, NEW i, NEW list, NEW sz, NewFile(i, list, sz), issued' = issued + 1
  PROVE  Fresh'
<1>1. file_init'.data = <<issued', 0>>
  BY DEF NewFile, ZeroBlock
<1>2. issued \in Nat
  BY FilingAssumption DEF TInv, TypeOK
<1>3. file_init'.data[1] <= issued + 1
  BY <1>1, <1>2
<1>4. QED
  BY <1>3, FreshStart DEF NewFile

\* So has that of an update, or it is the old one.
LEMMA FreshUpdateFile ==
  ASSUME TInv, Fresh, NEW n \in Names, NEW sz \in Sizes, UpdateFile(n, sz)
  PROVE  Fresh'
<1>1. PICK i \in Entries :
        /\ Start /\ FoundAt(n, i)
        /\ file_init' = IF sz = 0 THEN Read(init.entries[i].sector, ZeroBlock)
                        ELSE [Read(init.entries[i].sector, ZeroBlock) EXCEPT !.data = <<issued', 0>>]
        /\ fs' = fs /\ file_desc' = file_desc
  BY DEF UpdateFile, image
<1>2. /\ issued' = issued + 1 /\ issued \in Nat
      /\ i \in DOMAIN init.entries /\ init \in Listing
  BY <1>1, FilingAssumption DEF Start, AtMenu, FoundAt, TInv, TypeOK
<1>3. init.entries[i].sector \in FileSectors
  BY <1>2, EntryTyped
<1>4. ZeroBlock \in Block /\ ZeroBlock.data[1] <= issued
  BY <1>2, ZerosTyped DEF ZeroBlock
<1>5. /\ Read(init.entries[i].sector, ZeroBlock) \in Block
      /\ Read(init.entries[i].sector, ZeroBlock).data[1] <= issued
  BY <1>3, <1>4, ReadFresh
<1>6. Read(init.entries[i].sector, ZeroBlock).data[1] \in Nat
  BY <1>5, DataTyped
<1> HIDE DEF Read
<1>7. file_init'.data[1] <= issued + 1
  <2>1. CASE sz = 0
    BY <1>1, <1>2, <1>5, <1>6, <2>1
  <2>2. CASE sz # 0
    <3>1. file_init'.data = <<issued + 1, 0>>
      BY <1>1, <1>2, <1>5, <2>2 DEF Block
    <3>2. QED
      BY <1>2, <3>1
  <2>3. QED
    BY <2>1, <2>2
<1>8. QED
  BY <1>1, <1>2, <1>7, FreshStart

\* Writes have the number of the operation, or none, or the one that was there.
LEMMA FreshOverwrite == ASSUME TInv, TInv', Fresh, Overwrite PROVE Fresh'
<1> DEFINE old  == Read(next_descriptor, file_desc)
           left == k * BLOCK < size
           new  == [old EXCEPT !.data = IF left THEN <<issued, k>> ELSE <<0, 0>>,
                               !.usable = @ \/ ~left]
<1>1. /\ fs' = [fs EXCEPT ![next_descriptor] = new] /\ file_desc' = new
      /\ issued' = issued /\ file_init' = file_init
  BY DEF Overwrite
<1>2. next_descriptor \in FileSectors /\ file_desc \in Block /\ issued \in Nat
  BY FilingAssumption DEF TInv, TypeOK, Control, Overwrite, Links
<1>3. old \in Block
  BY <1>2, ReadTyped DEF TInv
<1>4. new.data = IF left THEN <<issued, k>> ELSE <<0, 0>>
  BY <1>3 DEF Block
<1> HIDE DEF old, left
<1>5. new.data[1] <= issued
  BY <1>2, <1>4
<1> HIDE DEF new
<1>6. new \in Block
  BY <1>1 DEF TInv, TypeOK
<1>7. QED
  BY <1>1, <1>2, <1>5, <1>6, FreshWrite

\* Linking.
LEMMA FreshLink == ASSUME TInv, TInv', Fresh, Link PROVE Fresh'
<1>1. issued' = issued /\ file_init' = file_init
  BY DEF Link
<1>2. CASE next_descriptor = 0
  BY <1>1, <1>2, FreshKept DEF Link
<1>3. CASE next_descriptor # 0
  <2>1. /\ file_desc' = [file_desc EXCEPT !.next_descriptor = sector]
        /\ fs' = [fs EXCEPT ![next_descriptor] = file_desc']
    BY <1>3 DEF Link
  <2>2. next_descriptor \in FileSectors /\ file_desc \in Block /\ file_desc' \in Block
    BY <1>3 DEF TInv, TypeOK, Links
  <2>3. file_desc'.data = file_desc.data
    BY <2>1, <2>2 DEF Block
  <2>4. file_desc'.data[1] <= issued
    BY <2>3 DEF Fresh
  <2>5. QED
    BY <1>1, <2>1, <2>2, <2>4, FreshWrite
<1>4. QED
  BY <1>2, <1>3

\* Appending.
LEMMA FreshAppendBlock == ASSUME TInv, TInv', Fresh, AppendBlock PROVE Fresh'
<1>1. /\ issued' = issued /\ file_init' = file_init
      /\ fs' = [fs EXCEPT ![sector] = file_desc'] /\ file_desc'.data = <<issued, k>>
  BY DEF AppendBlock, ZeroBlock
<1>2. file_desc' \in Block /\ issued \in Nat
  BY FilingAssumption DEF TInv, TypeOK
<1>3. file_desc'.data[1] <= issued
  BY <1>1, <1>2
<1>4. CASE sector \in FileSectors
  BY <1>1, <1>2, <1>3, <1>4, FreshWrite
<1>5. CASE sector \notin FileSectors
  <2>1. \A s \in FileSectors : fs'[s] = fs[s]
    BY <1>1, <1>5 DEF TInv, TypeOK
  <2>2. QED
    BY <1>1, <1>3, <2>1 DEF Fresh
<1>6. QED
  BY <1>4, <1>5

\* Writing the first descriptor.
LEMMA FreshWriteFile == ASSUME TInv, Fresh, WriteFile PROVE Fresh'
<1> DEFINE b == [file_init EXCEPT !.size_in_sectors = SizeInSectors(size),
                                  !.bytes_unused_last_kb = UnusedInLast(size)]
<1>1. /\ fs' = [fs EXCEPT ![init.entries[index].sector] = b]
      /\ issued' = issued /\ file_init' = file_init /\ file_desc' = file_desc
  BY DEF WriteFile, locals
<1>2. /\ file_init \in Block /\ size \in Nat
      /\ init \in Listing /\ index \in DOMAIN init.entries
  BY DEF TInv, TypeOK, Control, WriteFile
<1>3. b \in Block /\ b.data = file_init.data
  BY <1>2, SizesTyped DEF Block
<1>4. init.entries[index].sector \in FileSectors
  BY <1>2, EntryTyped
<1> HIDE DEF b
<1>5. QED
  BY <1>1, <1>3, <1>4, FreshWrite DEF Fresh

\* Marking.
LEMMA FreshMark == ASSUME TInv, Fresh, MarkFile \/ MarkNext PROVE Fresh'
<1> DEFINE s == IF pc = "markfile" THEN init.entries[index].sector ELSE next_descriptor
           b == IF pc = "markfile" THEN ZeroBlock ELSE file_desc
           new == [Read(s, b) EXCEPT !.deleted = TRUE]
<1>1. /\ pc \in {"markfile", "mark"} /\ fs' = [fs EXCEPT ![s] = new] /\ issued' = issued
      /\ file_init' = file_init \/ file_init' = ZeroBlock
      /\ file_desc' = file_desc \/ file_desc' = ZeroBlock \/ file_desc' = new
  BY DEF MarkFile, MarkNext, Finish
<1>2. /\ init \in Listing /\ index \in DOMAIN init.entries /\ issued \in Nat
      /\ pc = "mark" => next_descriptor \in FileSectors
      /\ file_desc \in Block
  BY <1>1, FilingAssumption DEF TInv, TypeOK, Control, Links
<1>3. s \in FileSectors /\ b \in Block /\ b.data[1] <= issued
  <2>1. ZeroBlock \in Block /\ ZeroBlock.data[1] <= issued
    BY <1>2, ZerosTyped DEF ZeroBlock
  <2>2. QED
    BY <1>1, <1>2, <2>1, EntryTyped DEF Fresh
<1> HIDE DEF s, b
<1>4. Read(s, b) \in Block /\ Read(s, b).data[1] <= issued
  BY <1>3, ReadFresh
<1>5. new \in Block /\ new.data = Read(s, b).data
  BY <1>4 DEF Block
<1>6. new.data[1] <= issued
  BY <1>4, <1>5
<1> HIDE DEF new
<1>7. QED
  BY <1>1, <1>3, <1>5, <1>6, FreshWrite

\* No step brings in anything newer.
LEMMA FreshNext == ASSUME TInv, Fresh, [Next]_vars PROVE Fresh'
<1>1. TInv'
  BY TNext
<1>2. CASE CreateFS
  BY <1>2, FreshKept DEF CreateFS, locals
<1>3. CASE \E n \in Names, b \in BOOLEAN, sz \in Sizes : AddFile(n, b, sz)
  BY <1>3, FreshNewFile DEF AddFile, Start
<1>4. CASE \E g \in Entries, sz \in Sizes : AddBeyond(g, sz)
  BY <1>4, FreshNewFile DEF AddBeyond, Start
<1>5. CASE \E n \in Names : DeleteFile(n)
  BY <1>5, FreshKept DEF DeleteFile
<1>6. CASE \E n \in Names : RenameMissing(n)
  BY <1>6, FreshKept DEF RenameMissing, Restart, Finish
<1>7. CASE \E n, m \in Names : Rename(n, m)
  BY <1>7, FreshKept DEF Rename, locals
<1>8. CASE WriteList
  BY <1>8, FreshKept DEF WriteList, Finish
<1>9. CASE Crash
  BY <1>9, FreshKept DEF Crash, Restart, Finish, image
<1>10. CASE UNCHANGED vars
  BY <1>10, FreshKept DEF vars, image, locals
<1>11. QED
  BY <1>1, <1>2, <1>3, <1>4, <1>5, <1>6, <1>7, <1>8, <1>9, <1>10, FreshUpdateFile,
     FreshOverwrite, FreshLink, FreshAppendBlock, FreshWriteFile, FreshMark
     DEF Next, Step

------------------------------------------------------------------------------
(***************************************************************************)
(* Files keep what they hold.                                              *)
(***************************************************************************)
\* What is stored has a number and a size.
LEMMA StoredTyped ==
  ASSUME TInv, NEW j \in Entries, stored[j] # Unknown
  PROVE  /\ stored[j].id \in Nat /\ stored[j].id >= 1 /\ stored[j].size \in Nat
         /\ issued \in Nat
  BY FilingAssumption DEF TInv, TypeOK

\* The first descriptors lie in the image.
LEMMA HeadTyped ==
  ASSUME TInv, init # NoListing, NEW i \in DOMAIN init.entries
  PROVE  HeadOf(i) \in FileSectors /\ HeadOf(i) \in Heads(init)
<1>1. init \in Listing
  BY DEF TInv, TypeOK
<1>2. QED
  BY <1>1, EntryTyped DEF HeadOf, Heads

\* No file's first descriptor holds a part of another file.
LEMMA HeadForeign ==
  ASSUME TInv, Sound(fs, init, Unwritten), init # NoListing,
         NEW i \in DOMAIN init.entries, NEW j \in Entries, FileInv(j), i # j
  PROVE  \A m \in Nat : ~At(fs, HeadOf(i), stored[j].id, m)
<1>1. SUFFICES ASSUME NEW m \in Nat, At(fs, HeadOf(i), stored[j].id, m) PROVE FALSE
  OBVIOUS
<1>2. /\ HeadOf(i) \in FileSectors /\ HeadOf(i) \in Heads(init) /\ j \in DOMAIN init.entries
      /\ Kept(fs, HeadOf(j), stored[j].id, stored[j].size)
  BY HeadTyped DEF FileInv
<1>3. HeadsFit(init) /\ LinksFit(fs, init, Unwritten)
  BY SoundParts
<1>4. CASE m = 0
  <2>1. HeadOf(i) = HeadOf(j)
    BY <1>1, <1>2, <1>4 DEF Kept
  <2>2. QED
    BY <1>2, <1>3, <2>1 DEF HeadsFit, HeadOf
<1>5. CASE m # 0
  <2>1. PICK q \in FileSectors : At(fs, q, stored[j].id, m - 1) /\ fs[q].next_descriptor = HeadOf(i)
    BY <1>1, <1>2, <1>5 DEF Kept
  <2>2. m - 1 \in Nat
    BY <1>5
  <2>3. q \in Written
    BY <2>1, <2>2 DEF FileInv
  <2>4. HeadOf(i) \in (Used(init) \ Heads(init)) \cup {0}
    BY <1>3, <2>1, <2>3 DEF LinksFit, Written
  <2>5. QED
    BY <1>2, <2>4, SectorsAreNumbers
<1>6. QED
  BY <1>4, <1>5

\* Two descriptors do not point to one.
LEMMA OnePointsTo ==
  ASSUME Sound(fs, init, Unwritten), NEW p \in Written, NEW q \in Written,
         NEW x \in FileSectors, fs[p].next_descriptor = x, fs[q].next_descriptor = x
  PROVE  p = q
<1>1. LinksDiffer(fs, init, Unwritten)
  BY SoundParts
<1>2. x # 0
  BY SectorsAreNumbers
<1>3. QED
  BY <1>1, <1>2 DEF LinksDiffer, Written

\* The descriptor an update is about to overwrite holds nothing of another file.
LEMMA CursorForeign ==
  ASSUME TInv, SInv, DInv, damage = {}, pc = "overwrite",
         NEW j \in Entries, stored[j] # Unknown
  PROVE  \A m \in Nat : ~At(fs, next_descriptor, stored[j].id, m)
<1> DEFINE x == next_descriptor
<1>1. SUFFICES ASSUME NEW m \in Nat, At(fs, x, stored[j].id, m) PROVE FALSE
  OBVIOUS
<1>2. /\ op = "update" /\ init # NoListing /\ index \in DOMAIN init.entries
      /\ index \in Entries
  BY DEF TInv, Control
<1>3. /\ Sound(fs, init, Unwritten) /\ Unwritten = {}
      /\ x \in Used(init) \ Heads(init)
  BY <1>2 DEF SInv, UpdateInv, Unwritten
<1>4. x \in FileSectors
  BY <1>3 DEF Used
<1>5. FileInv(j) /\ index # j /\ CursorInv
  BY <1>2 DEF DInv, StoredInv, WritingInv
<1>6. Kept(fs, HeadOf(j), stored[j].id, stored[j].size) /\ j \in DOMAIN init.entries
  BY <1>5 DEF FileInv
<1>7. stored[j].id >= 1 /\ stored[j].id # issued
  BY <1>2, <1>5, StoredTyped DEF FileInv
<1>8. CASE m = 0
  <2>1. x = HeadOf(j)
    BY <1>1, <1>4, <1>6, <1>8 DEF Kept
  <2>2. QED
    BY <1>2, <1>3, <1>6, <2>1, HeadTyped
<1>9. CASE m # 0
  <2>1. PICK q \in FileSectors : At(fs, q, stored[j].id, m - 1) /\ fs[q].next_descriptor = x
    BY <1>1, <1>4, <1>6, <1>9 DEF Kept
  <2>2. m - 1 \in Nat
    BY <1>9
  <2>3. q \in Written
    BY <1>5, <2>1, <2>2 DEF FileInv
  <2>4. PICK p \in Used(init) :
          /\ fs[p].next_descriptor = x
          /\ p = HeadOf(index) \/ Last(p) \/ At(fs, p, 0, 0)
    BY <1>5 DEF CursorInv
  <2>5. p \in Written
    BY <1>3 DEF Written
  <2>6. p = q
    BY <1>3, <1>4, <2>1, <2>3, <2>4, <2>5, OnePointsTo
  <2>7. CASE p = HeadOf(index)
    BY <1>2, <1>3, <1>5, <2>1, <2>2, <2>6, <2>7, HeadForeign
  <2>8. CASE Last(p)
    <3>1. fs[p].data = <<issued, k - 1>> /\ fs[p].data = <<stored[j].id, m - 1>>
      BY <2>1, <2>6, <2>8 DEF Last, At
    <3>2. QED
      BY <1>7, <3>1
  <2>9. CASE At(fs, p, 0, 0)
    <3>1. fs[p].data = <<0, 0>> /\ fs[p].data = <<stored[j].id, m - 1>>
      BY <2>1, <2>6, <2>9 DEF At
    <3>2. QED
      BY <1>7, <3>1
  <2>10. QED
    BY <2>4, <2>7, <2>8, <2>9
<1>10. QED
  BY <1>8, <1>9

\* Nor anything the update has written.
LEMMA CursorNew ==
  ASSUME TInv, SInv, DInv, damage = {}, pc = "overwrite"
  PROVE  \A m \in Nat : ~At(fs, next_descriptor, issued, m)
<1> DEFINE x == next_descriptor
<1>1. SUFFICES ASSUME NEW m \in Nat, At(fs, x, issued, m) PROVE FALSE
  OBVIOUS
<1>2. /\ op = "update" /\ init # NoListing /\ index \in DOMAIN init.entries
      /\ index \in Entries /\ issued >= 1 /\ issued \in Nat /\ k \in Nat
  BY FilingAssumption DEF TInv, TypeOK, Control
<1>3. /\ Sound(fs, init, Unwritten) /\ Unwritten = {}
      /\ x \in Used(init) \ Heads(init)
      /\ fs[HeadOf(index)].next_descriptor = file_init.next_descriptor
  BY <1>2 DEF SInv, UpdateInv, Unwritten, HeadOf
<1>4. x \in FileSectors /\ Written = Used(init)
  BY <1>3 DEF Used, Written
<1>5. Building /\ CursorInv /\ \A s \in FileSectors, j \in Nat : At(fs, s, issued, j) => s \in Written
  BY <1>2 DEF DInv, WritingInv
<1>6. HeadOf(index) \in FileSectors /\ HeadOf(index) \in Heads(init)
  BY <1>2, HeadTyped
<1>7. HeadOf(index) \in Used(init) /\ LinksFit(fs, init, {})
  BY <1>3, <1>6, SoundParts DEF HeadsFit
<1>8. 1 <= m /\ m < k
  BY <1>1, <1>4, <1>5 DEF Building, Parts
<1>9. PICK p \in Used(init) :
        /\ fs[p].next_descriptor = x
        /\ \/ k >= 2 /\ Last(p)
           \/ p \notin Heads(init) /\ At(fs, p, 0, 0)
  BY <1>2, <1>5, <1>8 DEF CursorInv
<1>10. PICK q \in Used(init) :
         /\ fs[q].next_descriptor = x
         /\ IF m = 1 THEN q = HeadOf(index) ELSE At(fs, q, issued, m - 1)
  <2>1. CASE m = 1
    BY <1>1, <1>3, <1>4, <1>5, <1>7, <2>1 DEF Building, Parts
  <2>2. CASE m # 1
    <3>1. PICK q \in FileSectors : At(fs, q, issued, m - 1) /\ fs[q].next_descriptor = x
      BY <1>1, <1>4, <1>5, <2>2 DEF Building, Parts
    <3>2. m - 1 \in Nat
      BY <1>8
    <3>3. QED
      BY <1>4, <1>5, <2>2, <3>1, <3>2
  <2>3. QED
    BY <2>1, <2>2
<1>11. p = q
  BY <1>3, <1>4, <1>9, <1>10, OnePointsTo
<1>12. CASE m = 1
  <2>1. p = HeadOf(index) /\ At(fs, p, issued, k - 1) /\ k - 1 \in Nat
    BY <1>2, <1>6, <1>8, <1>9, <1>10, <1>11, <1>12 DEF Last
  <2>2. CASE k - 1 = 1
    BY <1>3, <1>5, <1>6, <1>10, <1>11, <1>12, <2>1, <2>2 DEF Building, Parts
  <2>3. CASE k - 1 # 1
    <3>1. PICK r \in FileSectors : At(fs, r, issued, k - 1 - 1) /\ fs[r].next_descriptor = p
      BY <1>5, <1>6, <2>1, <2>3 DEF Building, Parts
    <3>2. k - 1 - 1 \in Nat
      BY <1>2, <1>8, <2>1, <2>3
    <3>3. r \in Used(init)
      BY <1>4, <1>5, <3>1, <3>2
    <3>4. QED
      BY <1>6, <1>7, <2>1, <3>1, <3>3, SectorsAreNumbers DEF LinksFit
  <2>4. QED
    BY <2>2, <2>3
<1>13. CASE m # 1
  <2>1. fs[p].data = <<issued, m - 1>>
    BY <1>10, <1>11, <1>13 DEF At
  <2>2. fs[p].data = <<issued, k - 1>> \/ fs[p].data = <<0, 0>>
    BY <1>9 DEF Last, At
  <2>3. QED
    BY <1>2, <1>8, <2>1, <2>2
<1>14. QED
  BY <1>12, <1>13

\* The directory keeps its entries where they are.
Extends(c, d) ==
  /\ c # NoListing /\ DOMAIN d.entries \subseteq DOMAIN c.entries
  /\ \A j \in DOMAIN d.entries : c.entries[j].sector = d.entries[j].sector

\* A step that changes nothing of the files that are stored.
LEMMA FilesStayStored ==
  ASSUME TInv, StoredInv, issued' \in Nat, issued <= issued',
         op' \in {"add", "update"} => (op' = op /\ issued' = issued) \/ issued' = issued + 1,
         init # NoListing => Extends(init', init) /\ Written \subseteq Written',
         listing' # NoListing =>
           /\ listing # NoListing /\ Extends(listing', listing)
           /\ listing'.next_free_sector = listing.next_free_sector,
         \A j \in Entries : stored'[j] = stored[j] \/ stored'[j] = Unknown,
         \A j \in Entries : stored[j] # Unknown /\ FileInv(j) /\ stored'[j] # Unknown =>
           /\ Kept(fs', HeadOf(j), stored[j].id, stored[j].size)
           /\ \A s \in FileSectors, m \in Nat :
                At(fs', s, stored[j].id, m) => At(fs, s, stored[j].id, m)
  PROVE  StoredInv'
<1>1. ASSUME NEW j \in Entries, stored'[j] # Unknown PROVE FileInv(j)'
  <2>1. FileInv(j) /\ stored'[j] = stored[j] /\ stored[j] # Unknown
    BY <1>1 DEF StoredInv
  <2>2. init' # NoListing /\ HeadOf(j)' = HeadOf(j) /\ j \in DOMAIN init'.entries
    BY <2>1 DEF FileInv, HeadOf, Extends
  <2>3. listing' # NoListing => /\ j \in DOMAIN listing'.entries
                                /\ listing'.entries[j].sector = HeadOf(j)'
    BY <2>1, <2>2 DEF FileInv, Extends
  <2>4. Kept(fs', HeadOf(j)', stored'[j].id, stored'[j].size)
    BY <2>1, <2>2
  <2>5. \A s \in FileSectors, m \in Nat :
          At(fs', s, stored'[j].id, m) =>
            s \in Written' /\ (listing' # NoListing => s < listing'.next_free_sector)
    BY <2>1 DEF FileInv
  <2>6. /\ stored[j].id \in Nat /\ issued \in Nat /\ stored[j].id <= issued
        /\ op \in {"add", "update"} => stored[j].id # issued
    BY <2>1, StoredTyped DEF FileInv
  <2>7. stored'[j].id <= issued' /\ (op' \in {"add", "update"} => stored'[j].id # issued')
    BY <2>1, <2>6
  <2>8. QED
    BY <2>2, <2>3, <2>4, <2>5, <2>7 DEF FileInv
<1>2. \A i, j \in Entries :
        i # j /\ stored'[i] # Unknown /\ stored'[j] # Unknown => stored'[i].id # stored'[j].id
  BY DEF StoredInv
<1>3. QED
  BY <1>1, <1>2 DEF StoredInv

\* Without a write the files hold what they held.
LEMMA FilesUnwritten ==
  ASSUME fs' = fs, NEW j, FileInv(j)
  PROVE  /\ Kept(fs', HeadOf(j), stored[j].id, stored[j].size)
         /\ \A s \in FileSectors, m \in Nat :
              At(fs', s, stored[j].id, m) => At(fs, s, stored[j].id, m)
  BY DEF FileInv

\* Nothing on disk has the number the next operation takes.
LEMMA NumberIsNew ==
  ASSUME TInv, Fresh, NEW s \in FileSectors, NEW m, At(fs, s, issued + 1, m)
  PROVE  FALSE
<1>1. issued \in Nat
  BY FilingAssumption DEF TInv, TypeOK
<1>2. fs[s].data = <<issued + 1, m>> /\ fs[s].data[1] <= issued
  BY DEF At, Fresh
<1>3. QED
  BY <1>1, <1>2

\* What holds of no file in a blank image.
LEMMA DInit == ASSUME Init PROVE DInv
<1>1. Fresh
  BY FilingAssumption DEF Init, Idle, Fresh, ZeroBlock
<1>2. StoredInv /\ WritingInv
  BY DEF Init, Idle, StoredInv, WritingInv
<1>3. QED
  BY <1>1, <1>2 DEF Init, DInv

\* What is claimed besides Fresh.
Data == (init = NoListing => listing = NoListing) /\ StoredInv /\ WritingInv

\* A stutter changes nothing of it.
LEMMA DStutter == ASSUME Data, UNCHANGED vars PROVE Data'
<1>1. /\ listing' = listing /\ fs' = fs /\ init' = init /\ pc' = pc /\ op' = op
      /\ index' = index /\ size' = size /\ k' = k /\ sector' = sector
      /\ next_descriptor' = next_descriptor /\ file_init' = file_init
      /\ issued' = issued /\ stored' = stored /\ misfit' = misfit
  BY DEF vars, image, locals
<1>2. Written' = Written
  BY <1>1 DEF Written, Unwritten, Used
<1>3. StoredInv'
  BY <1>1, <1>2 DEF Data, StoredInv, FileInv, HeadOf
<1>4. FirstPart' <=> FirstPart
  BY <1>1 DEF FirstPart, HeadOf
<1>5. Building' <=> Building
  BY <1>1 DEF Building, Parts, TailAt, Last
<1>6. CursorInv' <=> CursorInv
  BY <1>1 DEF CursorInv, Last, HeadOf
<1>7. WritingInv'
  BY <1>1, <1>2, <1>4, <1>5, <1>6 DEF Data, WritingInv, HeadOf
<1>8. QED
  BY <1>1, <1>3, <1>7 DEF Data

\* A new directory lists no file.
LEMMA DCreateFS == ASSUME TInv, CreateFS PROVE Data'
<1>1. op' = "none" /\ init' = EmptyListing /\ stored' = [i \in Entries |-> Unknown]
  BY DEF CreateFS, locals, TInv, Control
<1>2. QED
  BY <1>1, ZerosTyped DEF Data, StoredInv, WritingInv

\* A new file's entry is behind the others.
LEMMA DAddFile ==
  ASSUME TInv, SInv, DInv, NEW n \in Names, NEW b \in BOOLEAN, NEW sz \in Sizes,
         AddFile(n, b, sz), TInv', damage' = {}
  PROVE  Data'
<1> DEFINE e == [name |-> n, sector |-> init.next_free_sector,
                 deleted |-> FALSE, usable |-> FALSE]
           c == [entries |-> Append(init.entries, e),
                 next_free_sector |-> init.next_free_sector + 2]
           i == Len(init.entries) + 1
           h == init.next_free_sector
<1>1. /\ AtMenu /\ Room(1 + BlocksOf(sz)) /\ Len(init.entries) < MAX_FILES_PER_DIR
      /\ damage = {} /\ NewFile(i, c, sz) /\ listing' = listing /\ issued' = issued + 1
  BY DEF AddFile, Start
<1>2. /\ init \in Listing /\ init # NoListing /\ listing = init /\ Unwritten = {}
  BY <1>1, AtRest
<1>3. /\ c \in Listing /\ h \in FileSectors /\ c.next_free_sector = h + 2 /\ i \in Entries
      /\ Len(init.entries) \in Nat
      /\ DOMAIN init.entries = 1..Len(init.entries)
      /\ DOMAIN c.entries = 1..(Len(init.entries) + 1)
      /\ c.entries[i] = e
      /\ \A j \in DOMAIN init.entries : c.entries[j] = init.entries[j]
  BY <1>1, AddFileList
<1>4. i \notin DOMAIN init.entries /\ DOMAIN init.entries \subseteq DOMAIN c.entries
  BY <1>3
<1> HIDE DEF c, i
<1>5. c.entries[i].sector = h /\ h \in Nat
  BY <1>3, SectorsAreNumbers
<1>6. /\ op' = "add" /\ index' = i /\ size' = sz /\ k' = 1 /\ fs' = fs /\ sector' = h + 2
      /\ file_init'.data = <<issued', 0>>
      /\ file_init'.next_descriptor = IF sz > BLOCK THEN sector' ELSE 0
      /\ init' = [c EXCEPT !.next_free_sector = IF sz > BLOCK THEN @ + 2 ELSE @]
      /\ pc' = IF sz > BLOCK THEN "append" ELSE "file"
      /\ stored' = stored
  BY <1>1, <1>3 DEF NewFile, ZeroBlock
<1>7. /\ init'.entries = c.entries
      /\ init'.next_free_sector = IF sz > BLOCK THEN h + 4 ELSE h + 2
  BY <1>3, <1>5, <1>6 DEF Listing
<1>8. init' # NoListing /\ issued \in Nat
  BY <1>6, FilingAssumption DEF TInv, TypeOK, Control
<1>9. Extends(init', init)
  BY <1>3, <1>4, <1>7, <1>8 DEF Extends
<1>10. Written \subseteq Written'
  <2>1. \A s \in Used(init) : s \in Nat /\ s < h
    BY SectorsAreNumbers DEF Used
  <2>2. Used(init) \subseteq Used(init')
    BY <1>5, <1>7, <2>1 DEF Used
  <2>3. Unwritten' \subseteq {h, h + 2}
    BY <1>5, <1>6, <1>7 DEF Unwritten
  <2>4. QED
    BY <1>5, <2>1, <2>2, <2>3 DEF Written
<1>11. StoredInv'
  <2>1. StoredInv
    BY <1>1 DEF DInv
  <2>2. Extends(listing, listing)
    BY <1>2 DEF Extends
  <2>3. QED
    BY <1>1, <1>2, <1>6, <1>8, <1>9, <1>10, <2>1, <2>2, FilesStayStored, FilesUnwritten
<1>12. stored[i] = Unknown
  BY <1>1, <1>3, <1>4 DEF DInv, StoredInv, FileInv
<1>13. \A s \in FileSectors, m \in Nat : ~At(fs', s, issued', m)
  BY <1>1, <1>6, NumberIsNew DEF DInv
<1>14. FirstPart'
  BY <1>6 DEF FirstPart
<1>15. sz \in Nat /\ BLOCK \in Nat
  BY FilingAssumption
<1>16. Building'
  <2>1. Parts'
    BY <1>6, <1>13 DEF Parts
  <2>2. pc' = "append" => TailAt(sector)'
    BY <1>6 DEF TailAt
  <2>3. pc' = "file" => k' * BLOCK >= size'
    BY <1>6, <1>15
  <2>4. pc' = "file" => TailAt(0)'
    BY <1>6 DEF TailAt
  <2>5. QED
    BY <1>6, <2>1, <2>2, <2>3, <2>4 DEF Building
<1>17. WritingInv'
  BY <1>6, <1>12, <1>13, <1>14, <1>16 DEF WritingInv
<1>18. QED
  BY <1>8, <1>11, <1>17 DEF Data

\* An update's file is no longer known; its first descriptor is in file_init.
LEMMA DUpdateFile ==
  ASSUME TInv, SInv, DInv, NEW n \in Names, NEW sz \in Sizes, UpdateFile(n, sz),
         TInv', damage' = {}
  PROVE  Data'
<1>1. PICK i \in Entries :
        /\ Start /\ FoundAt(n, i)
        /\ op' = "update" /\ index' = i /\ size' = sz /\ k' = 1
        /\ LET old == Read(init.entries[i].sector, ZeroBlock)
           IN  /\ file_init' = IF sz = 0 THEN old ELSE [old EXCEPT !.data = <<issued', 0>>]
               /\ next_descriptor' = IF sz > BLOCK THEN old.next_descriptor ELSE 0
               /\ misfit' = IF sz > BLOCK THEN old.next_descriptor = 0
                            ELSE sz > 0 /\ old.next_descriptor # 0
               /\ pc' = IF sz <= BLOCK THEN "file"
                        ELSE IF old.next_descriptor # 0 THEN "overwrite"
                        ELSE IF SizeInSectors(sz) > old.size_in_sectors THEN "link"
                        ELSE "file"
        /\ stored' = [stored EXCEPT ![i] = Unknown]
        /\ UNCHANGED <<image, init, damage>>
  BY DEF UpdateFile
<1> DEFINE h == init.entries[i].sector
<1>2. /\ init \in Listing /\ init # NoListing /\ fs \in Images
      /\ Sound(fs, init, {}) /\ listing = init /\ Unwritten = {}
  BY <1>1, AtRest DEF Start
<1>3. i \in DOMAIN init.entries /\ issued' = issued + 1
  BY <1>1 DEF FoundAt, Start
<1>4. h \in Used(init) /\ fs[h] \in Block
  BY <1>2, <1>3, HeadUsed
<1>5. Read(h, ZeroBlock) = fs[h]
  BY <1>4, ReadWritten
<1>6. fs' = fs /\ init' = init /\ listing' = listing
  BY <1>1 DEF image
<1>7. issued \in Nat /\ sz \in Nat /\ BLOCK \in Nat
  BY FilingAssumption DEF TInv, TypeOK
<1> HIDE DEF h
<1>8. /\ file_init'.next_descriptor = fs[h].next_descriptor
      /\ file_init'.data = IF sz = 0 THEN fs[h].data ELSE <<issued', 0>>
  BY <1>1, <1>4, <1>5 DEF h, Block
<1>9. /\ pc' \in {"file", "overwrite", "link"}
      /\ pc' = "overwrite" => ~misfit' /\ next_descriptor' = fs[h].next_descriptor
      /\ ~misfit' => pc' # "link" /\ (pc' = "file" => sz <= BLOCK)
      /\ ~misfit' /\ pc' = "file" /\ sz > 0 => fs[h].next_descriptor = 0
      /\ pc' = "link" => next_descriptor' = 0
  <2>1. /\ next_descriptor' = IF sz > BLOCK THEN fs[h].next_descriptor ELSE 0
        /\ misfit' = IF sz > BLOCK THEN fs[h].next_descriptor = 0
                     ELSE sz > 0 /\ fs[h].next_descriptor # 0
        /\ pc' = IF sz <= BLOCK THEN "file"
                 ELSE IF fs[h].next_descriptor # 0 THEN "overwrite"
                 ELSE IF SizeInSectors(sz) > fs[h].size_in_sectors THEN "link" ELSE "file"
    BY <1>1, <1>5 DEF h
  <2>2. sz > BLOCK <=> ~(sz <= BLOCK)
    BY <1>7
  <2>3. QED
    BY <2>1, <2>2
<1>10. HeadOf(index)' = h
  BY <1>1, <1>6 DEF HeadOf, h
<1>11. Written' = Written
  <2>1. Unwritten' = {}
    BY <1>1, <1>9 DEF Unwritten
  <2>2. QED
    BY <1>2, <1>6, <2>1 DEF Written, Used
<1>12. StoredInv'
  <2>1. StoredInv
    BY <1>1 DEF DInv
  <2>2. Extends(init', init) /\ Extends(listing', listing)
    BY <1>2, <1>6 DEF Extends
  <2>3. \A j \in Entries : stored'[j] = stored[j] \/ stored'[j] = Unknown
    BY <1>1 DEF TInv, TypeOK
  <2>4. QED
    BY <1>2, <1>3, <1>6, <1>7, <1>11, <2>1, <2>2, <2>3, FilesStayStored, FilesUnwritten
<1>13. stored'[index'] = Unknown
  BY <1>1 DEF TInv, TypeOK
<1>14. \A s \in FileSectors, m \in Nat : ~At(fs', s, issued', m)
  BY <1>1, <1>3, <1>6, NumberIsNew DEF DInv
<1>15. FirstPart'
  BY <1>1, <1>4, <1>6, <1>8, <1>10 DEF FirstPart
<1>16. pc' = "overwrite" => CursorInv'
  BY <1>1, <1>4, <1>6, <1>9, <1>10 DEF CursorInv
<1>17. ASSUME ~misfit' PROVE Building'
  <2>1. Parts'
    BY <1>1, <1>14 DEF Parts
  <2>2. pc' = "overwrite" => TailAt(next_descriptor)'
    BY <1>1, <1>8, <1>9 DEF TailAt
  <2>3. pc' = "file" => k' * BLOCK >= size'
    BY <1>1, <1>7, <1>9, <1>17
  <2>4. pc' = "file" /\ size' > 0 => TailAt(0)'
    BY <1>1, <1>8, <1>9, <1>17 DEF TailAt
  <2>5. QED
    BY <1>9, <1>17, <2>1, <2>2, <2>3, <2>4 DEF Building
<1>18. WritingInv'
  BY <1>9, <1>13, <1>14, <1>15, <1>16, <1>17 DEF WritingInv
<1>19. QED
  BY <1>2, <1>6, <1>12, <1>18 DEF Data

\* The next part is written to the sector the last one points to.
LEMMA PartWritten ==
  ASSUME TInv, Parts, NEW x \in FileSectors, NEW b \in Block, TailAt(x),
         k * BLOCK < size, issued >= 1, \A m \in Nat : ~At(fs, x, issued, m),
         fs' = [fs EXCEPT ![x] = b], b.data = <<issued, k>>, k' = k + 1,
         file_init' = file_init, size' = size, issued' = issued
  PROVE  Parts' /\ \A s \in FileSectors : Last(s)' <=> s = x
<1>1. /\ k \in Nat /\ issued \in Nat /\ fs \in Images /\ k >= 1
      /\ 0 \notin FileSectors
  BY SectorsAreNumbers, FilingAssumption DEF TInv, TypeOK, Images, Parts
<1>2. fs'[x] = b /\ \A s \in FileSectors : s # x => fs'[s] = fs[s]
  BY <1>1 DEF Images
<1>3. \A m \in Nat : At(fs', x, issued, m) <=> m = k
  BY <1>1, <1>2 DEF At
<1>4. \A s \in FileSectors, m \in Nat : At(fs, s, issued, m) => s # x /\ At(fs', s, issued, m)
  BY <1>2 DEF At
<1>5. \A s \in FileSectors, m \in Nat : s # x /\ At(fs', s, issued, m) => At(fs, s, issued, m)
  BY <1>2 DEF At
<1>6. \A s \in FileSectors, m \in Nat : At(fs, s, issued, m) => 1 <= m /\ m < k
  BY DEF Parts
<1>7. k' >= 1 /\ (k' - 1) * BLOCK < size' /\ k' - 1 = k /\ k' >= 2
  BY <1>1
<1>8. CASE k = 1
  <2>1. file_init.next_descriptor = x
    BY <1>8 DEF TailAt
  <2>2. \A s \in FileSectors, m \in Nat : ~At(fs, s, issued, m)
    BY <1>6, <1>8
  <2>3. \A s \in FileSectors, m \in Nat : At(fs', s, issued, m) <=> s = x /\ m = 1
    BY <1>3, <1>5, <1>8, <2>2
  <2>4. Parts'
    <3>1. \A s \in FileSectors, m \in Nat :
            At(fs', s, issued', m) =>
              /\ 1 <= m /\ m < k' /\ ~(m + 1 < k')
              /\ m = 1 /\ s = file_init'.next_descriptor
      BY <1>8, <2>1, <2>3
    <3>2. file_init'.next_descriptor \in FileSectors /\ At(fs', file_init'.next_descriptor, issued', 1)
      BY <2>1, <2>3
    <3>3. k' = 2
      BY <1>8
    <3>4. QED
      BY ONLY <1>7, <3>1, <3>2, <3>3 DEF Parts
  <2>5. QED
    BY <1>7, <1>8, <2>3, <2>4 DEF Last
<1>9. CASE k # 1
  <2>1. /\ k >= 2 /\ \E s \in FileSectors : Last(s)
        /\ \A s \in FileSectors : At(fs, s, issued, k - 1) => fs[s].next_descriptor = x
    BY <1>1, <1>9 DEF TailAt, Last
  <2>2. PICK p \in FileSectors : At(fs, p, issued, k - 1) /\ fs[p].next_descriptor = x
    BY <2>1 DEF Last
  <2>3. k - 1 \in Nat /\ p # x /\ At(fs', p, issued, k - 1) /\ fs'[p].next_descriptor = x
    <3>1. k - 1 \in Nat
      BY <1>1
    <3>2. QED
      BY <1>2, <1>4, <2>2, <3>1
  <2>4. ASSUME NEW s \in FileSectors, NEW m \in Nat, At(fs', s, issued', m)
        PROVE  /\ 1 <= m /\ m < k'
               /\ IF m = 1 THEN s = file_init'.next_descriptor
                  ELSE \E q \in FileSectors : At(fs', q, issued', m - 1) /\ fs'[q].next_descriptor = s
    <3>1. CASE s = x
      <4>1. m = k /\ m # 1 /\ 1 <= m /\ m < k'
        BY <1>1, <1>3, <1>9, <2>4, <3>1
      <4>2. At(fs', p, issued', m - 1) /\ fs'[p].next_descriptor = s
        BY <2>3, <3>1, <4>1
      <4>3. QED
        BY <4>1, <4>2
    <3>2. CASE s # x
      <4>1. At(fs, s, issued, m) /\ 1 <= m /\ m < k'
        BY <1>1, <1>5, <1>6, <2>4, <3>2
      <4>2. CASE m = 1
        BY <4>1, <4>2 DEF Parts
      <4>3. CASE m # 1
        <5>1. m - 1 \in Nat
          BY <4>1
        <5>2. PICK q \in FileSectors : At(fs, q, issued, m - 1) /\ fs[q].next_descriptor = s
          BY <4>1, <4>3 DEF Parts
        <5>3. At(fs', q, issued', m - 1) /\ fs'[q].next_descriptor = s
          BY <1>2, <1>4, <5>1, <5>2
        <5>4. QED
          BY <4>1, <4>3, <5>3
      <4>4. QED
        BY <4>2, <4>3
    <3>3. QED
      BY <3>1, <3>2
  <2>5. file_init'.next_descriptor \in FileSectors /\ At(fs', file_init'.next_descriptor, issued', 1)
    BY <1>4, <2>1 DEF Parts
  <2>6. ASSUME NEW s \in FileSectors, NEW m \in Nat, At(fs', s, issued', m), m + 1 < k'
        PROVE  /\ fs'[s].next_descriptor \in FileSectors
               /\ At(fs', fs'[s].next_descriptor, issued', m + 1)
    <3>1. s # x /\ At(fs, s, issued, m) /\ fs'[s] = fs[s]
      <4>1. m # k
        BY <1>1, <2>6
      <4>2. s # x
        BY <1>3, <2>6, <4>1
      <4>3. QED
        BY <1>2, <1>5, <2>6, <4>2
    <3>2. CASE m + 1 < k
      <4>1. fs[s].next_descriptor \in FileSectors /\ At(fs, fs[s].next_descriptor, issued, m + 1)
        BY <3>1, <3>2 DEF Parts
      <4>2. m + 1 \in Nat
        OBVIOUS
      <4>3. At(fs', fs[s].next_descriptor, issued, m + 1)
        BY <1>4, <4>1, <4>2
      <4>4. QED
        BY <3>1, <4>1, <4>3
    <3>3. CASE ~(m + 1 < k)
      <4>1. m = k - 1 /\ m + 1 = k
        BY <1>1, <2>6, <3>3
      <4>2. QED
        BY <1>1, <1>3, <2>1, <3>1, <4>1
    <3>4. QED
      BY <3>2, <3>3
  <2>7. Parts'
    BY <1>7, <2>4, <2>5, <2>6 DEF Parts
  <2>8. ASSUME NEW s \in FileSectors PROVE Last(s)' <=> s = x
    <3>1. ~At(fs, s, issued, k)
      BY <1>1, <1>6
    <3>2. QED
      BY <1>1, <1>3, <1>5, <1>7, <3>1 DEF Last
  <2>9. QED
    BY <2>7, <2>8
<1>10. QED
  BY <1>8, <1>9

\* A step that writes none of its parts, nor changes a link of one.
LEMMA PartsKept ==
  ASSUME Parts, k' = k, size' = size, issued' = issued, file_init' = file_init,
         \A s \in FileSectors, m \in Nat : At(fs', s, issued, m) <=> At(fs, s, issued, m),
         \A s \in FileSectors, m \in Nat :
           At(fs, s, issued, m) /\ fs[s].next_descriptor # 0 =>
             fs'[s].next_descriptor = fs[s].next_descriptor
  PROVE  Parts'
<1>1. 0 \notin FileSectors
  BY SectorsAreNumbers
<1>2. ASSUME NEW s \in FileSectors, NEW m \in Nat, At(fs', s, issued, m)
      PROVE  /\ 1 <= m /\ m < k
             /\ IF m = 1 THEN s = file_init.next_descriptor
                ELSE \E q \in FileSectors : At(fs', q, issued, m - 1) /\ fs'[q].next_descriptor = s
  <2>1. At(fs, s, issued, m) /\ 1 <= m /\ m < k
    BY <1>2 DEF Parts
  <2>2. CASE m = 1
    BY <2>1, <2>2 DEF Parts
  <2>3. CASE m # 1
    <3>1. m - 1 \in Nat
      BY <2>1
    <3>2. PICK q \in FileSectors : At(fs, q, issued, m - 1) /\ fs[q].next_descriptor = s
      BY <2>1, <2>3 DEF Parts
    <3>3. At(fs', q, issued, m - 1) /\ fs'[q].next_descriptor = s
      BY <1>1, <3>1, <3>2
    <3>4. QED
      BY <2>1, <2>3, <3>3
  <2>4. QED
    BY <2>2, <2>3
<1>3. k >= 2 => /\ file_init.next_descriptor \in FileSectors
                /\ At(fs', file_init.next_descriptor, issued, 1)
  BY DEF Parts
<1>4. ASSUME NEW s \in FileSectors, NEW m \in Nat, At(fs', s, issued, m), m + 1 < k
      PROVE  fs'[s].next_descriptor \in FileSectors /\ At(fs', fs'[s].next_descriptor, issued, m + 1)
  <2>1. /\ At(fs, s, issued, m) /\ fs[s].next_descriptor \in FileSectors
        /\ At(fs, fs[s].next_descriptor, issued, m + 1)
    BY <1>4 DEF Parts
  <2>2. fs'[s].next_descriptor = fs[s].next_descriptor
    BY <1>1, <2>1
  <2>3. m + 1 \in Nat
    OBVIOUS
  <2>4. QED
    BY <2>1, <2>2, <2>3
<1>5. QED
  BY <1>2, <1>3, <1>4 DEF Parts

\* Overwriting is within the file's own chain.
LEMMA DOverwrite ==
  ASSUME TInv, SInv, DInv, TInv', Overwrite, damage' = {}
  PROVE  Data'
<1> DEFINE x    == next_descriptor
           new  == fs'[x]
           left == k * BLOCK < size
<1>1. /\ damage = {} /\ op = "update" /\ Unwritten = {} /\ Unwritten' = {}
      /\ init \in Listing /\ init # NoListing
      /\ index \in Entries /\ index \in DOMAIN init.entries
      /\ x \in FileSectors /\ x \in Used(init) /\ x \notin Heads(init)
      /\ fs \in Images /\ fs' = [fs EXCEPT ![x] = new] /\ new \in Block
      /\ new.data = IF left THEN <<issued, k>> ELSE <<0, 0>>
      /\ new.next_descriptor = fs[x].next_descriptor
  BY OverwriteDoes
<1>2. /\ k' = IF left THEN k + 1 ELSE k
      /\ next_descriptor' = IF new.next_descriptor # 0 THEN new.next_descriptor ELSE x
      /\ pc' \in {"overwrite", "link", "file"}
      /\ pc' = "overwrite" <=> new.next_descriptor # 0
      /\ misfit' <=> new.next_descriptor = 0 /\ (~left \/ (pc' = "file" /\ k' * BLOCK < size))
      /\ listing' = listing /\ op' = op /\ index' = index /\ size' = size
      /\ file_init' = file_init /\ issued' = issued /\ stored' = stored
  BY OverwriteDoes
<1>3. /\ DOMAIN init'.entries = DOMAIN init.entries
      /\ init' # NoListing /\ init'.next_free_sector = init.next_free_sector
      /\ \A j \in DOMAIN init.entries : init'.entries[j].sector = init.entries[j].sector
  BY OverwriteDoes
<1>4. /\ pc = "overwrite" /\ issued \in Nat /\ issued >= 1 /\ k \in Nat
      /\ size \in Nat /\ size > BLOCK /\ BLOCK \in Nat /\ k >= 1
  BY <1>1, FilingAssumption DEF Overwrite, TInv, TypeOK, Control, HasRoom
<1> HIDE DEF new, left
<1>5. Written' = Written /\ Written = Used(init) /\ Heads(init') = Heads(init)
  BY <1>1, <1>3 DEF Written, Used, Heads
<1>6. StoredInv'
  <2>1. ASSUME NEW j \in Entries, stored[j] # Unknown, FileInv(j)
        PROVE  /\ Kept(fs', HeadOf(j), stored[j].id, stored[j].size)
               /\ \A s \in FileSectors, m \in Nat :
                    At(fs', s, stored[j].id, m) => At(fs, s, stored[j].id, m)
    <3> DEFINE id == stored[j].id
    <3>1. /\ Kept(fs, HeadOf(j), id, stored[j].size) /\ j \in DOMAIN init.entries
          /\ id # issued /\ id \in Nat /\ id >= 1
      BY <1>1, <2>1, StoredTyped DEF FileInv
    <3>2. HeadOf(j) \in FileSectors /\ HeadOf(j) # x
      BY <1>1, <3>1, HeadTyped
    <3>3. \A m \in Nat : ~At(fs, x, id, m)
      BY <1>1, <1>4, <2>1, CursorForeign
    <3>4. \A m \in Nat : new.data # <<id, m>>
      BY <1>1, <3>1
    <3> HIDE DEF id
    <3>5. \A s \in FileSectors, m \in Nat : At(fs', s, id, m) => At(fs, s, id, m)
      BY <1>1, <3>3, <3>4, AtElsewhere
    <3>6. Kept(fs', HeadOf(j), id, stored[j].size)
      BY <1>1, <3>1, <3>2, <3>3, <3>4, KeptElsewhere
    <3>7. QED
      BY <3>5, <3>6 DEF id
  <2>2. StoredInv
    BY <1>1 DEF DInv
  <2>3. Extends(init', init) /\ (listing' # NoListing => Extends(listing', listing))
    BY <1>2, <1>3 DEF Extends
  <2>4. QED
    BY <1>2, <1>4, <1>5, <2>1, <2>2, <2>3, FilesStayStored
<1>7. /\ stored[index] = Unknown /\ ~misfit /\ FirstPart /\ Building /\ CursorInv
      /\ \A s \in FileSectors, m \in Nat : At(fs, s, issued, m) => s \in Written
  BY <1>1, <1>4 DEF DInv, WritingInv
<1>8. \A s \in FileSectors, m \in Nat : At(fs', s, issued, m) => s \in Written'
  <2>1. \A s \in FileSectors, m \in Nat : At(fs', s, issued, m) => s = x \/ At(fs, s, issued, m)
    BY <1>1 DEF Images, At
  <2>2. QED
    BY <1>1, <1>5, <1>7, <2>1
<1>9. \A m \in Nat : ~At(fs, x, issued, m)
  BY <1>1, <1>4, CursorNew
<1>10. FirstPart'
  BY <1>2, <1>4, <1>7 DEF FirstPart
<1>11. fs'[x] = new
  BY DEF new
<1>12. pc' = "overwrite" => /\ x \in Used(init') /\ fs'[x] \in Block
                            /\ fs'[x].next_descriptor = next_descriptor'
  BY <1>1, <1>2, <1>3, <1>11 DEF Used
<1>13. CASE left
  <2>1. TailAt(x)
    BY <1>4, <1>7, <1>13 DEF Building, left
  <2>2. k' = k + 1 /\ k' >= 2 /\ new.data = <<issued, k>>
    BY <1>1, <1>2, <1>4, <1>13
  <2>3. Parts' /\ \A s \in FileSectors : Last(s)' <=> s = x
    BY <1>1, <1>2, <1>4, <1>7, <1>9, <1>13, <2>1, <2>2, PartWritten DEF left, Building
  <2>4. pc' = "overwrite" => CursorInv'
    <3>1. At(fs', x, issued', k' - 1)
      BY <1>1, <2>3 DEF Last
    <3>2. QED
      BY <1>12, <2>2, <3>1 DEF CursorInv, Last
  <2>5. pc' = "overwrite" => TailAt(next_descriptor)'
    BY <1>1, <1>2, <1>4, <1>11, <2>2, <2>3 DEF TailAt
  <2>6. pc' = "link" => /\ next_descriptor' = x /\ x # 0 /\ k' >= 2 /\ Last(next_descriptor)'
                        /\ \A s \in FileSectors : Last(s)' => s = next_descriptor'
    BY <1>1, <1>2, <2>2, <2>3, SectorsAreNumbers
  <2>7. ~misfit' => (pc' = "file" => k' * BLOCK >= size')
    <3>1. k' * BLOCK \in Nat
      BY <1>4, <2>2
    <3>2. QED
      BY <1>2, <1>4, <3>1
  <2>8. pc' = "file" => TailAt(0)'
    BY <1>1, <1>2, <1>11, <2>2, <2>3 DEF TailAt
  <2>9. ~misfit' => Building'
    BY <1>2, <2>3, <2>5, <2>6, <2>7, <2>8 DEF Building
  <2>10. ~(pc' = "file") => ~misfit'
    BY <1>2, <1>13
  <2>11. WritingInv'
    BY <1>2, <1>7, <1>8, <1>10, <2>4, <2>9, <2>10 DEF WritingInv
  <2>12. QED
    BY <1>3, <1>6, <2>11 DEF Data
<1>14. CASE ~left
  <2>1. k' = k /\ new.data = <<0, 0>> /\ k * BLOCK \in Nat /\ k' * BLOCK >= size'
    BY <1>1, <1>2, <1>4, <1>14 DEF left
  <2>2. \A m \in Nat : new.data # <<issued, m>>
    BY <1>4, <2>1
  <2>3. \A s \in FileSectors, m \in Nat :
          /\ At(fs', s, issued, m) <=> At(fs, s, issued, m)
          /\ At(fs, s, issued, m) => fs'[s] = fs[s]
    BY <1>1, <1>9, <2>2, AtElsewhere
  <2>4. Parts'
    BY <1>2, <1>7, <2>1, <2>3, PartsKept DEF Building
  <2>5. At(fs', x, 0, 0)
    BY <1>1, <1>11, <2>1 DEF At
  <2>6. pc' = "overwrite" => CursorInv'
    BY <1>1, <1>5, <1>12, <2>5 DEF CursorInv
  <2>7. ~misfit' <=> pc' = "overwrite"
    BY <1>2, <1>14
  <2>8. k' * BLOCK \in Nat /\ size' \in Nat /\ ~(k' * BLOCK < size')
    BY <1>2, <1>4, <2>1
  <2>9. ~misfit' => Building'
    BY <2>4, <2>7, <2>8 DEF Building
  <2>10. WritingInv'
    BY <1>2, <1>7, <1>8, <1>10, <2>6, <2>7, <2>8, <2>9 DEF WritingInv
  <2>11. QED
    BY <1>3, <1>6, <2>10 DEF Data
<1>15. QED
  BY <1>13, <1>14

\* A file keeps what it holds when a descriptor keeps its data.
LEMMA FileKeptSame ==
  ASSUME TInv, NEW j \in Entries, FileInv(j), NEW x \in FileSectors, NEW b \in Block,
         fs' = [fs EXCEPT ![x] = b], fs[x] \in Block, b.data = fs[x].data,
         FileSize(b) = FileSize(fs[x]), b.next_descriptor = fs[x].next_descriptor
  PROVE  /\ Kept(fs', HeadOf(j), stored[j].id, stored[j].size)
         /\ \A s \in FileSectors, m \in Nat :
              At(fs', s, stored[j].id, m) => At(fs, s, stored[j].id, m)
<1>1. fs \in Images
  BY DEF TInv, TypeOK, Images
<1>2. HeadOf(j) \in FileSectors /\ Kept(fs, HeadOf(j), stored[j].id, stored[j].size)
  BY HeadTyped DEF FileInv
<1>3. Kept(fs', HeadOf(j), stored[j].id, stored[j].size)
  BY <1>1, <1>2, KeptSame
<1>4. QED
  BY <1>1, <1>3, AtSame

\* The link to a free sector is the last one of its chain.
LEMMA DLink ==
  ASSUME TInv, SInv, DInv, TInv', Link, damage' = {}
  PROVE  Data'
<1> DEFINE x == next_descriptor
<1>1. /\ pc = "link" /\ op = "update" /\ damage = {} /\ pc' = "append" /\ k * BLOCK < size
      /\ init \in Listing /\ init # NoListing /\ index \in DOMAIN init.entries /\ fs \in Images
      /\ init' # NoListing /\ sector = init.next_free_sector /\ issued \in Nat /\ issued >= 1
      /\ size > BLOCK /\ size \in Nat /\ BLOCK \in Nat
  <2>1. pc = "link" /\ damage = {} /\ pc' = "append" /\ k * BLOCK < size
    BY DEF Link
  <2>2. /\ op = "update" /\ init # NoListing /\ init' # NoListing
        /\ index \in DOMAIN init.entries /\ issued \in 1..MaxWrites
        /\ sector = init.next_free_sector /\ size > BLOCK
    BY <2>1 DEF TInv, Control, HasRoom
  <2>3. init \in Listing /\ fs \in Images /\ size \in Nat
    BY <2>2 DEF TInv, TypeOK, Images
  <2>4. QED
    BY <2>1, <2>2, <2>3, FilingAssumption
<1>2. Unwritten = {}
  BY <1>1 DEF Unwritten
<1>3. x # 0 => /\ x \in FileSectors /\ x \in Used(init)
               /\ fs[x] = file_desc /\ file_desc.next_descriptor = 0
  BY <1>1 DEF SInv, UpdateInv, Used
<1>4. /\ init' = [init EXCEPT !.next_free_sector = @ + 2]
      /\ op' = op /\ index' = index /\ size' = size /\ k' = k /\ sector' = sector
      /\ next_descriptor' = x /\ file_init' = file_init
      /\ issued' = issued /\ stored' = stored /\ misfit' = misfit
  BY DEF Link
<1>5. init'.entries = init.entries /\ init'.next_free_sector = init.next_free_sector + 2
  BY <1>1, <1>4 DEF Listing
<1>6. Extends(init', init)
  BY <1>1, <1>5 DEF Extends
<1>7. listing' # NoListing => listing' = listing
  BY DEF Link
<1>8. Written \subseteq Written'
  <2>1. Unwritten' = {sector} /\ sector \in Nat
    BY <1>1, <1>4, SectorsAreNumbers DEF Unwritten, Listing, Frees
  <2>2. \A s \in Used(init) : s \in Nat /\ s < sector /\ s \in Used(init')
    BY <1>1, <1>5, <2>1, SectorsAreNumbers DEF Used
  <2>3. QED
    BY <2>1, <2>2 DEF Written
<1> DEFINE b == [file_desc EXCEPT !.next_descriptor = sector]
<1>9. x # 0 => /\ fs' = [fs EXCEPT ![x] = b] /\ b \in Block
               /\ b.next_descriptor = sector /\ b.data = fs[x].data
               /\ FileSize(b) = FileSize(fs[x]) /\ fs[x] \in Block
  <2>1. SUFFICES ASSUME x # 0
                 PROVE  /\ fs' = [fs EXCEPT ![x] = b] /\ b \in Block
                        /\ b.next_descriptor = sector /\ b.data = fs[x].data
                        /\ FileSize(b) = FileSize(fs[x]) /\ fs[x] \in Block
    OBVIOUS
  <2>2. fs' = [fs EXCEPT ![x] = b] /\ file_desc' = b
    BY <2>1 DEF Link
  <2>3. b \in Block /\ file_desc \in Block
    BY <2>2 DEF TInv, TypeOK
  <2>4. b.next_descriptor = sector /\ b.data = file_desc.data
        /\ b.size_in_sectors = file_desc.size_in_sectors
        /\ b.bytes_unused_last_kb = file_desc.bytes_unused_last_kb
    BY <2>3 DEF Block
  <2>5. QED
    BY <1>3, <2>1, <2>2, <2>3, <2>4 DEF FileSize
<1> HIDE DEF b
<1>10. x = 0 => fs' = fs
  BY DEF Link
<1>11. StoredInv'
  <2>1. ASSUME NEW j \in Entries, stored[j] # Unknown, FileInv(j)
        PROVE  /\ Kept(fs', HeadOf(j), stored[j].id, stored[j].size)
               /\ \A s \in FileSectors, m \in Nat :
                    At(fs', s, stored[j].id, m) => At(fs, s, stored[j].id, m)
    <3>1. CASE x = 0
      BY <1>10, <2>1, <3>1, FilesUnwritten
    <3>2. CASE x # 0
      <4> DEFINE id == stored[j].id
      <4>1. /\ Kept(fs, HeadOf(j), id, stored[j].size) /\ j \in DOMAIN init.entries
            /\ id # issued
        BY <1>1, <2>1 DEF FileInv
      <4>2. fs[x].data = <<issued, k - 1>> /\ k >= 2 /\ k \in Nat
        BY <1>1, <3>2 DEF DInv, WritingInv, Building, Last, At, TInv, TypeOK
      <4>3. \A m \in Nat : ~At(fs, x, id, m) /\ b.data # <<id, m>>
        BY <1>9, <3>2, <4>1, <4>2 DEF At
      <4>4. HeadOf(j) \in FileSectors /\ HeadOf(j) \in Heads(init) /\ x \notin Heads(init)
        BY <1>1, <3>2, <4>1, HeadTyped DEF SInv, UpdateInv
      <4> HIDE DEF id
      <4>5. \A s \in FileSectors, m \in Nat : At(fs', s, id, m) => At(fs, s, id, m)
        BY <1>1, <1>3, <1>9, <3>2, <4>3, AtElsewhere
      <4>6. Kept(fs', HeadOf(j), id, stored[j].size)
        BY <1>1, <1>3, <1>9, <3>2, <4>1, <4>3, <4>4, KeptElsewhere
      <4>7. QED
        BY <4>5, <4>6 DEF id
    <3>3. QED
      BY <3>1, <3>2
  <2>2. StoredInv
    BY <1>1 DEF DInv
  <2>3. listing' # NoListing => Extends(listing', listing)
    BY <1>7 DEF Extends
  <2>4. QED
    BY <1>1, <1>4, <1>6, <1>7, <1>8, <2>1, <2>2, <2>3, FilesStayStored
<1>12. /\ stored[index] = Unknown /\ FirstPart /\ (~misfit => Building)
       /\ \A s \in FileSectors, m \in Nat : At(fs, s, issued, m) => s \in Written
  BY <1>1 DEF DInv, WritingInv
<1>13. \A s \in FileSectors, m \in Nat : At(fs', s, issued, m) <=> At(fs, s, issued, m)
  <2>1. CASE x = 0
    BY <1>10, <2>1
  <2>2. CASE x # 0
    BY <1>1, <1>3, <1>9, <2>2, AtSame
  <2>3. QED
    BY <2>1, <2>2
<1>14. \A s \in FileSectors, m \in Nat : At(fs', s, issued', m) => s \in Written'
  BY <1>4, <1>8, <1>12, <1>13
<1>15. FirstPart'
  BY <1>1, <1>4, <1>12 DEF FirstPart
<1>16. ASSUME ~misfit PROVE Building'
  <2>1. /\ Parts /\ x # 0 /\ k >= 2 /\ At(fs, x, issued, k - 1)
        /\ \A s \in FileSectors : At(fs, s, issued, k - 1) => s = x
    BY <1>1, <1>12, <1>16 DEF Building, Last
  <2>2. \A s \in FileSectors : fs[s].next_descriptor # 0 =>
                                 fs'[s].next_descriptor = fs[s].next_descriptor
    BY <1>1, <1>3, <1>9, <2>1 DEF Images
  <2>3. Parts'
    BY <1>4, <1>13, <2>1, <2>2, PartsKept
  <2>4. k - 1 \in Nat /\ k # 1
    BY <2>1 DEF TInv, TypeOK
  <2>5. fs'[x].next_descriptor = sector
    BY <1>1, <1>3, <1>9, <2>1 DEF Images
  <2>6. TailAt(sector)'
    BY <1>3, <1>4, <1>13, <2>1, <2>4, <2>5 DEF TailAt, Last
  <2>7. QED
    BY <1>1, <2>3, <2>6 DEF Building
<1>17. WritingInv'
  BY <1>1, <1>4, <1>12, <1>14, <1>15, <1>16 DEF WritingInv
<1>18. QED
  BY <1>1, <1>11, <1>17 DEF Data

\* What a new descriptor is written to was free before the operation.
LEMMA DAppendBlock ==
  ASSUME TInv, SInv, DInv, TInv', AppendBlock, damage' = {}
  PROVE  Data'
<1> DEFINE x == sector
           more == size - k * BLOCK > BLOCK
           b == [ZeroBlock EXCEPT !.data = <<issued, k>>,
                                  !.next_descriptor = IF more THEN sector + 2 ELSE 0]
<1>1. /\ pc = "append" /\ op \in {"add", "update"} /\ damage = {}
      /\ init \in Listing /\ init # NoListing /\ init' # NoListing
      /\ index \in DOMAIN init.entries /\ index \in Entries /\ fs \in Images
      /\ k \in Nat /\ size \in Nat /\ BLOCK \in Nat \ {0} /\ k >= 1 /\ k * BLOCK < size
      /\ issued \in Nat /\ issued >= 1
  BY FilingAssumption DEF TInv, TypeOK, Control, HasRoom, AppendBlock, Images
<1>2. /\ x \in FileSectors /\ x \in Used(init) /\ x \notin Heads(init)
      /\ x + 2 = init.next_free_sector /\ x + 2 \notin Used(init)
  BY <1>1, AppendSector
<1>3. /\ fs' = [fs EXCEPT ![x] = b] /\ file_desc' = b
      /\ sector' = init.next_free_sector
      /\ init' = [init EXCEPT !.next_free_sector = IF more THEN @ + 2 ELSE @]
      /\ k' = k + 1
      /\ pc' = IF more THEN "append" ELSE "file"
      /\ listing' = listing /\ op' = op /\ index' = index /\ size' = size
      /\ file_init' = file_init /\ issued' = issued /\ stored' = stored /\ misfit' = misfit
  BY DEF AppendBlock
<1>4. b \in Block
  BY <1>3 DEF TInv, TypeOK
<1>5. b.data = <<issued, k>> /\ b.next_descriptor = IF more THEN x + 2 ELSE 0
  BY DEF ZeroBlock
<1> HIDE DEF b, more
<1>6. /\ init'.entries = init.entries
      /\ init'.next_free_sector = IF more THEN x + 4 ELSE x + 2
  BY <1>1, <1>2, <1>3, SectorsAreNumbers DEF Listing
<1>7. Extends(init', init) /\ (listing' # NoListing => Extends(listing', listing))
  BY <1>1, <1>3, <1>6 DEF Extends
<1>8. HeadOf(index) \in Heads(init) /\ HeadOf(index)' = HeadOf(index)
  BY <1>1, <1>3, <1>6 DEF Heads, HeadOf
<1>9. x \in Unwritten /\ (op = "add" => HeadOf(index) \in Unwritten)
  BY <1>1 DEF Unwritten, HeadOf
<1>10. Unwritten' \subseteq {x + 2} \cup (IF op = "add" THEN {HeadOf(index)} ELSE {})
  BY <1>2, <1>3, <1>6 DEF Unwritten, HeadOf
<1>11. Used(init) \subseteq Used(init')
  <2>1. \A s \in Used(init) : s \in FileSectors /\ s \in Nat /\ s < x + 2
    BY <1>2, SectorsAreNumbers DEF Used
  <2>2. x \in Nat
    BY <1>2, SectorsAreNumbers
  <2>3. QED
    BY <1>6, <2>1, <2>2 DEF Used
<1>12. Written \subseteq Written' /\ x \in Written'
  BY <1>2, <1>8, <1>9, <1>10, <1>11 DEF Written
<1>13. StoredInv'
  <2>1. ASSUME NEW j \in Entries, stored[j] # Unknown, FileInv(j)
        PROVE  /\ Kept(fs', HeadOf(j), stored[j].id, stored[j].size)
               /\ \A s \in FileSectors, m \in Nat :
                    At(fs', s, stored[j].id, m) => At(fs, s, stored[j].id, m)
    <3> DEFINE id == stored[j].id
    <3>1. /\ Kept(fs, HeadOf(j), id, stored[j].size) /\ j \in DOMAIN init.entries
          /\ id # issued
          /\ \A m \in Nat : ~At(fs, x, id, m)
      BY <1>1, <1>2, <1>9, <2>1 DEF FileInv, Written
    <3>2. HeadOf(j) \in FileSectors /\ HeadOf(j) # x
      BY <1>1, <1>2, <3>1, HeadTyped
    <3>3. \A m \in Nat : b.data # <<id, m>>
      BY <1>5, <3>1
    <3> HIDE DEF id
    <3>4. \A s \in FileSectors, m \in Nat : At(fs', s, id, m) => At(fs, s, id, m)
      BY <1>1, <1>2, <1>3, <1>4, <3>1, <3>3, AtElsewhere
    <3>5. Kept(fs', HeadOf(j), id, stored[j].size)
      BY <1>1, <1>2, <1>3, <1>4, <3>1, <3>2, <3>3, KeptElsewhere
    <3>6. QED
      BY <3>4, <3>5 DEF id
  <2>2. StoredInv
    BY <1>1 DEF DInv
  <2>3. issued' \in Nat /\ issued <= issued' /\ issued' = issued /\ op' = op
    BY <1>1, <1>3
  <2>4. listing' # NoListing =>
          listing # NoListing /\ listing'.next_free_sector = listing.next_free_sector
    BY <1>3
  <2>5. QED
    BY <1>3, <1>7, <1>12, <2>1, <2>2, <2>3, <2>4, FilesStayStored
<1>14. /\ stored[index] = Unknown /\ FirstPart /\ (~misfit => Building)
       /\ \A s \in FileSectors, m \in Nat : At(fs, s, issued, m) => s \in Written
  BY <1>1 DEF DInv, WritingInv
<1>15. fs'[x] = b /\ \A s \in FileSectors : s # x => fs'[s] = fs[s]
  BY <1>1, <1>2, <1>3 DEF Images
<1>16. \A s \in FileSectors, m \in Nat : At(fs', s, issued', m) => s \in Written'
  <2>1. \A s \in FileSectors, m \in Nat : At(fs', s, issued, m) => s = x \/ At(fs, s, issued, m)
    BY <1>15 DEF At
  <2>2. QED
    BY <1>3, <1>12, <1>14, <2>1
<1>17. 0 < size
  BY <1>1
<1>18. FirstPart'
  BY <1>3, <1>14, <1>17 DEF FirstPart
<1>19. ASSUME ~misfit PROVE Building'
  <2>1. Parts /\ TailAt(x)
    BY <1>1, <1>14, <1>19 DEF Building
  <2>2. \A m \in Nat : ~At(fs, x, issued, m)
    BY <1>2, <1>9, <1>14 DEF Written
  <2>3. Parts' /\ \A s \in FileSectors : Last(s)' <=> s = x
    BY <1>1, <1>2, <1>3, <1>4, <1>5, <2>1, <2>2, PartWritten
  <2>4. ASSUME more PROVE TailAt(sector)'
    <3>1. k' # 1 /\ fs'[x].next_descriptor = sector'
      BY <1>1, <1>2, <1>3, <1>5, <1>15, <2>4
    <3>2. QED
      BY <1>2, <2>3, <3>1 DEF TailAt
  <2>5. ASSUME ~more PROVE k' * BLOCK >= size'
    <3>1. (k + 1) * BLOCK = k * BLOCK + BLOCK /\ k * BLOCK \in Nat
      BY <1>1
    <3>2. QED
      BY <1>1, <1>3, <2>5, <3>1 DEF more
  <2>6. ASSUME ~more PROVE TailAt(0)'
    <3>1. k' # 1 /\ fs'[x].next_descriptor = 0
      BY <1>1, <1>2, <1>3, <1>5, <1>15, <2>6
    <3>2. QED
      BY <1>2, <2>3, <3>1 DEF TailAt
  <2>7. QED
    BY <1>3, <2>3, <2>4, <2>5, <2>6 DEF Building
<1>20. WritingInv'
  BY <1>3, <1>14, <1>16, <1>18, <1>19 DEF WritingInv
<1>21. QED
  BY <1>1, <1>13, <1>20 DEF Data

\* The two numbers in the first descriptor give the size.
LEMMA SizeIs ==
  ASSUME NEW sz \in Nat, NEW b \in Block,
         b.size_in_sectors = SizeInSectors(sz), b.bytes_unused_last_kb = UnusedInLast(sz)
  PROVE  FileSize(b) = sz
<1> DEFINE q == (sz + BLOCK) \div BLOCK
<1>1. BLOCK \in Nat \ {0} /\ sz + BLOCK \in Nat
  BY FilingAssumption
<1>2. q \in Nat
  BY <1>1, DivMod
<1>3. SizeInSectors(sz) = q * 2
  BY DEF SizeInSectors
<1> HIDE DEF q
<1>4. (q * 2) \div 2 = q /\ q * BLOCK \in Nat
  BY <1>1, <1>2
<1>5. UnusedInLast(sz) = q * BLOCK - sz /\ FileSize(b) = q * BLOCK - (q * BLOCK - sz)
  BY <1>3, <1>4 DEF FileSize, UnusedInLast
<1>6. QED
  BY <1>4, <1>5

\* No part that an operation has written is where its file begins.
LEMMA HeadNew ==
  ASSUME TInv, SInv, DInv, damage = {}, op \in {"add", "update"}, pc = "file", ~misfit
  PROVE  \A m \in Nat : ~At(fs, HeadOf(index), issued, m)
<1> DEFINE h == HeadOf(index)
<1>1. SUFFICES ASSUME NEW m \in Nat, At(fs, h, issued, m) PROVE FALSE
  OBVIOUS
<1>2. init # NoListing /\ index \in DOMAIN init.entries
  BY DEF TInv, Control
<1>3. h \in FileSectors /\ h \in Heads(init)
  BY <1>2, HeadTyped
<1>4. /\ Sound(fs, init, Unwritten) /\ AddInv /\ UpdateInv
      /\ Building /\ \A s \in FileSectors, j \in Nat : At(fs, s, issued, j) => s \in Written
  BY <1>2 DEF SInv, DInv, WritingInv
<1>5. h \in Written /\ Written = Used(init) \ Unwritten
  BY <1>1, <1>3, <1>4 DEF Written
<1>6. op = "update"
  BY <1>5 DEF Unwritten, HeadOf
<1>7. LinksFit(fs, init, Unwritten) /\ 0 \notin FileSectors
  BY <1>4, SoundParts, SectorsAreNumbers
<1>8. 1 <= m /\ m < k
  BY <1>1, <1>3, <1>4 DEF Building, Parts
<1>9. CASE m = 1
  <2>1. fs[h].next_descriptor = h
    BY <1>1, <1>3, <1>4, <1>6, <1>9 DEF Building, Parts, UpdateInv, HeadOf
  <2>2. QED
    BY <1>3, <1>5, <1>7, <2>1 DEF LinksFit
<1>10. CASE m # 1
  <2>1. PICK q \in FileSectors : At(fs, q, issued, m - 1) /\ fs[q].next_descriptor = h
    BY <1>1, <1>3, <1>4, <1>10 DEF Building, Parts
  <2>2. m - 1 \in Nat
    BY <1>8
  <2>3. q \in Written
    BY <1>4, <2>1, <2>2
  <2>4. QED
    BY <1>3, <1>5, <1>7, <2>1, <2>3 DEF LinksFit
<1>11. QED
  BY <1>9, <1>10

\* The parts and the first descriptor before them make the file.
LEMMA FileIsWhole ==
  ASSUME TInv, Parts, FirstPart, k * BLOCK >= size, issued >= 1,
         NEW h \in FileSectors, h = HeadOf(index), NEW b \in Block,
         \A m \in Nat : ~At(fs, h, issued, m),
         b.data = file_init.data, b.next_descriptor = file_init.next_descriptor,
         FileSize(b) = size, size > 0 => TailAt(0)
  PROVE  Kept([fs EXCEPT ![h] = b], h, issued, size)
<1> DEFINE g == [fs EXCEPT ![h] = b]
<1>1. /\ k \in Nat /\ issued \in Nat /\ size \in Nat /\ fs \in Images /\ k >= 1
      /\ BLOCK \in Nat \ {0}
  BY FilingAssumption DEF TInv, TypeOK, Images, Parts
<1>2. g[h] = b /\ \A s \in FileSectors : s # h => g[s] = fs[s]
  BY <1>1 DEF Images
<1> HIDE DEF g
<1>3. BlocksOf(size) <= k /\ BlocksOf(size) \in Nat
  BY <1>1, NoMoreBlocks, SizesTyped
<1>4. \A s \in FileSectors, m \in Nat :
        At(fs, s, issued, m) => 1 <= m /\ m < k /\ s # h /\ At(g, s, issued, m) /\ g[s] = fs[s]
  BY <1>2 DEF Parts, At
<1>5. \A s \in FileSectors, m \in Nat : s # h /\ At(g, s, issued, m) => At(fs, s, issued, m)
  BY <1>2 DEF At
<1>6. \A m \in Nat : At(g, h, issued, m) => m = 0
  <2>1. SUFFICES ASSUME NEW m \in Nat, At(g, h, issued, m) PROVE m = 0
    OBVIOUS
  <2>2. b.data = <<issued, m>>
    BY <1>2, <2>1 DEF At
  <2>3. CASE size = 0 /\ op = "update"
    <3>1. fs[h] \in Block /\ fs[h].data = <<issued, m>>
      BY <2>2, <2>3 DEF FirstPart
    <3>2. QED
      BY <3>1 DEF At
  <2>4. CASE ~(size = 0 /\ op = "update")
    <3>1. b.data = <<issued, 0>>
      BY <2>4 DEF FirstPart
    <3>2. QED
      BY <2>2, <3>1
  <2>5. QED
    BY <2>3, <2>4
<1>7. size # 0 => At(g, h, issued, 0)
  BY <1>2 DEF FirstPart, At
<1>8. k >= 2 => size # 0
  <2>1. SUFFICES ASSUME k >= 2 PROVE size # 0
    OBVIOUS
  <2>2. (k - 1) * BLOCK < size
    BY <1>1, <2>1 DEF Parts
  <2>3. k - 1 \in Nat /\ (k - 1) * BLOCK \in Nat
    <3>1. k - 1 \in Nat
      BY <1>1, <2>1
    <3>2. QED
      BY <1>1, <3>1
  <2>4. QED
    BY <1>1, <2>2, <2>3
<1>9. BlocksOf(size) > 0 => At(g, h, issued, 0)
  <2>1. 0 * BLOCK >= 0 /\ 0 \in Nat
    BY <1>1
  <2>2. size = 0 => BlocksOf(size) <= 0
    BY <2>1, NoMoreBlocks
  <2>3. QED
    BY <1>3, <1>7, <2>2
<1>10. ASSUME NEW s \in FileSectors, NEW m \in Nat, At(g, s, issued, m)
       PROVE  IF m = 0 THEN s = h
              ELSE \E q \in FileSectors : At(g, q, issued, m - 1) /\ g[q].next_descriptor = s
  <2>1. CASE s = h
    BY <1>6, <1>10, <2>1
  <2>2. CASE s # h
    <3>1. At(fs, s, issued, m) /\ 1 <= m /\ m < k
      BY <1>4, <1>5, <1>10, <2>2
    <3>2. CASE m = 1
      <4>1. s = file_init.next_descriptor /\ k >= 2
        BY <1>1, <3>1, <3>2 DEF Parts
      <4>2. At(g, h, issued, m - 1) /\ g[h].next_descriptor = s
        BY <1>2, <1>7, <1>8, <3>2, <4>1
      <4>3. QED
        BY <3>2, <4>2
    <3>3. CASE m # 1
      <4>1. PICK q \in FileSectors : At(fs, q, issued, m - 1) /\ fs[q].next_descriptor = s
        BY <3>1, <3>3 DEF Parts
      <4>2. m - 1 \in Nat /\ m # 0
        BY <3>1
      <4>3. At(g, q, issued, m - 1) /\ g[q].next_descriptor = s
        BY <1>4, <4>1, <4>2
      <4>4. QED
        BY <4>2, <4>3
    <3>4. QED
      BY <3>2, <3>3
  <2>3. QED
    BY <2>1, <2>2
<1>11. ASSUME NEW s \in FileSectors, NEW m \in Nat, At(g, s, issued, m), m + 1 < BlocksOf(size)
       PROVE  g[s].next_descriptor \in FileSectors /\ At(g, g[s].next_descriptor, issued, m + 1)
  <2>1. m + 1 < k /\ m + 1 \in Nat
    BY <1>1, <1>3, <1>11
  <2>2. CASE s = h
    <3>1. m = 0 /\ k >= 2 /\ g[s].next_descriptor = file_init.next_descriptor
      BY <1>1, <1>2, <1>6, <1>11, <2>1, <2>2
    <3>2. file_init.next_descriptor \in FileSectors /\ At(fs, file_init.next_descriptor, issued, 1)
      BY <3>1 DEF Parts
    <3>3. QED
      BY <1>4, <3>1, <3>2
  <2>3. CASE s # h
    <3>1. At(fs, s, issued, m) /\ g[s] = fs[s]
      BY <1>2, <1>5, <1>11, <2>3
    <3>2. /\ fs[s].next_descriptor \in FileSectors
          /\ At(fs, fs[s].next_descriptor, issued, m + 1)
      BY <2>1, <3>1 DEF Parts
    <3>3. QED
      BY <1>4, <2>1, <3>1, <3>2
  <2>4. QED
    BY <2>2, <2>3
<1>12. g[h] \in Block /\ FileSize(g[h]) = size
  BY <1>2
<1>13. ASSUME NEW s \in FileSectors, NEW m \in Nat, At(g, s, issued, m),
              m + 1 = BlocksOf(size)
       PROVE  g[s].next_descriptor = 0
  <2>1. m < k /\ size > 0
    <3>1. m + 1 <= k
      BY <1>3, <1>13
    <3>2. size = 0 => BlocksOf(size) <= 0
      <4>1. 0 * BLOCK >= 0 /\ 0 \in Nat
        BY <1>1
      <4>2. QED
        BY <4>1, NoMoreBlocks
    <3>3. QED
      BY <1>1, <1>3, <1>13, <3>1, <3>2
  <2>2. m = k - 1
    <3>1. SUFFICES ASSUME m + 1 < k PROVE FALSE
      BY <1>1, <2>1
    <3>2. (m + 1) * BLOCK < size
      <4>1. k # 1 /\ (k - 1) * BLOCK < size
        BY <1>1, <3>1 DEF Parts
      <4>2. PICK d \in Nat : k - 1 = m + 1 + d
        <5>1. k - 1 - (m + 1) \in Nat /\ k - 1 = m + 1 + (k - 1 - (m + 1))
          BY <1>1, <3>1
        <5>2. QED
          BY <5>1
      <4>3. (k - 1) * BLOCK = (m + 1) * BLOCK + d * BLOCK /\ d * BLOCK >= 0
        BY <1>1, <4>2
      <4>4. (m + 1) * BLOCK \in Nat /\ d * BLOCK \in Nat
        BY <1>1
      <4>5. QED
        BY <1>1, <4>1, <4>3, <4>4
    <3>3. m + 1 + 1 <= BlocksOf(size)
      BY <1>1, <3>2, MoreBlocks
    <3>4. QED
      BY <1>3, <1>13, <3>3
  <2>3. CASE s = h
    <3>1. k = 1 /\ g[s].next_descriptor = file_init.next_descriptor
      BY <1>1, <1>2, <1>6, <1>13, <2>2, <2>3
    <3>2. QED
      BY <2>1, <3>1 DEF TailAt
  <2>4. CASE s # h
    <3>1. At(fs, s, issued, m) /\ g[s] = fs[s]
      BY <1>2, <1>5, <1>13, <2>4
    <3>2. k # 1
      BY <1>4, <2>2, <3>1
    <3>3. QED
      BY <2>1, <2>2, <3>1, <3>2 DEF TailAt, Last
  <2>5. QED
    BY <2>3, <2>4
<1>14. Kept(g, h, issued, size)
  BY <1>9, <1>10, <1>11, <1>12, <1>13 DEF Kept
<1>15. QED
  BY <1>14 DEF g

\* The first descriptor makes the file whole.
LEMMA DWriteFile ==
  ASSUME TInv, SInv, DInv, WriteFile, damage' = {}
  PROVE  Data'
<1> DEFINE h == HeadOf(index)
           b == [file_init EXCEPT !.size_in_sectors = SizeInSectors(size),
                                  !.bytes_unused_last_kb = UnusedInLast(size)]
<1>1. /\ pc = "file" /\ op \in {"add", "update"} /\ damage = {} /\ size \in Nat
      /\ init \in Listing /\ init # NoListing
      /\ index \in DOMAIN init.entries /\ index \in Entries
      /\ fs \in Images /\ file_init \in Block /\ issued \in Nat /\ issued >= 1
  BY FilingAssumption DEF TInv, TypeOK, Control, WriteFile, Images
<1>2. /\ fs' = [fs EXCEPT ![h] = b] /\ pc' = "list"
      /\ listing' = listing /\ init' = init /\ op' = op /\ index' = index /\ size' = size
      /\ issued' = issued /\ stored' = stored /\ misfit' = misfit
  BY DEF WriteFile, locals, HeadOf
<1>3. /\ b \in Block /\ b.next_descriptor = file_init.next_descriptor /\ b.data = file_init.data
      /\ b.size_in_sectors = SizeInSectors(size)
      /\ b.bytes_unused_last_kb = UnusedInLast(size)
  BY <1>1, SizesTyped DEF Block
<1>4. h \in FileSectors /\ h \in Heads(init)
  BY <1>1, HeadTyped
<1> HIDE DEF b
<1>5. FileSize(b) = size
  BY <1>1, <1>3, SizeIs
<1>6. Sound(fs, init, Unwritten)
  BY <1>1 DEF SInv
<1>7. /\ stored[index] = Unknown /\ FirstPart /\ (~misfit => Building)
      /\ \A s \in FileSectors, m \in Nat : At(fs, s, issued, m) => s \in Written
  BY <1>1 DEF DInv, WritingInv
<1>8. Written \subseteq Written' /\ h \in Written'
  <2>1. Unwritten' = {} /\ h \in Used(init)
    BY <1>1, <1>2, <1>4, <1>6, SoundParts DEF Unwritten, HeadsFit
  <2>2. QED
    BY <1>2, <2>1 DEF Written, Used
<1>9. StoredInv'
  <2>1. ASSUME NEW j \in Entries, stored[j] # Unknown, FileInv(j)
        PROVE  /\ Kept(fs', HeadOf(j), stored[j].id, stored[j].size)
               /\ \A s \in FileSectors, m \in Nat :
                    At(fs', s, stored[j].id, m) => At(fs, s, stored[j].id, m)
    <3> DEFINE id == stored[j].id
    <3>1. /\ Kept(fs, HeadOf(j), id, stored[j].size) /\ j \in DOMAIN init.entries
          /\ id # issued /\ index # j
      BY <1>1, <1>7, <2>1 DEF FileInv
    <3>2. HeadOf(j) \in FileSectors /\ HeadOf(j) # h
      BY <1>1, <1>6, <3>1, HeadTyped, SoundParts DEF HeadsFit, HeadOf
    <3>3. \A m \in Nat : ~At(fs, h, id, m)
      BY <1>1, <1>6, <2>1, <3>1, HeadForeign
    <3>4. \A m \in Nat : b.data # <<id, m>>
      BY <1>3, <1>7, <3>1, <3>3 DEF FirstPart, At
    <3> HIDE DEF id
    <3>5. \A s \in FileSectors, m \in Nat : At(fs', s, id, m) => At(fs, s, id, m)
      BY <1>1, <1>2, <1>3, <1>4, <3>3, <3>4, AtElsewhere
    <3>6. Kept(fs', HeadOf(j), id, stored[j].size)
      BY <1>1, <1>2, <1>3, <1>4, <3>1, <3>2, <3>3, <3>4, KeptElsewhere
    <3>7. QED
      BY <3>5, <3>6 DEF id
  <2>2. StoredInv
    BY <1>1 DEF DInv
  <2>3. Extends(init', init) /\ (listing' # NoListing => Extends(listing', listing))
    BY <1>1, <1>2 DEF Extends
  <2>4. issued' \in Nat /\ issued <= issued' /\ issued' = issued /\ op' = op
    BY <1>1, <1>2
  <2>5. listing' # NoListing =>
          listing # NoListing /\ listing'.next_free_sector = listing.next_free_sector
    BY <1>2
  <2>6. QED
    BY <1>2, <1>8, <2>1, <2>2, <2>3, <2>4, <2>5, FilesStayStored
<1>10. \A s \in FileSectors, m \in Nat : At(fs', s, issued', m) => s \in Written'
  <2>1. \A s \in FileSectors, m \in Nat : At(fs', s, issued, m) => s = h \/ At(fs, s, issued, m)
    BY <1>1, <1>2 DEF Images, At
  <2>2. QED
    BY <1>2, <1>7, <1>8, <2>1
<1>11. ~misfit => Kept(fs', h, issued, size)
  <2>1. SUFFICES ASSUME ~misfit PROVE Kept(fs', h, issued, size)
    OBVIOUS
  <2>2. Parts /\ k * BLOCK >= size /\ (size > 0 => TailAt(0))
    BY <1>1, <1>7, <2>1 DEF Building
  <2>3. \A m \in Nat : ~At(fs, h, issued, m)
    BY <1>1, <2>1, HeadNew
  <2>4. QED
    BY <1>1, <1>2, <1>3, <1>4, <1>5, <1>7, <2>2, <2>3, FileIsWhole
<1>12. HeadOf(index)' = h
  BY <1>2 DEF HeadOf
<1>13. WritingInv'
  BY <1>2, <1>7, <1>10, <1>11, <1>12 DEF WritingInv
<1>14. QED
  BY <1>1, <1>2, <1>9, <1>13 DEF Data

\* With the directory's write the operation is done: its file is stored.
LEMMA DWriteList ==
  ASSUME TInv, SInv, DInv, WriteList, damage' = {}
  PROVE  Data'
<1>1. /\ pc = "list" /\ op \in {"add", "update"} /\ damage = {} /\ init # NoListing
      /\ index \in Entries /\ index \in DOMAIN init.entries
      /\ listing' = init /\ init' = init /\ fs' = fs /\ issued' = issued
      /\ pc' = "menu" /\ op' = "none"
      /\ stored' = [stored EXCEPT ![index] =
                      IF misfit THEN Unknown ELSE [id |-> issued, size |-> size]]
      /\ issued \in Nat
  BY FilingAssumption DEF WriteList, Finish, TInv, TypeOK, Control
<1>2. \A j \in Entries : stored'[j] = IF j # index THEN stored[j]
                                      ELSE IF misfit THEN Unknown
                                      ELSE [id |-> issued, size |-> size]
  BY <1>1 DEF TInv, TypeOK
<1>3. Unwritten' = {} /\ Unwritten = {} /\ Written' = Used(init) /\ Written = Used(init)
  BY <1>1 DEF Unwritten, Written, Used
<1>4. StoredInv /\ WritingInv
  BY <1>1 DEF DInv
<1>5. \A j \in Entries : HeadOf(j)' = HeadOf(j)
  BY <1>1 DEF HeadOf
<1>6. \A s \in Written : s < init.next_free_sector
  BY <1>3 DEF Used
<1>7. ASSUME NEW j \in Entries, stored'[j] # Unknown PROVE FileInv(j)'
  <2>1. CASE j # index
    <3>1. FileInv(j) /\ stored'[j] = stored[j]
      BY <1>2, <1>4, <1>7, <2>1 DEF StoredInv
    <3>2. /\ Kept(fs', HeadOf(j)', stored'[j].id, stored'[j].size)
          /\ j \in DOMAIN init'.entries /\ stored'[j].id <= issued'
      BY <1>1, <1>5, <3>1 DEF FileInv
    <3>3. \A s \in FileSectors, m \in Nat :
            At(fs', s, stored'[j].id, m) => s \in Written' /\ s < listing'.next_free_sector
      BY <1>1, <1>3, <1>6, <3>1 DEF FileInv
    <3>4. listing'.entries[j].sector = HeadOf(j)' /\ j \in DOMAIN listing'.entries
      BY <1>1, <3>2 DEF HeadOf
    <3>5. QED
      BY <1>1, <3>2, <3>3, <3>4 DEF FileInv
  <2>2. CASE j = index
    <3>1. ~misfit /\ stored'[j] = [id |-> issued, size |-> size]
      BY <1>2, <1>7, <2>2
    <3>2. stored'[j].id = issued /\ stored'[j].size = size
      BY <3>1
    <3>3. /\ Kept(fs', HeadOf(j)', stored'[j].id, stored'[j].size)
          /\ j \in DOMAIN init'.entries /\ stored'[j].id <= issued'
      BY <1>1, <1>4, <1>5, <2>2, <3>1, <3>2 DEF WritingInv
    <3>4. \A s \in FileSectors, m \in Nat :
            At(fs', s, stored'[j].id, m) => s \in Written' /\ s < listing'.next_free_sector
      BY <1>1, <1>3, <1>4, <1>6, <3>2 DEF WritingInv
    <3>5. listing'.entries[j].sector = HeadOf(j)' /\ j \in DOMAIN listing'.entries
      BY <1>1, <3>3 DEF HeadOf
    <3>6. QED
      BY <1>1, <3>3, <3>4, <3>5 DEF FileInv
  <2>3. QED
    BY <2>1, <2>2
<1>8. ASSUME NEW i \in Entries, NEW j \in Entries, i # j,
             stored'[i] # Unknown, stored'[j] # Unknown
      PROVE  stored'[i].id # stored'[j].id
  <2>1. \A l \in Entries : l # index /\ stored'[l] # Unknown => stored'[l].id # issued
    BY <1>1, <1>2, <1>4 DEF StoredInv, FileInv
  <2>2. CASE i # index /\ j # index
    BY <1>2, <1>4, <1>8, <2>2 DEF StoredInv
  <2>3. CASE i = index
    BY <1>2, <1>8, <2>1, <2>3
  <2>4. CASE j = index
    BY <1>2, <1>8, <2>1, <2>4
  <2>5. QED
    BY <2>2, <2>3, <2>4
<1>9. StoredInv'
  BY <1>7, <1>8 DEF StoredInv
<1>10. QED
  BY <1>1, <1>9 DEF Data, WritingInv

\* Deleting and renaming change no sector of an entry.
LEMMA DEntryRewritten ==
  ASSUME TInv, SInv, DInv, AtMenu, damage = {}, NEW i \in DOMAIN init.entries, NEW m \in Names,
         \/ init' = [init EXCEPT !.entries[i].deleted = TRUE]
         \/ init' = [init EXCEPT !.entries[i].name = m],
         listing' = init', fs' = fs, stored' = stored, issued' = issued,
         pc' \in {"menu", "markfile"}, op' \in {"none", "delete"}
  PROVE  Data'
<1>1. init \in Listing /\ init # NoListing /\ listing = init /\ Unwritten = {}
      /\ issued \in Nat /\ StoredInv
  BY AtRest, FilingAssumption DEF TInv, TypeOK, DInv
<1>2. /\ init' # NoListing /\ DOMAIN init'.entries = DOMAIN init.entries
      /\ init'.next_free_sector = init.next_free_sector
      /\ \A j \in DOMAIN init.entries : init'.entries[j].sector = init.entries[j].sector
  BY <1>1, MarkSet
<1>3. Extends(init', init) /\ Extends(listing', listing)
  BY <1>1, <1>2 DEF Extends
<1>4. Written' = Written
  BY <1>1, <1>2 DEF Written, Unwritten, Used
<1>5. /\ listing # NoListing /\ listing'.next_free_sector = listing.next_free_sector
      /\ issued' \in Nat /\ issued <= issued' /\ op' \notin {"add", "update"}
  BY <1>1, <1>2
<1>6. StoredInv'
  BY <1>1, <1>3, <1>4, <1>5, FilesStayStored, FilesUnwritten
<1>7. QED
  BY <1>2, <1>5, <1>6 DEF Data, WritingInv

\* Deleting starts so.
LEMMA DDeleteFile ==
  ASSUME TInv, SInv, DInv, NEW n \in Names, DeleteFile(n), damage' = {}
  PROVE  Data'
<1>1. PICK i \in Entries :
        /\ AtMenu /\ FoundAt(n, i)
        /\ init' = [init EXCEPT !.entries[i].deleted = TRUE]
        /\ listing' = init' /\ fs' = fs /\ damage' = damage
        /\ pc' = "markfile" /\ op' = "delete" /\ stored' = stored /\ issued' = issued
  BY DEF DeleteFile
<1>2. i \in DOMAIN init.entries
  BY <1>1 DEF FoundAt
<1>3. QED
  BY <1>1, <1>2, DEntryRewritten

\* Renaming is no more than that.
LEMMA DRename ==
  ASSUME TInv, SInv, DInv, NEW n \in Names, NEW m \in Names, Rename(n, m), damage' = {}
  PROVE  Data'
<1>1. PICK i \in Entries :
        /\ AtMenu /\ FoundAt(n, i)
        /\ init' = [init EXCEPT !.entries[i].name = m]
        /\ listing' = init' /\ fs' = fs /\ damage' = damage /\ pc' = pc /\ op' = op
        /\ stored' = stored /\ issued' = issued
  BY DEF Rename, locals
<1>2. i \in DOMAIN init.entries /\ pc = "menu" /\ op = "none"
  BY <1>1 DEF FoundAt, AtMenu, TInv, Control
<1>3. QED
  BY <1>1, <1>2, DEntryRewritten

\* Marking a descriptor leaves its data, sizes and link.
LEMMA DMark ==
  ASSUME TInv, SInv, DInv, MarkFile \/ MarkNext, damage' = {}
  PROVE  Data'
<1> DEFINE x == IF pc = "markfile" THEN init.entries[index].sector ELSE next_descriptor
           b == IF pc = "markfile" THEN ZeroBlock ELSE file_desc
           new == [Read(x, b) EXCEPT !.deleted = TRUE]
<1>1. /\ pc \in {"markfile", "mark"} /\ op = "delete" /\ damage' = damage
      /\ init \in Listing /\ init # NoListing /\ index \in DOMAIN init.entries
      /\ fs' = [fs EXCEPT ![x] = new] /\ listing' = listing /\ init' = init
      /\ stored' = stored /\ issued' = issued
      /\ pc' \in {"menu", "mark"} /\ op' \in {"none", "delete"}
  BY DEF TInv, TypeOK, Control, MarkFile, MarkNext, Finish
<1>2. Unwritten = {} /\ Unwritten' = {} /\ damage = {}
  BY <1>1 DEF Unwritten
<1>3. Sound(fs, init, {}) /\ OwnInv /\ StoredInv /\ issued \in Nat
  BY <1>1, <1>2, FilingAssumption DEF SInv, DInv, TInv, TypeOK
<1>4. x \in Used(init)
  BY <1>1, <1>3, HeadUsed DEF OwnInv
<1>5. fs[x] \in Block /\ x \in FileSectors
  BY <1>3, <1>4, SoundParts DEF LinksFit, Used
<1>6. Read(x, b) = fs[x]
  BY <1>5, ReadWritten
<1> HIDE DEF x, b
<1>7. /\ new \in Block /\ new.next_descriptor = fs[x].next_descriptor /\ new.data = fs[x].data
      /\ new.size_in_sectors = fs[x].size_in_sectors
      /\ new.bytes_unused_last_kb = fs[x].bytes_unused_last_kb
  BY <1>5, <1>6 DEF Block
<1> HIDE DEF new
<1>8. FileSize(new) = FileSize(fs[x])
  BY <1>7 DEF FileSize
<1>9. ASSUME NEW j \in Entries, stored[j] # Unknown, FileInv(j)
      PROVE  /\ Kept(fs', HeadOf(j), stored[j].id, stored[j].size)
             /\ \A s \in FileSectors, m \in Nat :
                  At(fs', s, stored[j].id, m) => At(fs, s, stored[j].id, m)
  BY <1>1, <1>5, <1>7, <1>8, <1>9, FileKeptSame
<1>10. Written' = Written
  BY <1>1, <1>2 DEF Written, Used
<1>11. Extends(init', init) /\ (listing' # NoListing => Extends(listing', listing))
  BY <1>1 DEF Extends
<1>12. /\ listing' # NoListing =>
            listing # NoListing /\ listing'.next_free_sector = listing.next_free_sector
       /\ issued' \in Nat /\ issued <= issued' /\ op' \notin {"add", "update"}
  BY <1>1, <1>3
<1>13. StoredInv'
  BY <1>1, <1>3, <1>9, <1>10, <1>11, <1>12, FilesStayStored
<1>14. QED
  BY <1>1, <1>12, <1>13 DEF Data, WritingInv

\* A restart finds the files by the directory on disk.
LEMMA DCrash ==
  ASSUME TInv, DInv, Crash, damage' = {}
  PROVE  Data'
<1>1. /\ damage = {} /\ (listing # NoListing \/ init = NoListing)
      /\ init' = listing /\ listing' = listing /\ fs' = fs /\ pc' = "menu" /\ op' = "none"
      /\ stored' = stored /\ issued' = issued
  BY DEF Crash, Restart, Finish, image
<1>2. (init = NoListing => listing = NoListing) /\ StoredInv
  BY <1>1 DEF DInv
<1>3. Written' = Used(listing)
  BY <1>1 DEF Written, Unwritten, Used
<1>4. ASSUME NEW j \in Entries, stored'[j] # Unknown PROVE FileInv(j)'
  <2>1. FileInv(j) /\ listing # NoListing
    BY <1>1, <1>2, <1>4 DEF StoredInv, FileInv
  <2>2. HeadOf(j)' = HeadOf(j) /\ j \in DOMAIN listing.entries
    BY <1>1, <2>1 DEF FileInv, HeadOf
  <2>3. \A s \in FileSectors, m \in Nat :
          At(fs', s, stored'[j].id, m) => s \in Written' /\ s < listing'.next_free_sector
    BY <1>1, <1>3, <2>1 DEF FileInv, Used
  <2>4. listing'.entries[j].sector = HeadOf(j)'
    BY <1>1 DEF HeadOf
  <2>5. QED
    BY <1>1, <2>1, <2>2, <2>3, <2>4 DEF FileInv
<1>5. StoredInv'
  BY <1>1, <1>2, <1>4 DEF StoredInv
<1>6. QED
  BY <1>1, <1>5 DEF Data, WritingInv

\* Every step leaves the files whole.
LEMMA DNext == ASSUME TInv, SInv, DInv, [Next]_vars PROVE DInv'
<1>1. TInv' /\ Fresh'
  BY TNext, FreshNext DEF DInv
<1>2. SUFFICES ASSUME damage' = {} PROVE Data'
  BY <1>1 DEF DInv, Data
<1>3. CASE UNCHANGED vars
  <2>1. Data
    BY <1>2, <1>3 DEF DInv, Data, vars
  <2>2. QED
    BY <1>3, <2>1, DStutter
<1>4. CASE Next
  BY <1>1, <1>2, <1>4, DCreateFS, DAddFile, DUpdateFile, DOverwrite, DLink, DAppendBlock,
     DWriteFile, DWriteList, DDeleteFile, DRename, DMark, DCrash, SHarm DEF Next, Step
<1>5. QED
  BY <1>3, <1>4

\* Every file whose last write operation came to its end reads back, by the
\* directory on disk, with the size and the contents that operation gave it, and
\* get_file_data, which copies descriptors until a link is 0, stays in its buffer:
\* whatever was done to other files since and wherever the program was killed.
THEOREM FilesComeBack == Spec => []FilesReadBack
<1>1. Init => TInv /\ SInv /\ DInv
  BY TInit, SInit, DInit
<1>2. TInv /\ SInv /\ DInv /\ [Next]_vars => TInv' /\ SInv' /\ DInv'
  BY TNext, SNext, DNext
<1>3. TInv /\ DInv => FilesReadBack
  <2>1. SUFFICES ASSUME TInv, DInv, damage = {}, listing # NoListing,
                        NEW i \in Entries, stored[i] # Unknown
                 PROVE  /\ i \in DOMAIN listing.entries
                        /\ Holds(listing.entries[i].sector, stored[i].id, stored[i].size)
                        /\ FitsBuffer(listing.entries[i].sector)
    BY DEF FilesReadBack
  <2>2. FileInv(i) /\ stored[i].size \in Nat
    BY <2>1, StoredTyped DEF DInv, StoredInv
  <2>3. HeadOf(i) \in FileSectors /\ listing.entries[i].sector = HeadOf(i)
        /\ i \in DOMAIN listing.entries
    BY <2>1, <2>2, HeadTyped DEF FileInv
  <2>4. Holds(HeadOf(i), stored[i].id, stored[i].size) /\ FitsBuffer(HeadOf(i))
    BY <2>2, <2>3, KeptHolds, KeptFits DEF FileInv
  <2>5. QED
    BY <2>3, <2>4
<1>4. QED
  BY <1>1, <1>2, <1>3, PTL DEF Spec

------------------------------------------------------------------------------
(***************************************************************************)
(* The chains of a sound directory.                                        *)
(***************************************************************************)
\* The sector that get_file_data copies n-th of the chain of the file at entry i of
\* directory d, or 0 behind its end.
Chain(d, i, n) ==
  LET s == d.entries[i].sector
  IN  IF n = 0 THEN s
      ELSE IF Copied(s, n - 1) = Nothing THEN 0 ELSE Copied(s, n - 1).next_descriptor

\* No sector is in the chains of two files, nor twice in the chain of one.
Apart(d) ==
  \A i, j \in DOMAIN d.entries : \A m, n \in Nat :
    Chain(d, i, m) = Chain(d, j, n) /\ Chain(d, i, m) # 0 => i = j /\ m = n

\* Every chain comes to its end within the image.
Ends(d) == \A i \in DOMAIN d.entries : \E n \in 1..LastSector : Chain(d, i, n) = 0

\* In a sound directory a walk copies what its sectors hold, and goes where they point.
LEMMA ChainStep ==
  ASSUME NEW d, Sound(fs, d, {}), NEW i \in DOMAIN d.entries
  PROVE  /\ Chain(d, i, 0) = d.entries[i].sector
         /\ \A n \in Nat :
              /\ Chain(d, i, n) \in Used(d) \cup {0}
              /\ Chain(d, i, n + 1) = IF Chain(d, i, n) = 0 THEN 0
                                      ELSE fs[Chain(d, i, n)].next_descriptor
<1> DEFINE h == d.entries[i].sector
           Copies(n) == /\ Chain(d, i, n) \in Used(d) \cup {0}
                        /\ Copied(h, n) = IF Chain(d, i, n) = 0 THEN Nothing
                                          ELSE fs[Chain(d, i, n)]
           S == {n \in Nat : Copies(n)}
<1>1. HeadsFit(d) /\ LinksFit(fs, d, {})
  BY SoundParts
<1>2. \A s \in Used(d) : /\ s # 0 /\ s \in FileSectors /\ fs[s] \in Block /\ fs[s] # Nothing
                         /\ fs[s].next_descriptor \in Used(d) \cup {0}
  BY <1>1, SectorsAreNumbers, FilingAssumption DEF LinksFit, Used
<1>3. Chain(d, i, 0) = h
  BY DEF Chain
<1>4. h \in Used(d)
  BY <1>1 DEF HeadsFit, Heads
<1>5. \A n \in Nat : Chain(d, i, n + 1) = IF Copied(h, n) = Nothing THEN 0
                                          ELSE Copied(h, n).next_descriptor
  BY DEF Chain
<1>6. Copied(h, 0) = fs[h]
  BY CopiedStep
<1> HIDE DEF h
<1>7. Copies(0)
  BY <1>2, <1>3, <1>4, <1>6
<1>8. ASSUME NEW n \in Nat, Copies(n)
      PROVE  /\ Copies(n + 1)
             /\ Chain(d, i, n + 1) = IF Chain(d, i, n) = 0 THEN 0
                                     ELSE fs[Chain(d, i, n)].next_descriptor
  <2> DEFINE s == Chain(d, i, n)
             t == Chain(d, i, n + 1)
  <2>1. Copied(h, n + 1) = NextCopy(Copied(h, n))
    BY CopiedStep
  <2>2. CASE s = 0
    <3>1. Copied(h, n) = Nothing
      BY <1>8, <2>2
    <3>2. t = 0 /\ Copied(h, n + 1) = Nothing
      BY <1>5, <2>1, <3>1 DEF NextCopy
    <3>3. QED
      BY <2>2, <3>2
  <2>3. CASE s # 0
    <3>1. s \in Used(d) /\ Copied(h, n) = fs[s]
      BY <1>8, <2>3
    <3>2. s \in FileSectors /\ fs[s] \in Block /\ fs[s] # Nothing
      BY <1>2, <3>1
    <3>3. t = fs[s].next_descriptor
      BY <1>5, <3>1, <3>2
    <3>4. t \in Used(d) \cup {0}
      BY <1>2, <3>1, <3>3
    <3> HIDE DEF s, t
    <3>5. CASE t = 0
      <4>1. Copied(h, n + 1) = Nothing
        BY <3>1, <3>2, <3>3, <3>5, CopiedNext
      <4>2. QED
        BY <2>3, <3>3, <3>5, <4>1 DEF s, t
    <3>6. CASE t # 0
      <4>1. t \in FileSectors /\ fs[t] \in Block
        BY <1>2, <3>4, <3>6
      <4>2. Copied(h, n + 1) = fs[t]
        BY <3>1, <3>2, <3>3, <4>1, CopiedNext
      <4>3. QED
        BY <2>3, <3>3, <3>4, <3>6, <4>2 DEF s, t
    <3>7. QED
      BY <3>5, <3>6
  <2>4. QED
    BY <2>2, <2>3
<1>9. 0 \in S /\ \A n \in Nat : n \in S => n + 1 \in S
  BY <1>7, <1>8
<1>10. \A n \in Nat : Copies(n)
  <2>1. SUFFICES ASSUME NEW n \in Nat PROVE n \in S
    OBVIOUS
  <2> HIDE DEF S
  <2>2. \A m \in Nat : m < n + 1 => m \in S
    BY <1>9, Induction
  <2>3. QED
    BY <2>2
<1>11. QED
  BY <1>3, <1>8, <1>10 DEF h

\* A chain stays in used sectors and meets no first sector of a file again.
LEMMA ChainUsed ==
  ASSUME NEW d, Sound(fs, d, {}), NEW i \in DOMAIN d.entries
  PROVE  \A n \in Nat : /\ Chain(d, i, n) \in Used(d) \cup {0}
                        /\ Chain(d, i, n + 1) \notin Heads(d)
                        /\ Chain(d, i, n) = 0 => Chain(d, i, n + 1) = 0
<1>1. HeadsFit(d) /\ LinksFit(fs, d, {})
  BY SoundParts
<1>2. 0 \notin Heads(d)
  BY <1>1, SectorsAreNumbers DEF HeadsFit, Used
<1>3. \A s \in Used(d) : fs[s].next_descriptor \in (Used(d) \ Heads(d)) \cup {0}
  BY <1>1 DEF LinksFit
<1>4. ASSUME NEW n \in Nat
      PROVE  /\ Chain(d, i, n) \in Used(d) \cup {0}
             /\ Chain(d, i, n + 1) \notin Heads(d)
             /\ Chain(d, i, n) = 0 => Chain(d, i, n + 1) = 0
  <2>1. /\ Chain(d, i, n) \in Used(d) \cup {0}
        /\ Chain(d, i, n + 1) = IF Chain(d, i, n) = 0 THEN 0
                                ELSE fs[Chain(d, i, n)].next_descriptor
    BY ChainStep
  <2>2. QED
    BY <1>2, <1>3, <2>1
<1>5. QED
  BY <1>4

\* So two chains that meet have met from the first sector on.
LEMMA ChainsApart ==
  ASSUME NEW d, Sound(fs, d, {})
  PROVE  Apart(d)
<1> DEFINE D == DOMAIN d.entries
           S == {m \in Nat : \A i, j \in D : \A n \in Nat :
                   Chain(d, i, m) = Chain(d, j, n) /\ Chain(d, i, m) # 0 => i = j /\ m = n}
<1>1. HeadsFit(d) /\ LinksFit(fs, d, {}) /\ LinksDiffer(fs, d, {})
  BY SoundParts
<1>2. \A i \in D : Chain(d, i, 0) = d.entries[i].sector /\ Chain(d, i, 0) \in Heads(d)
  BY ChainStep DEF Heads
<1>3. \A i \in D, n \in Nat : /\ Chain(d, i, n) \in Used(d) \cup {0}
                              /\ Chain(d, i, n + 1) \notin Heads(d)
                              /\ Chain(d, i, n) = 0 => Chain(d, i, n + 1) = 0
  BY ChainUsed
<1>4. \A i \in D, n \in Nat : n # 0 => Chain(d, i, n) \notin Heads(d)
  <2>1. SUFFICES ASSUME NEW i \in D, NEW n \in Nat, n # 0
                 PROVE  Chain(d, i, n) \notin Heads(d)
    OBVIOUS
  <2>2. n - 1 \in Nat /\ (n - 1) + 1 = n
    BY <2>1
  <2>3. QED
    BY <1>3, <2>2
<1>5. 0 \in S
  BY <1>1, <1>2, <1>4 DEF HeadsFit
<1>6. ASSUME NEW m \in Nat, m \in S PROVE m + 1 \in S
  <2>1. SUFFICES ASSUME NEW i \in D, NEW j \in D, NEW n \in Nat,
                        Chain(d, i, m + 1) = Chain(d, j, n), Chain(d, i, m + 1) # 0
                 PROVE  i = j /\ m + 1 = n
    OBVIOUS
  <2>2. n # 0 /\ n - 1 \in Nat /\ (n - 1) + 1 = n
    <3>1. Chain(d, j, n) \notin Heads(d) /\ Chain(d, j, 0) \in Heads(d)
      BY <1>2, <1>3, <2>1
    <3>2. n # 0
      BY <3>1
    <3>3. QED
      BY <3>2
  <2> DEFINE s == Chain(d, i, m)
             t == Chain(d, j, n - 1)
  <2>3. s \in Used(d) /\ t \in Used(d) /\ s # 0 /\ t # 0
    <3>1. s \in Used(d) \cup {0} /\ s # 0
      BY <1>3, <2>1
    <3>2. t \in Used(d) \cup {0} /\ t # 0
      BY <1>3, <2>1, <2>2
    <3>3. QED
      BY <3>1, <3>2
  <2>4. fs[s] # Nothing /\ fs[t] # Nothing
    BY <1>1, <2>3, FilingAssumption DEF LinksFit
  <2>5. fs[s].next_descriptor = Chain(d, i, m + 1)
    BY <2>3, ChainStep
  <2>6. fs[t].next_descriptor = Chain(d, j, n)
    BY <2>2, <2>3, ChainStep
  <2>7. s = t
    BY <1>1, <2>1, <2>3, <2>5, <2>6 DEF LinksDiffer
  <2>8. i = j /\ m = n - 1
    BY <1>6, <2>2, <2>3, <2>7
  <2>9. QED
    BY <2>2, <2>8
<1>7. ASSUME NEW m \in Nat PROVE m \in S
  <2> HIDE DEF S
  <2>1. \A k1 \in Nat : k1 < m + 1 => k1 \in S
    BY <1>5, <1>6, Induction
  <2>2. QED
    BY <2>1
<1>8. QED
  BY <1>7 DEF Apart

\* There are not sectors enough for a chain that has no end.
LEMMA ChainsEnd ==
  ASSUME NEW d, Sound(fs, d, {})
  PROVE  Ends(d)
<1>1. SUFFICES ASSUME NEW i \in DOMAIN d.entries,
                      \A n \in 1..LastSector : Chain(d, i, n) # 0
               PROVE  FALSE
  BY DEF Ends
<1> DEFINE f == [n \in 0..LastSector |-> Chain(d, i, n)]
<1>2. LastSector \in Nat
  BY FilingAssumption
<1>3. Chain(d, i, 0) # 0
  <2>1. Chain(d, i, 0) \in Heads(d)
    BY ChainStep DEF Heads
  <2>2. QED
    BY <2>1, SoundParts, SectorsAreNumbers DEF HeadsFit, Used
<1>4. \A n \in 0..LastSector : Chain(d, i, n) # 0 /\ Chain(d, i, n) \in FileSectors
  <2>1. \A n \in 0..LastSector : n = 0 \/ n \in 1..LastSector
    BY <1>2
  <2>2. \A n \in Nat : Chain(d, i, n) \in FileSectors \cup {0}
    BY ChainUsed DEF Used
  <2>3. QED
    BY <1>1, <1>2, <1>3, <2>1, <2>2
<1>5. \A m, n \in 0..LastSector : f[m] = f[n] => m = n
  BY <1>2, <1>4, ChainsApart DEF Apart
<1>6. f \in [0..LastSector -> 1..LastSector]
  <2>1. FileSectors \subseteq 1..LastSector
    BY <1>2, SectorsAreNumbers
  <2>2. QED
    BY <1>4, <2>1
<1> HIDE DEF f
<1>7. f \in Injection(0..LastSector, 1..LastSector)
  BY <1>5, <1>6, Fun_IsInj
<1>8. Cardinality(0..LastSector) = LastSector + 1 /\ Cardinality(1..LastSector) = LastSector
      /\ IsFiniteSet(1..LastSector)
  BY <1>2, FS_Interval
<1>9. Cardinality(0..LastSector) <= Cardinality(1..LastSector)
  BY <1>7, <1>8, FS_Injection
<1>10. QED
  BY <1>2, <1>8, <1>9

\* Adding, updating, deleting and renaming files in any order, the program
\* killed anywhere: the chains that a restart will walk from the directory on
\* disk (get_file_data, write_file_data, delete_file) have no sector in common
\* and none is a ring, so that no such walk is endless.
THEOREM ChainsStayApart ==
  Spec => [](damage = {} /\ listing # NoListing /\ ~Growing => Apart(listing) /\ Ends(listing))
<1>1. DiskIsSound => (damage = {} /\ listing # NoListing /\ ~Growing
                       => Apart(listing) /\ Ends(listing))
  BY ChainsApart, ChainsEnd DEF DiskIsSound
<1>2. QED
  BY <1>1, DiskStaysSound, PTL
==============================================================================
