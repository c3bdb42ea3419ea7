--------------------------- MODULE KernalFSProofs ---------------------------
(***************************************************************************)
(* Proofs about KernalFS, for images, directories and names of any size    *)
(* and for files that look like anything when read as a directory.         *)
(***************************************************************************)
EXTENDS KernalFS, TLAPS

------------------------------------------------------------------------------
(* The inductive invariant.                                                *)

\* The slot to be handed out is one of the image: Start asks for it.
Roomy ==
  /\ place \in {"boot", "describe"} => disk[0].free <= LastSlot
  /\ place = "count" => buffer.free <= LastSlot

\* What holds of an image whenever the emulator may be gone.
Safe(image) ==
  /\ Counted(image)
  /\ image[0].sfs => image[image[0].link] # FileData

\* A kill takes the disk back to an image that is as safe and has the same files.
Images ==
  /\ Safe(disk) /\ Safe(stable)
  /\ disk[0].sfs = stable[0].sfs
  /\ disk[0].sfs => KeepsFiles(disk, stable)

\* The buffer is the initial directory, but for the version and the link.
Copy == /\ buffer.sfs = disk[0].sfs /\ buffer.list = disk[0].list
        /\ buffer.free = disk[0].free

\* The slot on the stack is counted on the disk and nothing is in it.
Taken == disk[0].free = popped + 1 /\ disk[popped] = Absent

\* How far fs_new_dir_desc is.
Progress ==
  /\ place = "count" => /\ Copy /\ buffer.link = disk[0].link
                        /\ sector = 0 /\ popped = buffer.free
  /\ place = "chain" => /\ buffer.link = disk[0].link
                        /\ disk[0].sfs => Taken /\ buffer.link < popped
  /\ place = "link" => /\ sector = 0 => Copy
                       /\ disk[0].sfs => /\ Taken /\ sector < popped
                                         /\ disk[sector] # FileData
  /\ place = "new" => (disk[0].sfs => Taken /\ popped # 0)

IInv == TypeOK /\ Roomy /\ Images /\ Progress

------------------------------------------------------------------------------
\* The cleared buffer is a directory (of no format).
LEMMA ZerosIsDirectory == Zeros \in Directory /\ ~Zeros.sfs /\ Zeros.link = 0
  BY SizesAssumption DEF Zeros, Directory, Slots, Places, Entries

\* A write gives an image with the directory in its slot; behind it nothing
\* changes, and in front of it a gap is filled.
LEMMA WrittenImage ==
  ASSUME NEW image \in [Slots -> Content], image[0] \in Directory,
         NEW s \in Slots, NEW d \in Directory
  PROVE  /\ Written(image, s, d) \in [Slots -> Content]
         /\ Written(image, s, d)[0] \in Directory
         /\ Written(image, s, d)[s] = d
         /\ \A t \in Slots \ {s} :
              Written(image, s, d)[t] = IF t < s /\ image[t] = Absent THEN Zeros
                                        ELSE image[t]
         /\ s # 0 => Written(image, s, d)[0] = image[0]
<1> DEFINE w == Written(image, s, d)
<1>1. w = [t \in Slots |-> IF t = s THEN d
                           ELSE IF t < s /\ image[t] = Absent THEN Zeros ELSE image[t]]
  BY DEF Written
<1>2. d \in Content /\ Zeros \in Content
  BY ZerosIsDirectory DEF Content
<1>3. 0 \in Slots /\ image[0] # Absent
  BY SizesAssumption, ContentAssumption DEF Slots
<1>4. w \in [Slots -> Content] /\ w[s] = d
  BY <1>1, <1>2
<1>5. \A t \in Slots \ {s} : w[t] = IF t < s /\ image[t] = Absent THEN Zeros ELSE image[t]
  BY <1>1
<1>6. w[0] \in Directory /\ (s # 0 => w[0] = image[0])
  BY <1>1, <1>3
<1>7. QED
  BY <1>4, <1>5, <1>6

\* fs_initialize changes nothing of a directory but its version.
LEMMA InitializedCopies ==
  ASSUME NEW d \in Directory
  PROVE  /\ Initialized(d) \in Directory
         /\ Initialized(d).sfs = d.sfs /\ Initialized(d).free = d.free
         /\ Initialized(d).link = d.link /\ Initialized(d).list = d.list
  BY DEF Initialized, Directory

\* A read gives a directory, whatever is in the slot.
LEMMA ReadGivesDirectory ==
  ASSUME TypeOK, NEW s \in Slots, Read(s)
  PROVE  buffer' \in Directory
  BY ContentAssumption DEF Read, Contents, TypeOK, Flush

\* The disks that are put in, and the memory at the first start.
LEMMA InitType == Init => TypeOK
<1> SUFFICES ASSUME Init PROVE TypeOK
  OBVIOUS
<1>1. 0 \in Slots /\ 1 \in Slots /\ 0 \in Places /\ NoEntry \in Entries /\ Names \subseteq Entries
  BY SizesAssumption DEF Slots, Places, Entries
<1>2. NoListing \in [Places -> Entries]
  BY <1>1 DEF NoListing
<1>3. \A free \in 0..(LastSlot + 1), link \in Slots, list \in [Places -> Entries] :
        ToolDirectory(free, link, list) \in Directory
  BY DEF ToolDirectory, Directory
<1>4. ToolDirectory(1, 0, NoListing) \in Directory /\ ToolDirectory(2, 1, NoListing) \in Directory
  BY <1>1, <1>2, <1>3, SizesAssumption DEF Slots
<1>5. Blank \in [Slots -> Content] /\ Blank[0] \in Directory
  BY <1>1, <1>4 DEF Blank, Content
<1>6. ASSUME NEW n \in Names
      PROVE  [Zeros EXCEPT !.list[0] = n] \in Directory
  BY <1>1, ZerosIsDirectory DEF Directory
<1>7. \A i \in TwoDirectories : i \in [Slots -> Content] /\ i[0] \in Directory
  BY <1>1, <1>4, <1>6 DEF TwoDirectories, Content
<1>8. ASSUME NEW fr \in Slots, NEW l \in Slots
      PROVE  ForeignDirectory(fr, l) \in Directory
  BY <1>2, SizesAssumption DEF ForeignDirectory, Directory, Slots
<1>9. ASSUME NEW i \in ForeignDisks PROVE i \in [Slots -> Content] /\ i[0] \in Directory
  <2>1. PICK fr \in Slots, l \in Slots :
          i = [s \in Slots |-> IF s = 0 THEN ForeignDirectory(fr, l) ELSE FileData]
    BY DEF ForeignDisks
  <2>2. QED
    BY <1>1, <1>8, <2>1 DEF Content
<1>10. disk \in [Slots -> Content] /\ disk[0] \in Directory
  BY <1>5, <1>7, <1>9 DEF Init
<1>11. other \in Directory
  <2>1. PICK l \in 0..1, e \in Entries : other = ToolDirectory(1, l, [NoListing EXCEPT ![0] = e])
    BY DEF Init
  <2>2. [NoListing EXCEPT ![0] = e] \in [Places -> Entries] /\ l \in Slots
    BY <1>1, <1>2, SizesAssumption DEF Slots
  <2>3. 1 \in 0..(LastSlot + 1)
    BY SizesAssumption
  <2>4. QED
    BY <2>1, <2>2, <2>3, <1>3
<1>12. stable \in [Slots -> Content] /\ stable[0] \in Directory
  BY <1>10 DEF Init
<1>13. shown \in Seq(Names) /\ source \in [Places -> Entries]
  BY <1>2 DEF Init
<1>14. QED
  BY <1>1, <1>10, <1>11, <1>12, <1>13, ZerosIsDirectory DEF Init, TypeOK

LEMMA InitImages == Init => Images
<1> SUFFICES ASSUME Init PROVE Images
  OBVIOUS
<1>1. 0 \in Slots /\ 1 \in Slots /\ \A s \in Slots : s \in Nat
  BY SizesAssumption DEF Slots
<1>2. Safe(Blank)
  <2>1. Blank[0].link = 0 /\ Blank[0].free = 1 /\ \A s \in Slots \ {0} : Blank[s] = Absent
    BY <1>1 DEF Blank, ToolDirectory
  <2>2. NoListing \in [Places -> Entries]
    BY DEF NoListing, Entries
  <2>3. Blank[0] \in Directory
    BY <1>1, <2>2, SizesAssumption DEF Blank, ToolDirectory, Directory
  <2>4. QED
    BY <1>1, <2>1, <2>3, ContentAssumption DEF Safe, Counted
<1>3. ASSUME NEW i \in TwoDirectories PROVE Safe(i)
  <2>1. PICK n \in Names :
          i = [s \in Slots |-> IF s = 0 THEN ToolDirectory(2, 1, NoListing)
                               ELSE IF s = 1 THEN [Zeros EXCEPT !.list[0] = n] ELSE Absent]
    BY DEF TwoDirectories
  <2>2. [Zeros EXCEPT !.list[0] = n].link = 0 /\ [Zeros EXCEPT !.list[0] = n] \in Directory
    BY ZerosIsDirectory, SizesAssumption DEF Zeros, Directory, Places, Entries
  <2>3. i[1] # FileData
    BY <2>1, <2>2, <1>1, ContentAssumption
  <2>4. i[0].link = 1 /\ i[0].free = 2
    BY <2>1, <1>1 DEF ToolDirectory
  <2>5. \A s \in Slots : /\ i[s] # Absent => s < 2
                         /\ i[s] \in Directory => i[s].link < 2
    BY <2>1, <2>2, <2>4, <1>1, ContentAssumption
  <2>6. QED
    BY <2>3, <2>4, <2>5 DEF Safe, Counted
<1>4. ASSUME NEW i \in ForeignDisks PROVE Safe(i)
  <2>1. PICK fr \in Slots, l \in Slots : i[0] = ForeignDirectory(fr, l)
    BY <1>1 DEF ForeignDisks
  <2>1a. ~i[0].sfs
    BY <2>1 DEF ForeignDirectory
  <2>2. QED
    BY <2>1a DEF Safe, Counted
<1>5. Safe(disk)
  BY <1>2, <1>3, <1>4 DEF Init
<1>6. QED
  BY <1>5 DEF Init, Images, KeepsFiles

------------------------------------------------------------------------------
\* Steps that do not write: the disk stays, what a kill brings back is the disk or
\* what it was, and the images stay safe.
LEMMA NoWrite ==
  ASSUME Images, UNCHANGED disk, stable' = disk \/ stable' = stable
  PROVE  Images'
  BY DEF Images, KeepsFiles

\* Every step of the kernal keeps the types and the room for the new slot.
LEMMA TypeStep == IInv /\ [Next]_vars => TypeOK' /\ Roomy'
<1> SUFFICES ASSUME IInv, [Next]_vars PROVE TypeOK' /\ Roomy'
  OBVIOUS
<1> USE DEF IInv
<1>a. 0 \in Slots /\ \A s \in Slots : s \in Nat /\ s <= LastSlot
  BY SizesAssumption DEF Slots
<1>b. 0 \in Places /\ NoListing \in [Places -> Entries]
  BY SizesAssumption DEF Places, NoListing, Entries
<1>c. \A d \in Directory : /\ d.free \in 0..(LastSlot + 1) /\ d.link \in Slots
                           /\ d.list \in [Places -> Entries]
  BY DEF Directory
<1>1. CASE Start
  BY <1>1 DEF Start, listing, TypeOK, Roomy, Booting
<1>2. CASE BootRead
  <2>1. buffer' \in Directory /\ disk' = disk /\ stable' = disk /\ sector' = 0
    BY <1>2, InitializedCopies DEF BootRead, Initialize, TypeOK, Flush
  <2>2. QED
    BY <1>2, <2>1, <1>a DEF BootRead, Initialize, listing, TypeOK, Roomy, Booting, Flush
<1>3. CASE DescribeRead
  <2>1. buffer' \in Directory /\ disk' = disk /\ stable' = disk /\ sector' = 0
        /\ buffer'.free = disk[0].free
    BY <1>3, InitializedCopies DEF DescribeRead, Initialize, TypeOK, Flush
  <2>2. disk[0].free \in Slots
    BY <1>3, <1>c, SizesAssumption DEF DescribeRead, TypeOK, Roomy, Slots
  <2>3. QED
    BY <1>3, <2>1, <2>2, <1>a
       DEF DescribeRead, Initialize, listing, TypeOK, Roomy, Booting, Slots, Flush
<1>4. CASE WriteCount
  <2>1. buffer.free + 1 \in 0..(LastSlot + 1)
    BY <1>4, <1>c, SizesAssumption DEF WriteCount, TypeOK, Roomy
  <2>2. buffer' \in Directory
    BY <1>4, <2>1 DEF WriteCount, TypeOK, Directory
  <2>3. disk' \in [Slots -> Content] /\ disk'[0] \in Directory
    BY <1>4, <2>2, <1>a, WrittenImage DEF WriteCount, Write, TypeOK, Flush
  <2>4. QED
    BY <1>4, <2>2, <2>3 DEF WriteCount, Write, listing, TypeOK, Roomy, Booting, Flush
<1>5. CASE NextDirectory
  <2>1. buffer.link \in Slots
    BY <1>c DEF TypeOK
  <2>2. buffer' \in Directory
    BY <1>5, <2>1, ReadGivesDirectory DEF NextDirectory
  <2>3. QED
    BY <1>5, <2>1, <2>2 DEF NextDirectory, Read, listing, TypeOK, Roomy, Booting, Flush
<1>6. CASE WriteLink
  <2>1. buffer' \in Directory
    BY <1>6 DEF WriteLink, TypeOK, Directory
  <2>2. disk' \in [Slots -> Content] /\ disk'[0] \in Directory
    BY <1>6, <2>1, WrittenImage DEF WriteLink, Write, TypeOK, Flush
  <2>3. QED
    BY <1>6, <2>1, <2>2 DEF WriteLink, Write, listing, TypeOK, Roomy, Booting, Flush
<1>7. CASE WriteNew
  <2>1. buffer' \in Directory
    BY <1>7, ZerosIsDirectory DEF WriteNew
  <2>2. disk' \in [Slots -> Content] /\ disk'[0] \in Directory
    BY <1>7, <2>1, WrittenImage DEF WriteNew, Write, TypeOK, Flush
  <2>3. QED
    BY <1>7, <2>1, <2>2, <1>a DEF WriteNew, Write, listing, TypeOK, Roomy, Flush
<1>8. CASE NextEntry
  <2>1. index \in Places /\ index + 1 \in Places
    BY <1>8, SizesAssumption DEF NextEntry, TypeOK, Places
  <2>2. shown' \in Seq(Names)
    BY <1>8, <2>1 DEF NextEntry, Show, Live, TypeOK
  <2>3. QED
    BY <1>8, <2>1, <2>2 DEF NextEntry, TypeOK, Roomy
<1>9. CASE LastEntry
  <2>1. shown' \in Seq(Names)
    BY <1>9 DEF LastEntry, Show, Live, TypeOK
  <2>2. buffer.link \in Slots
    BY <1>c DEF TypeOK
  <2>3. /\ buffer' \in Directory /\ disk' = disk /\ sector' \in Slots
        /\ stable' = stable \/ stable' = disk
    BY <1>9, <2>2, ReadGivesDirectory DEF LastEntry, Read, TypeOK, Flush
  <2>4. QED
    BY <1>9, <2>1, <2>3 DEF LastEntry, TypeOK, Roomy
<1>10. CASE ListEnd
  BY <1>10, <1>b DEF ListEnd, TypeOK, Roomy
<1>11. ASSUME NEW d \in Directory, List(d), stable' = disk \/ stable' = stable
       PROVE  TypeOK' /\ Roomy'
  <2>1. buffer' \in Directory /\ disk' = disk /\ sector' = 0
    BY <1>11, InitializedCopies DEF List, Initialize
  <2>2. refused' \in BOOLEAN /\ source' \in [Places -> Entries]
    BY <1>11, <1>c DEF List, Initialize
  <2>3. QED
    BY <1>11, <2>1, <2>2, <1>a, <1>b DEF List, TypeOK, Roomy
<1>12. CASE ListNothing
  BY <1>12, <1>a DEF ListNothing, listing, TypeOK, Roomy
<1>d. ASSUME SwitchedOff
      PROVE  /\ place' = "off" /\ sector' \in Slots /\ popped' \in Slots /\ refused' \in BOOLEAN
             /\ index' \in Places /\ shown' \in Seq(Names) /\ source' \in [Places -> Entries]
             /\ other' \in Directory
  BY SMTT(30), <1>d, <1>a, <1>b DEF SwitchedOff, TypeOK
<1>13. CASE Quit
  <2>1. /\ disk' \in [Slots -> Content] /\ disk'[0] \in Directory /\ buffer' \in Directory
        /\ stable' \in [Slots -> Content] /\ stable'[0] \in Directory
    BY <1>13, ZerosIsDirectory DEF Quit, TypeOK
  <2>2. QED
    BY <2>1, <1>d, <1>13 DEF Quit, TypeOK, Roomy
<1>14. CASE Crash
  <2>1. /\ disk' \in [Slots -> Content] /\ disk'[0] \in Directory /\ buffer' \in Directory
        /\ stable' \in [Slots -> Content] /\ stable'[0] \in Directory
    BY <1>14 DEF Crash, TypeOK
  <2>2. QED
    BY <2>1, <1>d, <1>14 DEF Crash, TypeOK, Roomy
<1>15. CASE AddFile
  <2>1. PICK n \in Names, p \in Places \ {MAX_FILES_PER_DIR} :
          /\ disk[0].free <= LastSlot
          /\ disk' = [Written(disk, disk[0].free, FileData)
                        EXCEPT ![0] = [disk[0] EXCEPT !.free = @ + 1, !.list[p] = n]]
    BY <1>15 DEF AddFile
  <2> DEFINE w == Written(disk, disk[0].free, FileData)
             d == [disk[0] EXCEPT !.free = @ + 1, !.list[p] = n]
  <2>2. \A s \in Slots : w[s] \in Content
    BY ZerosIsDirectory DEF Written, Content, TypeOK
  <2>3. w \in [Slots -> Content]
    BY <2>2 DEF Written
  <2>4. disk[0].free + 1 \in 0..(LastSlot + 1) /\ n \in Entries
    BY <2>1, <1>c, SizesAssumption DEF TypeOK, Entries
  <2>5. d \in Directory
    BY <2>4 DEF TypeOK, Directory
  <2> HIDE DEF w, d
  <2>6. disk' = [w EXCEPT ![0] = d]
    BY <2>1 DEF w, d
  <2>7. disk' \in [Slots -> Content] /\ disk'[0] \in Directory
    BY <2>3, <2>5, <2>6, <1>a DEF Content
  <2>8. QED
    BY <1>15, <2>7 DEF AddFile, listing, TypeOK, Roomy
<1>16. CASE DeleteFile
  <2>1. PICK p \in Places : disk' = [disk EXCEPT ![0] = [@ EXCEPT !.list[p] = Gone]]
    BY <1>16 DEF DeleteFile
  <2>2. [disk[0] EXCEPT !.list[p] = Gone] \in Directory
    BY DEF TypeOK, Directory, Entries
  <2>3. disk' \in [Slots -> Content] /\ disk'[0] \in Directory
    BY <2>1, <2>2, <1>a DEF TypeOK, Content
  <2>4. QED
    BY <1>16, <2>3 DEF DeleteFile, listing, TypeOK, Roomy
<1>17. CASE UNCHANGED vars
  <2>1. /\ disk' = disk /\ stable' = stable /\ other' = other /\ buffer' = buffer
        /\ place' = place /\ sector' = sector /\ popped' = popped /\ refused' = refused
        /\ index' = index /\ shown' = shown /\ source' = source
    BY <1>17 DEF vars, listing
  <2>2. QED
    BY <2>1 DEF TypeOK, Roomy
<1>18. fs_list_directory => TypeOK' /\ Roomy'
  BY <1>11, <1>12 DEF fs_list_directory, Flush, TypeOK
<1>19. QED
  BY Zenon, <1>1, <1>2, <1>3, <1>4, <1>5, <1>6, <1>7, <1>8, <1>9, <1>10, <1>13,
     <1>14, <1>15, <1>16, <1>17, <1>18
     DEF Next, Returning, fs_new_dir_desc

------------------------------------------------------------------------------
\* A write to a slot that is counted, of a directory whose link is counted, leaves
\* the image safe; the initial directory may be written with the count raised and
\* with a link to a slot that holds no file.
LEMMA SafeWrite ==
  ASSUME NEW image \in [Slots -> Content], image[0] \in Directory, Safe(image),
         NEW s \in Slots, NEW d \in Directory,
         s = 0 => /\ d.sfs = image[0].sfs
                  /\ d.sfs => /\ d.free >= image[0].free /\ d.link < d.free
                              /\ d.link = 0 \/ image[d.link] # FileData,
         s # 0 /\ image[0].sfs => s < image[0].free /\ d.link < image[0].free
  PROVE  Safe(Written(image, s, d)) /\ Written(image, s, d)[0].sfs = image[0].sfs
<1> DEFINE w == Written(image, s, d)
<1>1. /\ w \in [Slots -> Content] /\ w[0] \in Directory /\ w[s] = d
      /\ \A t \in Slots \ {s} :
           w[t] = IF t < s /\ image[t] = Absent THEN Zeros ELSE image[t]
      /\ s # 0 => w[0] = image[0]
  BY WrittenImage
<1> HIDE DEF w
<1>2. /\ \A t \in Slots : t \in Nat
      /\ \A e \in Directory : e.free \in Nat /\ e.link \in Slots /\ e \in Content
      /\ 0 \in Slots /\ FileData \notin Directory /\ Absent \notin Directory
      /\ FileData # Absent /\ Zeros \in Directory /\ Zeros.link = 0
  BY SizesAssumption, ContentAssumption, ZerosIsDirectory DEF Slots, Directory, Content
<1>3. w[0].sfs = image[0].sfs
  BY <1>1
<1>3a. image[0].sfs \in BOOLEAN /\ w[0].sfs \in BOOLEAN
  BY <1>1 DEF Directory
<1>3b. ASSUME w[0].sfs PROVE image[0].sfs
  BY <1>3, <1>3b
<1>4. ASSUME w[0].sfs PROVE w[0].free >= image[0].free /\ s < w[0].free /\ d.link < w[0].free
  <2>1. CASE s = 0
    <3>1. w[0] = d /\ d.sfs
      BY <2>1, <1>1, <1>4
    <3>2. d.free >= image[0].free /\ d.link < d.free /\ d.link \in Nat /\ d.free \in Nat
      BY <2>1, <3>1, <1>2
    <3>3. QED
      BY <3>1, <3>2, <2>1
  <2>2. CASE s # 0
    BY <2>2, <1>1, <1>2, <1>3b, <1>4
  <2>3. QED
    BY <2>1, <2>2
<1>5. ASSUME w[0].sfs, NEW t \in Slots
      PROVE  /\ w[t] # Absent => t < w[0].free
             /\ w[t] \in Directory => w[t].link < w[0].free
  <2>0a. image[0].sfs
    BY Zenon, <1>3b, <1>5
  <2>0b. Counted(image)
    BY Zenon DEF Safe
  <2>1. /\ image[t] # Absent => t < image[0].free
        /\ image[t] \in Directory => image[t].link < image[0].free
    BY Zenon, <2>0a, <2>0b DEF Counted
  <2>2. CASE t = s
    BY <2>2, <1>1, <1>4, <1>5
  <2>3. CASE t # s /\ t < s /\ image[t] = Absent
    BY <2>3, <1>1, <1>2, <1>4, <1>5
  <2>4. CASE t # s /\ ~(t < s /\ image[t] = Absent)
    <3>1. w[t] = image[t]
      BY <2>4, <1>1
    <3>2. w[t] \in Directory => w[t].link \in Nat
      BY <1>2
    <3>3. t \in Nat /\ image[0].free \in Nat /\ w[0].free \in Nat
      BY <1>1, <1>2
    <3>4. w[0].free >= image[0].free
      BY <1>4, <1>5
    <3>5. QED
      BY <3>1, <3>2, <3>3, <3>4, <2>1
  <2>5. QED
    BY <2>2, <2>3, <2>4
<1>6. ASSUME w[0].sfs PROVE w[w[0].link] # FileData
  <2>1. CASE s = 0
    <3>1. w[0] = d
      BY <2>1, <1>1
    <3>2. d.link = 0 \/ (d.link # 0 /\ w[d.link] = image[d.link])
      <4>1. d.link \in Slots /\ ~(d.link < 0)
        BY <1>2
      <4>2. QED
        BY <4>1, <2>1, <1>1
    <3>3. QED
      BY <3>1, <3>2, <2>1, <1>1, <1>2, <1>6
  <2>2. CASE s # 0
    <3>1. w[0] = image[0] /\ image[image[0].link] # FileData
      BY <2>2, <1>1, <1>3, <1>6 DEF Safe
    <3>2. image[0].link \in Slots
      BY <1>2
    <3>3. w[image[0].link] \in {d, Zeros, image[image[0].link]}
      BY <3>2, <1>1
    <3>4. QED
      BY <3>1, <3>3, <1>2
  <2>3. QED
    BY <2>1, <2>2
<1>7. QED
  BY <1>3, <1>5, <1>6 DEF Safe, Counted, w

\* A write to a slot without a file that keeps the list of the initial directory
\* keeps the files, and so does the way back.
LEMMA WriteKeeps ==
  ASSUME NEW image \in [Slots -> Content], image[0] \in Directory,
         NEW s \in Slots, NEW d \in Directory,
         image[s] # FileData, s = 0 => d.list = image[0].list
  PROVE  /\ KeepsFiles(image, Written(image, s, d))
         /\ KeepsFiles(Written(image, s, d), image)
<1> DEFINE w == Written(image, s, d)
<1>1. /\ w[s] = d
      /\ s # 0 => w[0] = image[0]
      /\ \A t \in Slots \ {s} :
           w[t] = IF t < s /\ image[t] = Absent THEN Zeros ELSE image[t]
  BY WrittenImage
<1>2. d # FileData /\ Zeros # FileData /\ Absent # FileData
  BY ContentAssumption, ZerosIsDirectory
<1>3. \A t \in Slots : w[t] = FileData <=> image[t] = FileData
  BY <1>1, <1>2
<1>4. w[0].list = image[0].list
  BY <1>1
<1>5. QED
  BY <1>3, <1>4 DEF KeepsFiles, w

\* What holds in front of the three writes: the slot and the link are counted.
LEMMA CountWrites ==
  ASSUME IInv, WriteCount
  PROVE  /\ Images' /\ Progress'
         /\ disk[0].sfs => KeepsFiles(disk, disk')
<1> USE DEF IInv
<1>1. /\ disk[0] \in Directory /\ buffer \in Directory /\ 0 \in Slots
      /\ popped \in Slots /\ \A s \in Slots : s \in Nat /\ s <= LastSlot
      /\ \A e \in Directory : e.free \in Nat /\ e.link \in Slots
  BY SizesAssumption DEF TypeOK, Slots, Directory
<1>2. /\ Copy /\ buffer.link = disk[0].link /\ sector = 0 /\ popped = buffer.free
      /\ buffer.free <= LastSlot
  BY DEF WriteCount, Progress, Roomy
<1>3. /\ buffer' = [buffer EXCEPT !.free = @ + 1]
      /\ disk' = Written(disk, 0, buffer') /\ stable' = disk
      /\ popped' = popped /\ sector' = sector
      /\ place' = IF buffer.link = 0 THEN "link" ELSE "chain"
  BY DEF WriteCount, Write, Flush
<1>4. /\ buffer' \in Directory /\ buffer'.free = popped + 1 /\ buffer'.link = disk[0].link
      /\ buffer'.list = disk[0].list /\ buffer'.sfs = disk[0].sfs
  BY <1>1, <1>2, <1>3, SizesAssumption DEF Directory, Copy
<1>5. disk'[0] = buffer' /\ \A t \in Slots \ {0} : disk'[t] = disk[t]
  <2>1. disk \in [Slots -> Content]
    BY DEF TypeOK
  <2>2. \A t \in Slots : ~(t < 0)
    BY <1>1
  <2>3. /\ Written(disk, 0, buffer')[0] = buffer'
        /\ \A t \in Slots \ {0} : Written(disk, 0, buffer')[t] =
                                     IF t < 0 /\ disk[t] = Absent THEN Zeros ELSE disk[t]
    BY ZenonT(60), <2>1, <1>1, <1>4, WrittenImage
  <2>4. QED
    BY <2>2, <2>3, <1>3
<1>6. disk[0].sfs => disk[0].link < popped /\ popped # 0 /\ disk[popped] = Absent
  BY <1>1, <1>2 DEF Images, Safe, Counted, Copy
<1>7. Safe(disk') /\ disk'[0].sfs = disk[0].sfs
  <2>1. disk[0].sfs => disk[disk[0].link] # FileData
    BY DEF Images, Safe
  <2>2. popped = disk[0].free
    BY <1>2 DEF Copy
  <2>3. disk \in [Slots -> Content] /\ Safe(disk)
    BY DEF TypeOK, Images
  <2>4. buffer'.sfs => /\ buffer'.free >= disk[0].free /\ buffer'.link < buffer'.free
                       /\ disk[buffer'.link] # FileData
    BY <2>1, <2>2, <1>1, <1>4, <1>6
  <2>5. Safe(Written(disk, 0, buffer')) /\ Written(disk, 0, buffer')[0].sfs = disk[0].sfs
    BY <2>3, <2>4, <1>1, <1>4, SafeWrite
  <2>6. QED
    BY Zenon, <2>5, <1>3
<1>8. KeepsFiles(disk, disk') /\ KeepsFiles(disk', disk)
  BY <1>1, <1>3, <1>4, WriteKeeps, ContentAssumption DEF TypeOK
<1>9. Images'
  BY <1>3, <1>7, <1>8 DEF Images
<1>10. disk[0].sfs => Taken' /\ disk'[0].link < popped'
  BY <1>1, <1>3, <1>4, <1>5, <1>6 DEF Taken
<1>11. Copy'
  BY <1>4, <1>5 DEF Copy
<1>12. disk'[0] # FileData
  BY <1>4, <1>5, ContentAssumption
<1>13. Progress'
  BY <1>2, <1>3, <1>4, <1>5, <1>6, <1>7, <1>10, <1>11, <1>12, <1>1 DEF Progress
<1>14. QED
  BY <1>8, <1>9, <1>13

LEMMA LinkWrites ==
  ASSUME IInv, WriteLink
  PROVE  /\ Images' /\ Progress'
         /\ disk[0].sfs => KeepsFiles(disk, disk')
<1> USE DEF IInv
<1>1. /\ disk[0] \in Directory /\ buffer \in Directory /\ 0 \in Slots
      /\ popped \in Slots /\ sector \in Slots /\ \A s \in Slots : s \in Nat
      /\ \A e \in Directory : e.free \in Nat /\ e.link \in Slots
  BY SizesAssumption DEF TypeOK, Slots, Directory
<1>2. /\ sector = 0 => Copy
      /\ disk[0].sfs => Taken /\ sector < popped /\ disk[sector] # FileData
  BY DEF WriteLink, Progress
<1>3. /\ buffer' = [buffer EXCEPT !.link = popped]
      /\ disk' = Written(disk, sector, buffer') /\ stable' = disk
      /\ popped' = popped /\ sector' = sector /\ place' = "new"
  BY DEF WriteLink, Write, Flush
<1>4. /\ buffer' \in Directory /\ buffer'.free = buffer.free /\ buffer'.link = popped
      /\ buffer'.list = buffer.list /\ buffer'.sfs = buffer.sfs
  BY <1>1, <1>3 DEF Directory
<1>5. /\ disk'[sector] = buffer'
      /\ sector # 0 => disk'[0] = disk[0]
      /\ \A t \in Slots \ {sector} :
           disk'[t] = IF t < sector /\ disk[t] = Absent THEN Zeros ELSE disk[t]
  <2>1. disk \in [Slots -> Content]
    BY DEF TypeOK
  <2>2. QED
    BY <2>1, <1>1, <1>3, <1>4, WrittenImage
<1>6. Safe(disk') /\ disk'[0].sfs = disk[0].sfs
  <2>1. sector = 0 => /\ buffer'.sfs = disk[0].sfs
                      /\ buffer'.sfs => /\ buffer'.free >= disk[0].free
                                        /\ buffer'.link < buffer'.free
                                        /\ disk[buffer'.link] # FileData
    BY <1>1, <1>2, <1>4, ContentAssumption DEF Copy, Taken
  <2>2. disk[0].sfs => sector < disk[0].free /\ buffer'.link < disk[0].free
    BY <1>1, <1>2, <1>4 DEF Taken
  <2>3. QED
    BY ZenonT(60), <2>1, <2>2, <1>1, <1>3, <1>4, SafeWrite DEF Images, TypeOK
<1>7. disk[0].sfs => KeepsFiles(disk, disk') /\ KeepsFiles(disk', disk)
  BY <1>1, <1>2, <1>3, <1>4, WriteKeeps DEF TypeOK, Copy
<1>8. Images'
  BY <1>3, <1>6, <1>7 DEF Images
<1>9. disk[0].sfs => Taken' /\ popped # 0
  <2>1. ASSUME disk[0].sfs PROVE Taken' /\ popped # 0
    <3>1. Taken /\ sector < popped
      BY <2>1, <1>2
    <3>2. popped # 0 /\ popped # sector /\ ~(popped < sector)
      BY <3>1, <1>1
    <3>3. disk'[popped] = Absent
      BY <3>1, <3>2, <1>1, <1>5 DEF Taken
    <3>4. disk'[0].free = disk[0].free
      BY <1>2, <1>4, <1>5 DEF Copy
    <3>5. QED
      BY <3>1, <3>2, <3>3, <3>4, <1>3 DEF Taken
  <2>2. QED
    BY <2>1
<1>10. Progress'
  BY <1>3, <1>6, <1>9 DEF Progress
<1>11. QED
  BY <1>7, <1>8, <1>10

LEMMA NewWrites ==
  ASSUME IInv, WriteNew
  PROVE  /\ Images' /\ Progress'
         /\ disk[0].sfs => KeepsFiles(disk, disk')
<1> USE DEF IInv
<1>1. /\ disk[0] \in Directory /\ 0 \in Slots /\ popped \in Slots
      /\ \A s \in Slots : s \in Nat
      /\ \A e \in Directory : e.free \in Nat /\ e.link \in Slots
  BY SizesAssumption DEF TypeOK, Slots, Directory
<1>2. disk[0].sfs => Taken /\ popped # 0
  BY DEF WriteNew, Progress
<1>3. /\ buffer' = Zeros /\ disk' = Written(disk, popped, Zeros) /\ stable' = disk
      /\ place' = "terminal"
  BY DEF WriteNew, Write, Flush
<1>4. Progress'
  BY <1>3 DEF Progress
<1>5. CASE disk[0].sfs
  <2>1. disk \in [Slots -> Content] /\ Safe(disk)
    BY DEF TypeOK, Images
  <2>2. popped < disk[0].free /\ Zeros.link < disk[0].free /\ popped # 0
    BY <1>1, <1>2, <1>5, ZerosIsDirectory DEF Taken
  <2>3. Safe(Written(disk, popped, Zeros)) /\ Written(disk, popped, Zeros)[0].sfs = disk[0].sfs
    BY <2>1, <2>2, <1>1, ZerosIsDirectory, SafeWrite
  <2>4. disk[popped] # FileData
    BY <1>2, <1>5, ContentAssumption DEF Taken
  <2>5. KeepsFiles(disk, disk') /\ KeepsFiles(disk', disk)
    BY <2>1, <2>2, <2>4, <1>1, <1>3, ZerosIsDirectory, WriteKeeps
  <2>6. QED
    BY <2>3, <2>5, <1>3, <1>4 DEF Images
<1>6. CASE ~disk[0].sfs
  <2>1. disk \in [Slots -> Content]
    BY DEF TypeOK
  <2>2. /\ Written(disk, popped, Zeros)[popped] = Zeros
        /\ popped # 0 => Written(disk, popped, Zeros)[0] = disk[0]
    BY <2>1, <1>1, ZerosIsDirectory, WrittenImage
  <2>3. ~disk'[0].sfs
    BY <2>2, <1>3, <1>6, ZerosIsDirectory
  <2>4. Safe(disk') /\ Safe(stable')
    BY <2>3, <1>3, <1>6 DEF Safe, Counted
  <2>5. disk[0] \in Directory /\ disk'[0] \in Directory
    BY Zenon, <2>1, <1>1, <1>3, ZerosIsDirectory, WrittenImage
  <2>6. disk'[0].sfs = stable'[0].sfs
    BY <2>3, <2>5, <1>3, <1>6 DEF Directory
  <2>7. QED
    BY <2>3, <2>4, <2>6, <1>4, <1>6 DEF Images
<1>7. QED
  BY <1>5, <1>6

\* The filing system tool uses the slot that is free on the disk and counts it; the
\* slot the initial directory links to lies below.
LEMMA ToolAdds ==
  ASSUME TypeOK, Images, AddFile
  PROVE  Images'
<1>1. PICK n \in Names, p \in Places \ {MAX_FILES_PER_DIR} :
        /\ disk[0].sfs /\ disk[0].free <= LastSlot
        /\ disk' = [Written(disk, disk[0].free, FileData)
                      EXCEPT ![0] = [disk[0] EXCEPT !.free = @ + 1, !.list[p] = n]]
        /\ stable' = disk'
  BY DEF AddFile
<1> DEFINE free == disk[0].free
           w == Written(disk, free, FileData)
           d == [disk[0] EXCEPT !.free = @ + 1, !.list[p] = n]
<1>2. /\ free \in Slots /\ 0 \in Slots /\ \A s \in Slots : s \in Nat
      /\ disk[0] \in Directory /\ \A e \in Directory : e.free \in Nat /\ e.link \in Slots
  BY <1>1, SizesAssumption DEF TypeOK, Slots, Directory
<1>3. /\ d.sfs = disk[0].sfs /\ d.free = free + 1 /\ d.link = disk[0].link
  BY <1>2 DEF Directory
<1>4. \A s \in Slots : w[s] = IF s = free THEN FileData
                              ELSE IF s < free /\ disk[s] = Absent THEN Zeros ELSE disk[s]
  BY DEF Written
<1>5. DOMAIN w = Slots
  BY DEF Written
<1> HIDE DEF free, w, d
<1>6. disk' = [w EXCEPT ![0] = d] /\ disk[0].sfs
  BY <1>1 DEF free, w, d
<1>7. disk'[0] = d /\ \A s \in Slots \ {0} : disk'[s] = w[s]
  BY <1>2, <1>5, <1>6
<1>8. Counted(disk) /\ disk[disk[0].link] # FileData /\ disk[0].free = free
  BY <1>1 DEF Images, Safe, free
<1>9. ASSUME NEW s \in Slots
      PROVE  /\ disk'[s] # Absent => s < d.free
             /\ disk'[s] \in Directory => disk'[s].link < d.free
  <2>1. /\ disk[s] # Absent => s < free
        /\ disk[s] \in Directory => disk[s].link < free
    BY <1>6, <1>8 DEF Counted
  <2>2. s \in Nat /\ free \in Nat /\ d.free = free + 1 /\ d.link = disk[0].link
    BY <1>2, <1>3
  <2>3. disk[0].link < free /\ disk[0].link \in Nat
    BY <1>2, <1>6, <1>8 DEF Counted
  <2>4. CASE s = 0
    BY <2>2, <2>3, <2>4, <1>7
  <2>5. CASE s # 0 /\ s = free
    BY <2>2, <2>5, <1>4, <1>7, ContentAssumption
  <2>6. CASE s # 0 /\ s < free /\ disk[s] = Absent
    BY <2>2, <2>6, <1>4, <1>7, ZerosIsDirectory
  <2>7. CASE s # 0 /\ s # free /\ ~(s < free /\ disk[s] = Absent)
    <3>1. disk'[s] = disk[s]
      BY <2>7, <1>4, <1>7
    <3>2. disk[s] \in Directory => disk[s].link \in Nat
      BY <1>2
    <3>3. QED
      BY <3>1, <3>2, <2>1, <2>2
  <2>8. QED
    BY <2>4, <2>5, <2>6, <2>7
<1>10. disk'[disk'[0].link] # FileData
  <2>1. disk'[0].link = disk[0].link /\ disk[0].link \in Slots /\ disk[0].link # free
    BY <1>2, <1>3, <1>6, <1>7, <1>8 DEF Counted
  <2>2. disk'[0] # FileData
    <3>1. d \in Directory
      <4>1. disk[0].free + 1 \in 0..(LastSlot + 1) /\ n \in Entries
        BY <1>1, <1>2, SizesAssumption DEF Entries
      <4>2. QED
        BY <4>1, <1>2 DEF Directory, d
    <3>2. QED
      BY <3>1, <1>7, ContentAssumption
  <2>3. disk[0].link # 0 => disk'[disk[0].link] \in {Zeros, disk[disk[0].link]}
    BY <2>1, <1>4, <1>7
  <2>4. Zeros # FileData
    BY ZerosIsDirectory, ContentAssumption
  <2>5. QED
    BY <2>1, <2>2, <2>3, <2>4, <1>8
<1>11. Safe(disk')
  BY <1>7, <1>9, <1>10 DEF Safe, Counted
<1>12. QED
  BY <1>1, <1>11 DEF Images, KeepsFiles

LEMMA ToolDeletes ==
  ASSUME TypeOK, Images, DeleteFile
  PROVE  Images'
<1>1. PICK p \in Places : /\ disk' = [disk EXCEPT ![0] = [@ EXCEPT !.list[p] = Gone]]
                          /\ disk[0].sfs /\ stable' = disk'
  BY DEF DeleteFile
<1>2. 0 \in Slots /\ disk \in [Slots -> Content] /\ disk[0] \in Directory
  BY SizesAssumption DEF TypeOK, Slots
<1>3. /\ disk'[0].sfs = disk[0].sfs /\ disk'[0].free = disk[0].free
      /\ disk'[0].link = disk[0].link /\ disk'[0] \in Directory
      /\ \A s \in Slots \ {0} : disk'[s] = disk[s]
  BY <1>1, <1>2 DEF Directory, Entries
<1>4. Safe(disk) /\ 0 < disk[0].free /\ disk[0].link < disk[0].free
  BY <1>1, <1>2, ContentAssumption DEF Images, Safe, Counted
<1>5. disk[0].link \in Slots
  BY <1>2 DEF Directory
<1>6. Safe(disk')
  BY <1>1, <1>3, <1>4, <1>5, ContentAssumption DEF Safe, Counted
<1>7. QED
  BY <1>1, <1>6 DEF Images, KeepsFiles

\* Every step keeps what a kill may bring back safe, and a step of the emulator
\* keeps the files.
LEMMA ImageStep ==
  IInv /\ [Next]_vars =>
    /\ Images' /\ Progress'
    /\ place # "off" /\ disk[0].sfs => KeepsFiles(disk, disk')
<1> SUFFICES ASSUME IInv, [Next]_vars
             PROVE  /\ Images' /\ Progress'
                    /\ place # "off" /\ disk[0].sfs => KeepsFiles(disk, disk')
  OBVIOUS
<1> DEFINE Goal == /\ Images' /\ Progress'
                   /\ place # "off" /\ disk[0].sfs => KeepsFiles(disk, disk')
<1> USE DEF IInv
<1>a. disk[0] \in Directory /\ disk[0] # FileData /\ disk[0].link \in Slots
  BY ContentAssumption DEF TypeOK, Directory
<1>b. ASSUME UNCHANGED disk, stable' = disk \/ stable' = stable PROVE Images' /\ KeepsFiles(disk, disk')
  BY <1>b, NoWrite DEF KeepsFiles
<1>c. ASSUME place' \in {"off", "boot", "describe", "terminal", "list", "end"} PROVE Progress'
  BY <1>c DEF Progress
<1>1. CASE Start
  BY <1>1, <1>b, <1>c DEF Start
<1>2. CASE BootRead
  BY <1>2, <1>b, <1>c DEF BootRead, Initialize, Flush
<1>3. CASE DescribeRead
  <2>1. Copy' /\ buffer'.link = disk'[0].link /\ sector' = 0 /\ popped' = buffer'.free
    BY <1>3, <1>a, InitializedCopies DEF DescribeRead, Initialize, Copy, Flush
  <2>2. QED
    BY <1>3, <2>1, <1>b DEF DescribeRead, Initialize, Progress, Flush
<1>4. CASE WriteCount
  BY <1>4, CountWrites
<1>5. CASE NextDirectory
  <2>1. /\ buffer.link = disk[0].link
        /\ disk[0].sfs => Taken /\ buffer.link < popped
    BY <1>5 DEF NextDirectory, Progress
  <2>2. /\ disk' = disk /\ stable' = disk /\ popped' = popped
        /\ sector' = buffer.link /\ place' = "link"
        /\ buffer' \in Contents(disk, buffer.link)
    BY <1>5 DEF NextDirectory, Read, Flush
  <2>3. sector' = 0 => Copy'
    <3>1. ASSUME sector' = 0 PROVE buffer' = disk[0]
      BY <3>1, <2>2, <1>a DEF Contents
    <3>2. QED
      BY <3>1, <2>2 DEF Copy
  <2>4. disk'[0].sfs => Taken' /\ sector' < popped' /\ disk'[sector'] # FileData
    BY <2>1, <2>2 DEF Taken, Images, Safe
  <2>5. QED
    BY <2>2, <2>3, <2>4, <1>b DEF Progress
<1>6. CASE WriteLink
  BY <1>6, LinkWrites
<1>7. CASE WriteNew
  BY <1>7, NewWrites
<1>8. CASE NextEntry
  BY <1>8, <1>b, <1>c DEF NextEntry
<1>9. CASE LastEntry
  BY <1>9, <1>b, <1>c DEF LastEntry, Read, Flush
<1>10. CASE ListEnd
  BY <1>10, <1>b, <1>c DEF ListEnd
<1>11. CASE fs_list_directory
  <2>1. /\ disk' = disk
        /\ stable' = disk \/ stable' = stable
        /\ place' \in {"list", "terminal"}
    BY <1>11 DEF fs_list_directory, List, ListNothing, Initialize, Flush
  <2>2. QED
    BY <2>1, <1>b, <1>c
<1>12. CASE Quit
  BY <1>12, <1>b, <1>c DEF Quit, SwitchedOff
<1>13. CASE Crash
  <2>1. place' = "off" /\ disk' \in {disk, stable} /\ stable' = disk'
    BY <1>13 DEF Crash, SwitchedOff
  <2>2. Images'
    BY <2>1 DEF Images, KeepsFiles
  <2>3. disk[0].sfs => KeepsFiles(disk, disk')
    BY <2>1 DEF Images, KeepsFiles
  <2>4. QED
    BY <2>1, <2>2, <2>3, <1>c
<1>14. CASE AddFile
  BY <1>14, <1>c, ToolAdds DEF AddFile
<1>15. CASE DeleteFile
  BY <1>15, <1>c, ToolDeletes DEF DeleteFile
<1>16. CASE UNCHANGED vars
  <2>1. /\ disk' = disk /\ stable' = stable /\ buffer' = buffer /\ place' = place
        /\ sector' = sector /\ popped' = popped
    BY <1>16 DEF vars
  <2>2. Progress'
    BY <2>1 DEF Progress, Copy, Taken
  <2>3. QED
    BY <2>1, <2>2, <1>b
<1>17. QED
  BY Zenon, <1>1, <1>2, <1>3, <1>4, <1>5, <1>6, <1>7, <1>8, <1>9, <1>10, <1>11, <1>12, <1>13,
     <1>14, <1>15, <1>16
     DEF Next, Returning, fs_new_dir_desc

------------------------------------------------------------------------------
(* What DIR shows.                                                         *)

\* While the entries are gone through, what has been shown is what was there in
\* front of the entry DIR is at, and the buffer still holds the list asked for.
Listing == place = "list" => buffer.list = source /\ Lists(shown, source, index)

\* Nothing is in front of the first place.
LEMMA NothingListed ==
  ASSUME NEW list \in [Places -> Entries]
  PROVE  Lists(<<>>, list, 0)
<1> DEFINE at == [j \in 1..0 |-> 0]
<1>1. 1..Len(<<>>) = 1..0 /\ 1..0 = {}
  OBVIOUS
<1>2. at \in [1..Len(<<>>) -> Places]
  BY <1>1
<1>3. {p \in Places : p < 0 /\ list[p] \in Names} = {}
  BY DEF Places
<1>4. {at[j] : j \in 1..Len(<<>>)} = {}
  BY <1>1
<1>5. QED
  BY <1>1, <1>2, <1>3, <1>4 DEF Lists

\* An entry that is not live lets the list of names be.
LEMMA EntryLeftOut ==
  ASSUME NEW names \in Seq(Names), NEW list \in [Places -> Entries], NEW n \in Places,
         Lists(names, list, n), list[n] \notin Names
  PROVE  Lists(names, list, n + 1)
<1>1. {p \in Places : p < n + 1 /\ list[p] \in Names}
        = {p \in Places : p < n /\ list[p] \in Names}
  BY DEF Places
<1>2. QED
  BY <1>1 DEF Lists

\* A live entry is put behind the names, and its place behind their places.
LEMMA EntryAppended ==
  ASSUME NEW names \in Seq(Names), NEW list \in [Places -> Entries], NEW n \in Places,
         Lists(names, list, n), list[n] \in Names
  PROVE  Lists(Append(names, list[n]), list, n + 1)
<1> DEFINE all == Append(names, list[n])
           l   == Len(names)
<1>1. PICK at \in [1..l -> Places] :
        /\ \A j, k \in 1..l : j < k => at[j] < at[k]
        /\ {at[j] : j \in 1..l} = {p \in Places : p < n /\ list[p] \in Names}
        /\ \A j \in 1..l : names[j] = list[at[j]]
  BY DEF Lists
<1> DEFINE more == [j \in 1..(l + 1) |-> IF j = l + 1 THEN n ELSE at[j]]
<1>2. l \in Nat /\ Len(all) = l + 1 /\ all[l + 1] = list[n] /\ \A j \in 1..l : all[j] = names[j]
  OBVIOUS
<1>3. \A j \in 1..l : j \in 1..(l + 1) /\ j # l + 1 /\ more[j] = at[j]
  BY <1>2
<1>4. l + 1 \in 1..(l + 1) /\ more[l + 1] = n /\ 1..(l + 1) = (1..l) \cup {l + 1}
  BY <1>2
<1>5. \A j \in 1..l : at[j] \in Places /\ at[j] < n
  BY <1>1
<1> HIDE DEF more, l, all
<1>6. more \in [1..(l + 1) -> Places]
  BY <1>3, <1>4, <1>5 DEF more
<1>7. \A j, k \in 1..(l + 1) : j < k => more[j] < more[k]
  <2> SUFFICES ASSUME NEW j \in 1..(l + 1), NEW k \in 1..(l + 1), j < k
               PROVE  more[j] < more[k]
    OBVIOUS
  <2>1. j \in 1..l
    BY <1>2
  <2>2. CASE k = l + 1
    BY <2>1, <2>2, <1>3, <1>4, <1>5
  <2>3. CASE k # l + 1
    <3>1. k \in 1..l
      BY <2>3, <1>2
    <3>2. QED
      BY <2>1, <3>1, <1>1, <1>3
  <2>4. QED
    BY <2>2, <2>3
<1>8. {more[j] : j \in 1..(l + 1)} = {at[j] : j \in 1..l} \cup {n}
  BY <1>3, <1>4
<1>9. {p \in Places : p < n + 1 /\ list[p] \in Names}
        = {p \in Places : p < n /\ list[p] \in Names} \cup {n}
  BY DEF Places
<1>10. \A j \in 1..(l + 1) : all[j] = list[more[j]]
  BY <1>1, <1>2, <1>3, <1>4
<1>11. Lists(all, list, n + 1)
  BY <1>1, <1>2, <1>6, <1>7, <1>8, <1>9, <1>10 DEF Lists
<1>12. QED
  BY <1>11 DEF all

\* DIR looks at one entry.
LEMMA EntryShown ==
  ASSUME TypeOK, place = "list", Listing, Show
  PROVE  Lists(shown', source, index + 1)
<1>1. /\ shown \in Seq(Names) /\ source \in [Places -> Entries] /\ index \in Places
      /\ buffer.list = source /\ Lists(shown, source, index)
  BY DEF TypeOK, Listing
<1>2. CASE source[index] \in Names
  BY <1>1, <1>2, EntryAppended DEF Show, Live
<1>3. CASE source[index] \notin Names
  BY <1>1, <1>3, EntryLeftOut DEF Show, Live
<1>4. QED
  BY <1>2, <1>3

\* A request for a directory starts the list again.
LEMMA ListingStarts ==
  ASSUME NEW d \in Directory, List(d)
  PROVE  Listing' /\ ListsWhatIsThere'
<1>1. buffer'.list = d.list /\ source' = d.list /\ shown' = <<>> /\ index' = 0
  BY InitializedCopies DEF List, Initialize
<1>2. d.list \in [Places -> Entries]
  BY DEF Directory
<1>3. Listing'
  BY <1>1, <1>2, NothingListed DEF Listing
<1>4. place' # "end"
  BY DEF List
<1>5. QED
  BY <1>3, <1>4 DEF ListsWhatIsThere

LEMMA ListingStep ==
  IInv /\ Listing /\ ListsWhatIsThere /\ [Next]_vars => Listing' /\ ListsWhatIsThere'
<1> SUFFICES ASSUME IInv, Listing, ListsWhatIsThere, [Next]_vars
             PROVE  Listing' /\ ListsWhatIsThere'
  OBVIOUS
<1>a. TypeOK
  BY DEF IInv
<1>b. ASSUME place' \notin {"list", "end"} PROVE Listing' /\ ListsWhatIsThere'
  BY <1>b DEF Listing, ListsWhatIsThere
<1>c. ASSUME buffer' = buffer, place' = place, UNCHANGED listing
      PROVE  Listing' /\ ListsWhatIsThere'
  BY <1>c DEF Listing, ListsWhatIsThere, listing
<1>1. CASE Start \/ BootRead \/ fs_new_dir_desc \/ ListEnd \/ Quit \/ Crash
  BY <1>1, <1>b DEF Start, BootRead, fs_new_dir_desc, DescribeRead, WriteCount, NextDirectory,
     WriteLink, WriteNew, ListEnd, Quit, Crash, SwitchedOff
<1>2. CASE NextEntry
  <2>1. Lists(shown', source, index + 1)
    BY <1>2, <1>a, EntryShown DEF NextEntry
  <2>2. buffer.list = source
    BY <1>2 DEF NextEntry, Listing
  <2>3. place' = "list" /\ buffer' = buffer /\ source' = source /\ index' = index + 1
    BY <1>2 DEF NextEntry
  <2>4. QED
    BY <2>1, <2>2, <2>3 DEF Listing, ListsWhatIsThere
<1>3. CASE LastEntry
  <2>1. Lists(shown', source, index + 1)
    BY <1>3, <1>a, EntryShown DEF LastEntry
  <2>2. place' = "end" /\ source' = source /\ index = MAX_FILES_PER_DIR
    BY <1>3 DEF LastEntry
  <2>3. QED
    BY <2>1, <2>2 DEF Listing, ListsWhatIsThere
<1>4. CASE fs_list_directory
  <2>1. CASE List(disk[0]) \/ List(other)
    BY <2>1, <1>a, ListingStarts DEF TypeOK
  <2>2. CASE ListNothing
    BY <2>2, <1>c DEF ListNothing
  <2>3. QED
    BY <1>4, <2>1, <2>2 DEF fs_list_directory
<1>5. CASE AddFile \/ DeleteFile
  BY <1>5, <1>c DEF AddFile, DeleteFile
<1>6. CASE UNCHANGED vars
  BY <1>6, <1>c DEF vars
<1>7. QED
  BY <1>1, <1>2, <1>3, <1>4, <1>5, <1>6 DEF Next, Returning

------------------------------------------------------------------------------
(* The theorems.                                                           *)

THEOREM Invariance == Spec => []IInv
<1>1. Init => IInv
  <2>1. Init => Roomy /\ Progress
    BY DEF Init, Roomy, Progress
  <2>2. QED
    BY <2>1, InitType, InitImages DEF IInv
<1>2. IInv /\ [Next]_vars => IInv'
  BY TypeStep, ImageStep DEF IInv
<1>3. QED
  BY <1>1, <1>2, PTL DEF Spec

\* Every variable keeps its type: no request of the kernal names a slot that is not
\* there, and what is in the buffer is a directory, whatever the images hold.
THEOREM TypeCorrect == Spec => []TypeOK
<1>1. IInv => TypeOK
  BY DEF IInv
<1>2. QED
  BY <1>1, Invariance, PTL

\* On a formatted disk, and on what a kill makes of it, every slot in use and every
\* link lies below the next free slot.
THEOREM NothingIsGivenTwice == Spec => []AllocatedIsCounted
<1>1. IInv => AllocatedIsCounted
  BY DEF IInv, Images, Safe, AllocatedIsCounted
<1>2. QED
  BY <1>1, Invariance, PTL

\* No boot, command or kill changes a file or the list of files of a formatted disk.
THEOREM FilesStay == Spec => FilesKept
<1>1. IInv /\ [Next]_vars => [place # "off" /\ disk[0].sfs => KeepsFiles(disk, disk')]_vars
  BY ImageStep
<1>2. QED
  BY <1>1, Invariance, PTL DEF Spec, FilesKept

\* A DIR that is not refused shows the live entries of the directory it was asked
\* for, each once and in their order, whatever the links and the buffer held.
THEOREM ListingIsExact == Spec => []ListsWhatIsThere
<1>1. Init => Listing /\ ListsWhatIsThere
  BY DEF Init, Listing, ListsWhatIsThere
<1>2. IInv /\ Listing /\ ListsWhatIsThere /\ [Next]_vars => Listing' /\ ListsWhatIsThere'
  BY ListingStep
<1>3. QED
  BY <1>1, <1>2, Invariance, PTL DEF Spec

=============================================================================
