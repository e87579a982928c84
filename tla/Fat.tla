-------------------------------- MODULE Fat --------------------------------
(* The tools for FAT12 floppies: bsdump (lab8/src-3/src/bsdump.c), which prints*)
(* the boot sector, and fat12ls (lab9/src-4/src/fat12ls.c), which decodes it   *)
(* the same way and lists the root directory.                                  *)
(*                                                                             *)
(* A disk is what the format of the floppy says: numbers, names and times; the *)
(* programs see the bytes it makes of them.                                    *)
EXTENDS Integers, Sequences, SequencesExt, FiniteSets

CONSTANTS Boots,      \* the boot sectors: a number for each of the fields below
          Entries,    \* what a directory entry may be
          NameLength, \* 8
          EntryWidth, ROOTSIZE    \* 32 and 256

VARIABLES program,    \* "bsdump" or "fat12ls"
          disk,       \* its boot sector and its root directory
          before,     \* whether the byte before rootBuffer happens to be a blank
          sector,     \* the decoded struct BootSector
          rootBuffer, \* the entries that were read
          i,          \* the loop of parseDirectory
          listing     \* the rows it printed
fatVars == <<program, disk, before, sector, rootBuffer, i, listing>>

\* The format (external): where a field lies, and numbers least byte first.
Field == [iBytesSector |-> 11, iReservedSectors |-> 14, iRootEntries |-> 17,
          iLogicalSectors |-> 19, iSectorsFAT |-> 22, iSectorsTrack |-> 24, iHeads |-> 26]
Small == [iSectorsCluster |-> 13, iNumberFATs |-> 16, xMediumDescriptor |-> 21]
Hidden == 28
Byte(n, k) == (n \div 256^k) % 256
WordAt(n, first, p) == IF p = first THEN Byte(n, 0) ELSE Byte(n, 1)
Written(boot) ==
    [p \in 11 .. 31 |->
       CASE \E f \in DOMAIN Small : Small[f] = p -> boot[CHOOSE f \in DOMAIN Small : Small[f] = p]
         [] p >= Hidden -> Byte(boot.iHiddenSectors, p - Hidden)
         [] OTHER -> LET f == CHOOSE f \in DOMAIN Field : p \in {Field[f], Field[f] + 1}
                     IN  WordAt(boot[f], Field[f], p)]
PackTime(t) == t.hour * 2048 + t.min * 32 + t.sec \div 2
PackDate(d) == (d.year - 1980) * 512 + d.month * 32 + d.day
AttributeBits == [R |-> 0, H |-> 1, S |-> 2, V |-> 3, D |-> 4, A |-> 5]
PackAttributes(s) == FoldSet(LAMBDA a, n : n + 2^AttributeBits[a], 0, s)
Blank == " "

FatInit ==
    /\ program \in {"bsdump", "fat12ls"} /\ before \in BOOLEAN
    /\ \E boot \in Boots : \E root \in [1 .. boot.iRootEntries -> Entries] :
         disk = [boot |-> boot, root |-> root]
    /\ sector = <<>> /\ rootBuffer = <<>> /\ i = 0 /\ listing = <<>>

\* Mutant of two2int: the greater byte first.
two2bigint(buffer, k) == buffer[k] * 256 + buffer[k + 1]

two2int(buffer, k) == buffer[k + 1] * 256 + buffer[k]
\* The hidden sectors, four bytes, are kept in an unsigned short.
decodeBootSector(buffer) ==
    [f \in DOMAIN Field \cup DOMAIN Small \cup {"iHiddenSectors"} |->
       CASE f \in DOMAIN Field -> two2int(buffer, Field[f])
         [] f \in DOMAIN Small -> buffer[Small[f]]
         [] f = "iHiddenSectors" -> two2int(buffer, Hidden)]
\* main() of both: the boot sector is read and decoded; bsdump prints it.
Decode ==
    /\ sector = <<>> /\ sector' = decodeBootSector(Written(disk.boot))
    /\ listing' = IF program = "bsdump" THEN <<sector'>> ELSE <<>>
    /\ UNCHANGED <<program, disk, before, rootBuffer, i>>
\* main() of fat12ls: the directory is taken to follow one reserved sector and
\* the FATs, and ROOTSIZE bytes of it are read.
RootOffset(s) == (1 + s.iSectorsFAT * s.iNumberFATs) * s.iBytesSector
ReadRoot ==
    /\ program = "fat12ls" /\ sector # <<>> /\ rootBuffer = <<>>
    /\ LET b == disk.boot
           there == (b.iReservedSectors + b.iSectorsFAT * b.iNumberFATs) * b.iBytesSector
           room == ROOTSIZE \div EntryWidth
       IN  \E other \in Entries :   \* what lies elsewhere on the disk
             rootBuffer' = [k \in 1 .. room |-> IF RootOffset(sector) = there /\ k <= Len(disk.root)
                                                  THEN disk.root[k] ELSE other]
    /\ UNCHANGED <<program, disk, before, sector, i, listing>>

\* toDOSName: a character is kept if the one before it is no blank, and the name
\* ends where one was not kept; then the dot and the extension.
toDOSName(e, k) ==
    LET previous(c) == IF c > 1 THEN e.name[c - 1] = Blank ELSE k = 1 /\ before
        kept == {n \in 0 .. NameLength : \A c \in 1 .. n : ~previous(c)}
    IN  SubSeq(e.name, 1, CHOOSE n \in kept : \A m \in kept : m <= n) \o <<".">> \o e.ext
parseAttributes(byte) == {a \in {"R", "H", "S", "A"} : (byte \div 2^AttributeBits[a]) % 2 = 1}
endianSwap(one, two) == two * 256 + one
parseTime(u) == [hour |-> u \div 2048, min |-> (u \div 32) % 64, sec |-> (u % 32) * 2]
parseDate(u) == [year |-> u \div 512 + 1980, month |-> (u \div 32) % 16, day |-> u % 32]
\* The size, of four bytes; one of 2^31 and more, which would be shown as a
\* negative number, is left out.
fsize(n) == endianSwap(Byte(n, 0), Byte(n, 1)) + 65536 * endianSwap(Byte(n, 2), Byte(n, 3))
\* A first byte of 0x00 is a free entry, one of 0xE5 a deleted one.
validfile(e) == e.kind \notin {"free", "deleted"}
Row(e, k) ==
    LET time == PackTime(e.time)
        date == PackDate(e.date)
    IN  [name |-> toDOSName(e, k), attr |-> parseAttributes(PackAttributes(e.attr)),
         time |-> parseTime(endianSwap(Byte(time, 0), Byte(time, 1))),
         date |-> parseDate(endianSwap(Byte(date, 0), Byte(date, 1))), size |-> fsize(e.size)]
\* parseDirectory: i counts bytes but is compared with the number of entries.
\* Behind what was read lies whatever the stack held.
ParseEntry ==
    /\ rootBuffer # <<>> /\ i < sector.iRootEntries /\ i' = i + EntryWidth
    /\ LET k == i \div EntryWidth + 1
       IN  \E e \in IF k <= Len(rootBuffer) THEN {rootBuffer[k]} ELSE Entries :
             listing' = IF validfile(e) THEN Append(listing, Row(e, k)) ELSE listing
    /\ UNCHANGED <<program, disk, before, sector, rootBuffer>>

FatNext == Decode \/ ReadRoot \/ ParseEntry
----------------------------------------------------------------------------
\* A row tells of an entry its attributes, size, date, and time to two seconds.
Tells(row, e) ==
    /\ row.attr = e.attr \cap {"R", "H", "S", "A"} /\ row.size = e.size
    /\ row.date = e.date /\ row.time = [e.time EXCEPT !.sec = (@ \div 2) * 2]
\* What the bytes say is what is shown, whatever lies there:
\* every field of one or two bytes of the boot sector is decoded to the number
\* that was written there, and of the entries that were read and passed so far
\* exactly the files have a row, in their order, which tells of that file and no
\* other.  (That entries are missing from the list is ListsEachEntry below.)
RowsTellTheirFiles ==
    /\ sector # <<>> =>
         \A f \in DOMAIN Field \cup DOMAIN Small : sector[f] = disk.boot[f]
    /\ rootBuffer # <<>> =>
         LET room == Len(rootBuffer)
             passed == i \div EntryWidth
             files == SelectSeq(SubSeq(rootBuffer, 1, IF passed < room THEN passed ELSE room),
                                validfile)
         IN  /\ Len(listing) \in Len(files) .. passed
             /\ passed <= room => Len(listing) = Len(files)
             /\ \A k \in DOMAIN files : Tells(listing[k], files[k])
\* What fat12ls.c:41 says of parseDirectory: it prints each entry.  When its
\* loop is over every file of the root directory has a row.
ListsEachEntry ==
    (program = "fat12ls" /\ rootBuffer # <<>> /\ i >= sector.iRootEntries) =>
      \A k \in DOMAIN disk.root :
        validfile(disk.root[k]) => \E row \in Range(listing) : Tells(row, disk.root[k])
=============================================================================
