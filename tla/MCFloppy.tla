------------------------------ MODULE MCFloppy ------------------------------
(* fat12ls alone for TLC, with floppies as they usually are: one reserved      *)
(* sector, and a root directory that fits into what is read of it.             *)
EXTENDS Fat

FloppyBoots ==
    {[iBytesSector |-> 512, iReservedSectors |-> 1, iRootEntries |-> 4,
      iLogicalSectors |-> 2880, iSectorsFAT |-> 9, iSectorsTrack |-> 18, iHeads |-> 2,
      iSectorsCluster |-> 1, iNumberFATs |-> 2, xMediumDescriptor |-> 240,
      iHiddenSectors |-> 0]}
FloppyEntry(kind, name, size) ==
    [kind |-> kind, name |-> name, ext |-> <<"C">>, attr |-> {"A"}, size |-> size,
     time |-> [hour |-> 8, min |-> 59, sec |-> 2], date |-> [year |-> 2017, month |-> 11, day |-> 29]]
FloppyEntries == {FloppyEntry("free", <<" ", " ">>, 0), FloppyEntry("deleted", <<"A", "B">>, 1000),
                  FloppyEntry("file", <<"A", "B">>, 1000), FloppyEntry("file", <<"A", " ">>, 2000)}
FloppySpec == FatInit /\ [][FatNext]_fatVars
=============================================================================
