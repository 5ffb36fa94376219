----------------------------- MODULE MCNorWrite -----------------------------
(***************************************************************************)
(* A top-boot chip of 16 bytes in three blocks (8, 4 and 4).  In the first *)
(* table a locked partition spans both regions and the other is formatted; *)
(* the second has them in the other order; in the third one is both, and   *)
(* has two blocks.                                                         *)
(***************************************************************************)
EXTENDS NorWrite

MCGeometry ==
    [regions |-> << [offset |-> 0, erasesize |-> 8, numblocks |-> 1],
                    [offset |-> 8, erasesize |-> 4, numblocks |-> 2] >>,
     chipsize |-> 16, numchips |-> 1]

ASSUME MCGeometry = Setup(<< <<8, 1>>, <<4, 2>> >>, 1)

MCBoot == [offset |-> 0, size |-> 12, flag |-> {"MF_LOCKED"}]
MCData == [offset |-> 12, size |-> 4, flag |-> {"MF_JFFS2"}]

MCLoader == [offset |-> 0, size |-> 8, flag |-> {"MF_LOCKED"}]
MCRoot == [offset |-> 8, size |-> 8, flag |-> {"MF_LOCKED", "MF_JFFS2"}]

MCPartTables == { <<MCBoot, MCData>>, <<MCData, MCBoot>>, <<MCLoader, MCRoot>> }

\* One block, two regions, an odd start and end, past the end of the chip.
MCRanges ==
    { [ofs |-> 8, len |-> 4], [ofs |-> 0, len |-> 12],
      [ofs |-> 3, len |-> 4], [ofs |-> 8, len |-> 9] }
==============================================================================
