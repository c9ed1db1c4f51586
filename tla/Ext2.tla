-------------------------------- MODULE Ext2 --------------------------------
(***************************************************************************)
(* The read-only ext2 reader of fs/ext2.c over a disk image that is a      *)
(* ramdisk: pure functions of the image.  A byte is named by its block and *)
(* its place in it, a directory block is its sequence of entries.          *)
(***************************************************************************)
EXTENDS Integers, SequencesExt, Picking

CONSTANTS Inode,       \* inode number -> [dir, size, block], block as in ext2_inode_t
          DirBlock,    \* block number -> entries [inode, name] of a directory block
          Indirect,    \* block number -> the block numbers an indirect block holds
          ImageBlocks, \* blocks of the image
          BLOCK,       \* bytes in a block
          DIRECT       \* direct blocks of an inode (12)

\* The root directory is inode 2; block numbers start at 1, 0 being a hole.
ROOT == 2

ASSUME Ext2Assumption == /\ ROOT \in DOMAIN Inode /\ Inode[ROOT].dir
                         /\ BLOCK \in Nat \ {0} /\ DIRECT \in Nat \ {0}
                         /\ \A i \in DOMAIN Inode : Len(Inode[i].block) = DIRECT + 1

\* The image is sound: every block number is one of the image's, the indirect
\* block reaches the end of the file, directory entries name existing inodes
\* (0 for a deleted one), each name once, and the root holds no "dev" of its own.
ASSUME ImageAssumption ==
    /\ ImageBlocks \in Nat
    /\ \A i \in DOMAIN Inode :
          LET inode == Inode[i]
              indir == inode.block[DIRECT + 1]
          IN  /\ i # 0
              /\ inode.size \in Nat
              /\ inode.block \in Seq(0..(ImageBlocks - 1))
              /\ ~inode.dir /\ inode.size > DIRECT * BLOCK /\ indir # 0 =>
                    /\ Indirect[indir] \in Seq(0..(ImageBlocks - 1))
                    /\ inode.size <= (DIRECT + Len(Indirect[indir])) * BLOCK
              /\ inode.dir =>
                    /\ \A b \in 1..DIRECT : inode.block[b] # 0 =>
                          DirBlock[inode.block[b]] \in Seq([inode : DOMAIN Inode \cup {0}, name : STRING])
                    /\ \A b, c \in 1..DIRECT : inode.block[b] # 0 /\ inode.block[c] # 0 =>
                          \A j \in DOMAIN DirBlock[inode.block[b]], k \in DOMAIN DirBlock[inode.block[c]] :
                             LET d == DirBlock[inode.block[b]][j]
                                 e == DirBlock[inode.block[c]][k]
                             IN  /\ d.inode # 0 /\ e.inode # 0 /\ d.name = e.name => b = c /\ j = k
                                 /\ i = ROOT /\ d.inode # 0 => d.name # "dev"

\* ext2_block_ptr: NULL past the end of the image.
InImage(blk) == blk < ImageBlocks

\* The number of the data block, 0 for a hole and for what only double
\* indirect blocks reach.
ext2_get_data_block(inode, block_index) ==
    LET idx == block_index - DIRECT
        indir == inode.block[DIRECT + 1]
    IN  CASE block_index < DIRECT -> inode.block[block_index + 1]
          [] block_index >= DIRECT /\ indir # 0 /\ InImage(indir) /\ idx < Len(Indirect[indir]) ->
                Indirect[indir][idx + 1]
          [] OTHER -> 0

Zero == <<0, 0>>

\* Plausible bug, used to test the properties: block_offset is not reset.
BytesKeepOffset(blk, from, n) ==
    [k \in 1..n |-> IF blk = 0 THEN Zero ELSE <<blk, (from + k) % BLOCK>>]

\* n bytes of a block from the place from on.
Bytes(blk, from, n) == [k \in 1..n |-> IF blk = 0 THEN Zero ELSE <<blk, from + k - 1>>]

\* The loop over blocks; a block outside the image ends it early.
ext2_read_file(inode, offset, size) ==
    LET n == IF offset >= inode.size THEN 0 ELSE Min({size, inode.size - offset})
        first == offset \div BLOCK
        last == (offset + n - 1) \div BLOCK
        copied[b \in first..(last + 1)] ==
            IF b = first THEN << >>
            ELSE LET sofar == copied[b - 1]
                     blk == ext2_get_data_block(inode, b - 1)
                     from == IF b - 1 = first THEN offset % BLOCK ELSE 0
                 IN  IF ~InImage(blk) THEN sofar
                     ELSE sofar \o Bytes(blk, from, Min({BLOCK - from, n - Len(sofar)}))
    IN  IF n = 0 THEN << >> ELSE copied[last + 1]

-----------------------------------------------------------------------------
(* Directories: the direct blocks' entries that are in use.                *)

InUse(blk) == LET entries == DirBlock[blk]
              IN  IF blk = 0 \/ ~InImage(blk) THEN << >>
                  ELSE Pick(entries, {k \in DOMAIN entries : entries[k].inode # 0})

Entries(i) ==
    LET upto[b \in 0..DIRECT] == IF b = 0 THEN << >> ELSE upto[b - 1] \o InUse(Inode[i].block[b])
    IN  upto[DIRECT]

\* ext2_readdir's names: the root shows devfs behind its own entries.
ext2_readdir(i) == [k \in DOMAIN Entries(i) |-> Entries(i)[k].name]
                   \o (IF i = ROOT THEN <<"dev">> ELSE << >>)

\* ext2_finddir: the inode of the first entry with that name, 0 if none.
ext2_finddir(i, name) ==
    LET hits == {k \in DOMAIN Entries(i) : Entries(i)[k].name = name}
    IN  IF hits = {} THEN 0 ELSE Entries(i)[Min(hits)].inode
=============================================================================
