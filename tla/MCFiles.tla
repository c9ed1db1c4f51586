------------------------------- MODULE MCFiles -------------------------------
(* Files on an image with two directories, of which one has a hole and both *)
(* deleted entries, and files that end inside and at the end of a block,    *)
(* have holes, and reach the last block an indirect block can name.         *)
EXTENDS Files

Dir(block) == [dir |-> TRUE, size |-> 2 * BLOCK, block |-> block]
File(size, block) == [dir |-> FALSE, size |-> size, block |-> block]
E(inode, name) == [inode |-> inode, name |-> name]

MCInode == 2 :> Dir(<<1, 2, 0>>) @@ 3 :> Dir(<<0, 3, 0>>)
           @@ 4 :> File(8, <<4, 5, 6>>) @@ 5 :> File(7, <<0, 9, 10>>) @@ 6 :> File(3, <<12, 13, 0>>)
MCDirBlock == 1 :> <<E(2, "."), E(2, ".."), E(3, "bin"), E(0, "old"), E(4, "f")>> @@ 2 :> <<E(5, "g"), E(0, "old")>>
              @@ 3 :> <<E(3, "."), E(2, ".."), E(0, "old"), E(6, "h"), E(4, "f")>>
MCIndirect == 6 :> <<7, 8>> @@ 10 :> <<0, 11>>

Rel(segs) == [abs |-> FALSE, segs |-> segs]
Abs(segs) == [abs |-> TRUE, segs |-> segs]
MCFileArg == {Rel(<<"f">>), Abs(<<"g">>), Rel(<<"bin", "h">>), Rel(<<"bin">>), Rel(<<"dev">>),
              Rel(<<"dev", "tty">>)}
MCDirArg == {Rel(<<"..">>), Abs(<<"dev", ".", "pts">>), Rel(<<"bin">>), Rel(<<"dev">>)}
MCBootDevices == <<"tty", "null", "wm", "ptmx">>
=============================================================================
