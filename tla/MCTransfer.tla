----------------------------- MODULE MCTransfer -----------------------------
(* Values for the constants of Transfer: a list of a directory, a file of   *)
(* two chunks and an empty file.                                            *)
EXTENDS TransferInv

CONSTANTS c1, c2

MCDirs == {1}
MCSize == <<0, 2, 0>>
MCContents == {<<>>, <<c1>>, <<c1, c2>>}
(* What may be at an output path already.                                    *)
MCExisting == {Absent, Directory, File(<<c2>>)}

=============================================================================
