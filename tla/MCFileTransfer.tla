---------------------------- MODULE MCFileTransfer ----------------------------
(***************************************************************************)
(* Instances of FileTransfer for TLC.  A path is a stem, the number that    *)
(* createUniqueFilePath put after it, and whether ".part" is appended.      *)
(***************************************************************************)
EXTENDS FileTransferProperties, TLC

CONSTANTS f, g, e

MCPaths == {"a", "b"} \X (0..2) \X BOOLEAN

\* f and g have the same name.
MCCandidates == [t \in Transfers |-> [i \in 1..3 |-> <<IF t = e THEN "b" ELSE "a", i - 1, FALSE>>]]

MCTempOf == [p \in FinalPaths |-> <<p[1], p[2], TRUE>>]

\* A file of two chunks, one of one chunk and an empty one; equal files.
MCChunks == [t \in Transfers |-> IF t = f THEN 2 ELSE IF t = g THEN 1 ELSE 0]
OneChunkEach == [t \in Transfers |-> 1]

\* Of an earlier session: a file, and one whose transfer never ended.
MCLeftovers == {<<"a", 0, FALSE>>, <<"a", 0, TRUE>>}

NoLeftovers == {}

\* Files of one name and one size.
TransferSymmetry == Permutations(Transfers)
=============================================================================
