-------------------------- MODULE MCBlockTransfer --------------------------
(* Constants of BlockTransfer for model checking: the receiver's blocks are  *)
(* as large as the sender's, or smaller.                                     *)
EXTENDS BlockTransfer

\* A payload of one block, and of two, the second full or not.
MCLengths == {2, 3, 4}
MCMaxCopies == [o \in BOOLEAN |-> IF o THEN 3 ELSE 1]
MCPeerBlockSizes == {1, 2}
=============================================================================
