---------------------------- MODULE ReplayWindow ----------------------------
(***************************************************************************)
(* seqnum_t of tinydtls: the newest record number of an epoch and a bit    *)
(* field of those behind it, B0 := cseq, B1 := cseq - 1 and so on.  The    *)
(* field is 64 bits wide in the code; here its width is a parameter and    *)
(* the field is the set of the bits that are 1.                            *)
(***************************************************************************)
EXTENDS Integers

CONSTANT Window \* the highest bit, 63 in the code

ASSUME WindowAssumption == Window \in Nat

Bits == 0..Window
SeqNum == [cseq : Nat, bits : SUBSET Bits]

\* dtls_security_new: no record of the epoch was taken.
NewWindow == [cseq |-> 0, bits |-> {}]

\* handle_0_verified_client_hello: nothing at or before n is taken.
FullWindow(n) == [cseq |-> n, bits |-> Bits]

\* Mutant: the bit of the newest record is forgotten.
MutMark(w, n) == IF n <= w.cseq THEN w ELSE [cseq |-> n, bits |-> {b \in Bits : b - (n - w.cseq) \in w.bits}]

\* A record that is older than the field or has its bit set is dropped.
Dropped(w, n) ==
    /\ w.bits # {}
    /\ n <= w.cseq
    /\ \/ w.cseq - n > Window
       \/ w.cseq - n \in w.bits

\* Once the record is decrypted its bit is set; a newer one moves the field,
\* and those it leaves behind fall out.
Mark(w, n) ==
    CASE w.bits = {} -> [cseq |-> n, bits |-> {0}]
      [] w.bits # {} /\ n <= w.cseq -> [w EXCEPT !.bits = @ \cup {w.cseq - n}]
      [] OTHER -> [cseq |-> n,
                   bits |-> {0} \cup {b \in Bits : b - (n - w.cseq) \in w.bits}]
=============================================================================
