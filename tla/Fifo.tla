-------------------------------- MODULE Fifo --------------------------------
(* What a pipe promises, whatever is between its ends: each reader gets      *)
(* bytes that were sent, in their order, none twice; and one that is whole,  *)
(* because it never left, misses none.                                       *)
EXTENDS Naturals, Sequences, SequencesExt

CONSTANTS Readers, Bytes

VARIABLES sent,     \* the bytes sent so far
          taken,    \* reader -> the bytes it got so far
          whole     \* the readers that never left

FifoInit ==
    /\ sent = <<>>
    /\ taken = [d \in Readers |-> <<>>]
    /\ whole \subseteq Readers

InOrder(bytes) == \A k \in 1..(Len(bytes) - 1) : bytes[k] < bytes[k + 1]

(* Some bytes are sent, readers get some that they have not got, and some    *)
(* readers leave.                                                            *)
Move ==
    /\ IsPrefix(sent, sent') /\ IsPrefix(sent', Bytes)
    /\ whole' \subseteq whole
    /\ DOMAIN taken' = Readers
    /\ \A d \in Readers :
          /\ IsPrefix(taken[d], taken'[d])
          /\ InOrder(taken'[d]) /\ ToSet(taken'[d]) \subseteq ToSet(sent')
    /\ \A d \in whole' : IsPrefix(taken'[d], sent')

FifoSpec == FifoInit /\ [][Move]_<<sent, taken, whole>>
=============================================================================
