------------------------------- MODULE MCNetIo -------------------------------
(* Small instances of NetIo for TLC.                                       *)
EXTENDS NetIo, TLC

Symmetry == Permutations(Thread)

(* Two descriptors in different groups, the first used both ways.          *)
ThreeChans == {<<1, "IN">>, <<1, "OUT">>, <<2, "IN">>}
OneChan    == {<<1, "IN">>}
OneOut     == {<<1, "OUT">>}
ByNumber   == [fd \in Fd |-> fd - 1]
Single     == [fd \in Fd |-> 0]
BothFds    == {{<<1, "IN">>, <<2, "IN">>}}

=============================================================================
