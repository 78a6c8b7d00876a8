------------------------------ MODULE MCOtaTftp ------------------------------
(* Instances of OtaTftp for TLC.                                            *)
EXTENDS OtaTftp

\* With block numbers modulo 5: an empty file; files of 2, 4 and 5 blocks, the
\* last of which wraps around; a file whose last block is empty; four blocks
\* overrun a ring of two when the engine's task is slow.
OneFile == {[first |-> TRUE, lens |-> <<0>>], [first |-> TRUE, lens |-> <<3>>],
            [first |-> TRUE, lens |-> <<4>>], [first |-> TRUE, lens |-> <<9>>],
            [first |-> FALSE, lens |-> <<7>>]}
SlowEngine == {[first |-> FALSE, lens |-> <<7>>]}
\* The images of a partial upgrade, one after the other.
TwoFiles == {[first |-> TRUE, lens |-> <<3, 3>>]}
=============================================================================
