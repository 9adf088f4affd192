------------------------------ MODULE MCConverter ------------------------------
(* Three small graphs in one directory; the largest does not fit in the    *)
(* 32-bit files.                                                           *)
EXTENDS Converter

\* A triangle with a comment, a loop, an edge given twice and a malformed line.
Triangle == << <<>>, <<7, 2>>, <<2, 2>>, <<2, 5>>, <<5, 7>>, <<7, 5>>, <<3>>, <<9, 2>> >>
\* A path whose later vertices appear first.
Path == << <<5, 9>>, <<9, 1>> >>
\* A triangle with a tail.
Tail4 == << <<4, 8>>, <<8, 6>>, <<6, 4>>, <<6, 1>> >>

MCTexts == {Triangle, Path, Tail4}

\* The hypotheses of Converter_proofs.
ASSUME UndisturbedConversion == LoadsNumbers /\ ConvertsAlone

=============================================================================
