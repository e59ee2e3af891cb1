----------------------- MODULE MCConnectionStringTable -----------------------
(* Small instances of ConnectionStringTable for TLC. *)
EXTENDS ConnectionStringTable

CONSTANTS s1, s2, s3, s4

\* More strings than entries; the strings are interchangeable.
MCString == {s1, s2, s3}
MCStrings == {s1, s2, s3, s4}
MCSymmetry == Permutations(MCStrings)
=============================================================================
