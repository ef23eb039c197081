---------------------------- MODULE MCEncryption ----------------------------
(***************************************************************************)
(* Instances of Encryption for TLC: what strings.txt may hold.             *)
(***************************************************************************)
EXTENDS Encryption

a == 97
z == 122
Y == 89
digit == 49

\* No file, an empty one, short lines (one of them empty), and lines that have as many
\* characters as the buffer takes, or more, the last one without newline; or more lines
\* than the heap has room for.
MCTexts ==
    {NoFile, <<>>, <<a, NL, NL, Y, digit, NL>>, <<z, NL, Y, NL, a, z, NL>>,
     <<a, z, Y, NL, z>>, <<z, a, z, Y, NL, a, NL>>,
     <<NL, NL, a, NL, NL, NL>>}

MCSeeds == {Digits(0), Digits(1), Digits(1738000000)}
=============================================================================
