-------------------------------- MODULE Stdio --------------------------------
(***************************************************************************)
(* Texts as sequences of character codes, and what fgets takes from them.  *)
(***************************************************************************)
EXTENDS Integers, Sequences

NL    == 10
TAB   == 9
SPACE == 32

isupper(c) == c \in 65 .. 90
islower(c) == c \in 97 .. 122
isalpha(c) == isupper(c) \/ islower(c)
isdigit(c) == c \in 48 .. 57

\* MUTANT of PieceLength: one character of the buffer is given away.
PieceLength_short(text, max) ==
    CHOOSE k \in 1 .. Len(text) :
        /\ text[k] = NL \/ k = max - 1 \/ k = Len(text)
        /\ \A j \in 1 .. k - 1 : text[j] # NL /\ j # max - 1

\* How many characters of a text that is not empty fgets puts into a buffer for max
\* characters.
PieceLength(text, max) ==
    CHOOSE k \in 1 .. Len(text) :
        /\ text[k] = NL \/ k = max \/ k = Len(text)
        /\ \A j \in 1 .. k - 1 : text[j] # NL /\ j # max

fgets(text, max) == SubSeq(text, 1, PieceLength(text, max))

\* What fgets leaves for the next time.
Rest(text, max) == SubSeq(text, PieceLength(text, max) + 1, Len(text))
=============================================================================
