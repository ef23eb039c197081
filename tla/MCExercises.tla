----------------------------- MODULE MCExercises -----------------------------
(***************************************************************************)
(* An instance of Exercises for TLC: the inputs of the small programs.     *)
(***************************************************************************)
EXTENDS Exercises

\* All texts of up to n characters from set.
TextsOver(set, n) == UNION {[1 .. k -> set] : k \in 0 .. n}

\* One or two arguments over a letter of each case, a digit and a blank; the flags, and
\* what is almost a flag.
MCArgerInputs ==
    [flag: {UFLAG, LFLAG, CAPFLAG, <<>>, <<45>>, <<45, 99, 97>>, <<45, 117, 117>>},
     args: {<<>>} \cup {<<t>> : t \in TextsOver({97, 90, 49, SPACE}, 3)}
                  \cup {<<s, t>> : s, t \in TextsOver({97, 90, 49, SPACE}, 1)}]

\* Every printable character, and short texts over letters around the missing J, a blank
\* and a digit.
MCPlainTexts ==
    {<<c>> : c \in 32 .. 126} \cup TextsOver({65, 73, 74, 75, 106, 122, SPACE, 53}, 3)

\* Lines over two digits, a blank, a tab, the signs and a letter, and two lines one of which
\* is too long for the buffer.
MCBlockFiles ==
    {t \o <<NL>> : t \in TextsOver({49, 50, SPACE}, 5) \cup TextsOver({49, SPACE, TAB, 43, 45, 120}, 3)}
        \cup {<<49, 50, SPACE, 51, NL, SPACE, 52, 53, SPACE, 54, 55, SPACE, 56, 57, NL>>}

MCGenrandInputs == [n: {-1, 0, 4}, append: BOOLEAN]

MCOldNumbers == <<20000, 8>>

MCTimeSeeds == {Digits(0), Digits(1), Digits(1738000000), Digits(2147483647)}
=============================================================================
