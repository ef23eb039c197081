------------------------------ MODULE TextTools ------------------------------
(***************************************************************************)
(* The programs that turn one input into one output: 01-28/arger.c,        *)
(* week4/loadmem.c, week3/genrand.c, and polybius.c (week3 and week6 have  *)
(* the same).  What the functions compute is given by operators, loops by  *)
(* recursive functions.                                                    *)
(***************************************************************************)
EXTENDS Stdio, Lcg

CONSTANTS
    OUTPUT_SIZE,   \* 1000: the buffer of arger
    BLOCK_LINE,    \* 1023: the characters of a line loadmem takes at once
    TimeSeeds      \* what time(NULL) may return, as digits of Lcg

ASSUME ToolsAssumption ==
    /\ OUTPUT_SIZE \in Nat /\ BLOCK_LINE \in Nat \ {0}
    /\ TimeSeeds \subseteq Nat \X Nat \X Nat

VARIABLES
    input,   \* of the program that runs: arguments, or the text not yet read
    output,  \* what it has written
    seed,
    at       \* "start", "loop", "done", or "failed" without having done anything

toolVars == <<input, output, seed, at>>

Finish(result) == output' = result /\ at' = "done" /\ UNCHANGED <<input, seed>>

-----------------------------------------------------------------------------
(* arger.c                                                                 *)

my_toupper(c) == IF islower(c) THEN c - 32 ELSE c

my_tolower(c) == IF isupper(c) THEN c + 32 ELSE c

Each(Op(_), str) == [i \in 1 .. Len(str) |-> Op(str[i])]

\* MUTANT of NewWord: a blank does not begin a new word.
NewWord_once(str) ==
    LET newWord[i \in 0 .. Len(str)] == i = 0 \/ (newWord[i - 1] /\ ~ isalpha(str[i])) IN newWord

\* The flag newWord of to_capitalized after the i-th character.
NewWord(str) ==
    LET newWord[i \in 0 .. Len(str)] ==
            i = 0 \/ str[i] = SPACE \/ (newWord[i - 1] /\ ~ isalpha(str[i]))
    IN  newWord

to_capitalized(str) ==
    LET newWord == NewWord(str)
    IN  [i \in 1 .. Len(str) |-> IF newWord[i - 1] /\ isalpha(str[i]) THEN my_toupper(str[i])
                                                                      ELSE my_tolower(str[i])]

\* The characters of s, and then its terminating zero.
Byte(s, i) == IF i <= Len(s) THEN s[i] ELSE 0

\* Where the loop of my_strcmp stops.
StrcmpStop(s1, s2) ==
    CHOOSE k \in 1 .. Len(s1) + 1 :
        /\ k = Len(s1) + 1 \/ Byte(s1, k) # Byte(s2, k)
        /\ \A j \in 1 .. k - 1 : Byte(s1, j) = Byte(s2, j)

my_strcmp(s1, s2) ==
    LET k == StrcmpStop(s1, s2) IN Byte(s1, k) - Byte(s2, k)

\* The arguments, each followed by a blank, as my_strcat puts them together.
Concatenated(args) ==
    LET cat[n \in 0 .. Len(args)] == IF n = 0 THEN <<>> ELSE cat[n - 1] \o args[n] \o <<SPACE>>
    IN  cat[Len(args)]

UFLAG == <<45, 117>>
LFLAG == <<45, 108>>
CAPFLAG == <<45, 99, 97, 112>>

\* main: the last blank is removed before the flag is looked at.
Converted(flag, args) ==
    LET all == Concatenated(args)
        str == SubSeq(all, 1, Len(all) - 1)
    IN  CASE my_strcmp(flag, UFLAG) = 0   -> [status |-> 0, text |-> Each(my_toupper, str)]
          [] my_strcmp(flag, LFLAG) = 0   -> [status |-> 0, text |-> Each(my_tolower, str)]
          [] my_strcmp(flag, CAPFLAG) = 0 -> [status |-> 0, text |-> to_capitalized(str)]
          [] OTHER                        -> [status |-> -1, text |-> <<>>]

\* Arguments that do not fit the buffer with their blanks are beyond the model: what
\* lies behind the buffer is overwritten.
arger ==
    /\ at = "start"
    /\ Len(Concatenated(input.args)) < OUTPUT_SIZE
    /\ Finish(IF input.args = <<>> THEN [status |-> -1, text |-> <<>>]
                                   ELSE Converted(input.flag, input.args))

-----------------------------------------------------------------------------
(* polybius.c                                                              *)

\* MUTANT of Grid: the square starts one letter late after the missing J.
Grid_with_J == [k \in 0 .. 24 |-> 65 + k]

\* The square row by row, without J.
Grid == [k \in 0 .. 24 |-> IF k < 9 THEN 65 + k ELSE 66 + k]

GridLetter(c) == LET u == my_toupper(c) IN IF u = 74 THEN 73 ELSE u

EncodedLetter(c) ==
    IF \E k \in 0 .. 24 : Grid[k] = GridLetter(c)
    THEN LET k == CHOOSE k \in 0 .. 24 : Grid[k] = GridLetter(c) IN <<49 + (k \div 5), 49 + (k % 5)>>
    ELSE <<>>

pbEncode(plaintext) ==
    LET enc[n \in 0 .. Len(plaintext)] ==
            IF n = 0 THEN <<>> ELSE enc[n - 1] \o EncodedLetter(plaintext[n])
    IN  enc[Len(plaintext)]

pbDecode(ciphertext) ==
    [n \in 1 .. Len(ciphertext) \div 2 |->
        Grid[5 * (ciphertext[2 * n - 1] - 49) + (ciphertext[2 * n] - 49)]]

polybius == at = "start" /\ Finish([code |-> pbEncode(input), text |-> pbDecode(pbEncode(input))])

-----------------------------------------------------------------------------
(* loadmem.c                                                               *)

\* The first place from p on where Op holds, or the end of the line.
From(line, p, Op(_)) ==
    CHOOSE k \in p .. Len(line) + 1 :
        /\ k = Len(line) + 1 \/ Op(line[k])
        /\ \A j \in p .. k - 1 : ~ Op(line[j])

\* What "%d" makes of the characters from s on: the integer as a sequence of one, or nothing.
Integer(line, s) ==
    LET d == IF s <= Len(line) /\ line[s] \in {43, 45} THEN s + 1 ELSE s
        e == From(line, d, LAMBDA c : ~ isdigit(c))
        val[k \in d .. e] == IF k = d THEN 0 ELSE 10 * val[k - 1] + (line[k - 1] - 48)
    IN  IF d = e THEN <<>> ELSE <<IF line[s] = 45 THEN - val[e] ELSE val[e]>>

\* sscanf(ptr, "%d", ...), which skips white space first.
sscanf(line, p) == Integer(line, From(line, p, LAMBDA c : c \notin {SPACE, TAB, NL}))

\* MUTANT of NextNumber: an if for the second while, past one blank only.
NextNumber_one_blank(line, p) ==
    LET q == From(line, p, LAMBDA c : c = SPACE) IN IF q > Len(line) THEN q ELSE q + 1

\* "Move to the next number": past what is not a blank, then past blanks.
NextNumber(line, p) ==
    From(line, From(line, p, LAMBDA c : c = SPACE), LAMBDA c : c # SPACE)

\* Where ptr is after k turns.
Pointer(line) ==
    LET ptr[k \in 0 .. Len(line) + 1] == IF k = 0 THEN 1 ELSE NextNumber(line, ptr[k - 1]) IN ptr

\* The first loop counts, the second one stores what sscanf finds at the same places.
Count(line) ==
    CHOOSE k \in 0 .. Len(line) + 1 :
        /\ sscanf(line, Pointer(line)[k]) = <<>>
        /\ \A j \in 0 .. k - 1 : sscanf(line, Pointer(line)[j]) # <<>>

Block(line) == [i \in 1 .. Count(line) |-> sscanf(line, Pointer(line)[i - 1])[1]]

\* One turn of main's loop; the block is printed and freed.
LoadBlock ==
    /\ at = "start" /\ input # <<>>
    /\ LET line == fgets(input, BLOCK_LINE)
       IN  output' = Append(output, [line |-> line, block |-> Block(line)])
    /\ input' = Rest(input, BLOCK_LINE)
    /\ UNCHANGED <<seed, at>>

\* alloc_dyn_block returns NULL, the file is at its end, or it could not be opened.
LoadmemEnd == at = "start" /\ Finish(output)

loadmem == LoadBlock \/ LoadmemEnd

-----------------------------------------------------------------------------
(* genrand.c                                                               *)

\* fopen with "a" or "w", which may fail, then initSeed.
GenrandOpen ==
    /\ at = "start"
    /\ \/ /\ output' = IF input.append THEN output ELSE <<>>
          /\ seed' \in TimeSeeds
          /\ at' = "loop"
          /\ UNCHANGED input
       \/ at' = "failed" /\ UNCHANGED <<input, output, seed>>

GenrandNumber ==
    /\ at = "loop" /\ input.n > 0
    /\ seed' = lcg(seed)
    /\ output' = Append(output, genRand(lcg(seed), 1, 10000))
    /\ input' = [input EXCEPT !.n = @ - 1]
    /\ UNCHANGED at

GenrandEnd == at = "loop" /\ input.n <= 0 /\ Finish(output)

genrand == GenrandOpen \/ GenrandNumber \/ GenrandEnd
=============================================================================
