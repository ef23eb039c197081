------------------------------ MODULE Exercises ------------------------------
(***************************************************************************)
(* The small programs of the repository, each by itself: one of them is    *)
(* chosen at the start, with its input, and runs alone.                    *)
(***************************************************************************)
EXTENDS ThreadDemos, TextTools, FiniteSets

CONSTANTS
    ArgerInputs,     \* command lines of arger: a flag and arguments
    PlainTexts,      \* inputs of the Polybius cipher
    BlockFiles,      \* contents of blocks.data
    GenrandInputs,   \* command lines of genrand: a number and whether to append
    OldNumbers       \* what the file of genrand holds before

ASSUME InputsAssumption ==
    /\ ArgerInputs \subseteq [flag: Seq(Int), args: Seq(Seq(Int))]
    /\ PlainTexts \subseteq Seq(Int) /\ BlockFiles \subseteq Seq(Int)
    /\ GenrandInputs \subseteq [n: Int, append: BOOLEAN]
    /\ OldNumbers \in Seq(Int)

VARIABLE program

exVars == <<program, sharedVars, workVars, toolVars>>

\* The program that runs, its input and what its output file holds already.
Choose(p, in, old) == program = p /\ input = in /\ output = old

Init ==
    /\ DemosInit
    /\ seed = Digits(0) /\ at = "start"
    /\ \/ \E p \in {"thread_shared", "thread_cancel", "multithread"} : Choose(p, <<>>, <<>>)
       \/ \E in \in ArgerInputs : Choose("arger", in, <<>>)
       \/ \E in \in PlainTexts : Choose("polybius", in, <<>>)
       \/ \E in \in BlockFiles : Choose("loadmem", in, <<>>)
       \/ \E in \in GenrandInputs : Choose("genrand", in, OldNumbers)

ThreadStep ==
    \/ program = "thread_shared" /\ SharedNext
    \/ program = "thread_cancel" /\ CancelNext
    \/ program = "multithread" /\ MultithreadNext

ToolStep ==
    \/ program = "arger" /\ arger
    \/ program = "polybius" /\ polybius
    \/ program = "loadmem" /\ loadmem
    \/ program = "genrand" /\ genrand

Next ==
    \/ ThreadStep /\ UNCHANGED <<program, toolVars>>
    \/ ToolStep /\ UNCHANGED <<program, sharedVars, workVars>>

\* The threads of thread_cancel.c and its main run on.
Fairness ==
    /\ \A t \in Threads : WF_exVars(Next /\ program = "thread_cancel" /\ do_work(t))
    /\ WF_exVars(Next /\ program = "thread_cancel" /\ CancelMain)

Spec == Init /\ [][Next]_exVars /\ Fairness

-----------------------------------------------------------------------------
\* thread_shared: without a lock a reader may see slots of different rounds, but in the
\* order of its reads a slot is at most one round older than one before it, and never
\* older than it was when the reader's round began.
TearingBounded ==
    \A j \in 1 .. Len(seen) :
        /\ \A i \in 1 .. j - 1 : seen[j] >= seen[i] - 1
        /\ seen[j] >= atStart[j]

\* thread_cancel: main returns, whether the request meets Y at work or after its end, and
\* then X has done all its work, and Y is over.
CancelMainReturns ==
    program = "thread_cancel" ~>
        main = "done" /\ count["X"] = WORK_ROUNDS /\ ended["X"] = "normally" /\ ended["Y"] # "no"

\* arger -cap: exactly the first letter of each blank-separated word is upper case, also
\* after a digit or another sign, over the borders of arguments.
FirstLettersCapitalized ==
    program = "arger" /\ at = "done" /\ input.flag = CAPFLAG /\ input.args # <<>> =>
        LET all == Concatenated(input.args)
            first(i) == \A j \in 1 .. i - 1 :
                            isalpha(all[j]) => \E k \in j .. i : all[k] = SPACE
        IN  /\ Len(output.text) = Len(all) - 1
            /\ \A i \in 1 .. Len(all) - 1 :
                  /\ isalpha(all[i]) => isupper(output.text[i]) = first(i)
                  /\ my_tolower(output.text[i]) = my_tolower(all[i])

\* The letters of a text.
Alphas(text) ==
    LET kept[n \in 0 .. Len(text)] ==
            IF n = 0 THEN <<>>
            ELSE IF isalpha(text[n]) THEN Append(kept[n - 1], text[n]) ELSE kept[n - 1]
    IN  kept[Len(text)]

\* Polybius: decoding an encoded text gives its letters in upper case, with I for J, and
\* the code fits the two characters per letter that were allocated for it.
DecodeInvertsEncode ==
    program = "polybius" /\ at = "done" =>
        LET letters == Alphas(input)
        IN  /\ output.text = [i \in 1 .. Len(letters) |->
                                IF letters[i] \in {74, 106} THEN 73 ELSE my_toupper(letters[i])]
            /\ Len(output.code) <= 2 * Len(input)

\* Where the runs of digits of a line begin.
Starts(line) ==
    {i \in 1 .. Len(line) : isdigit(line[i]) /\ (i = 1 \/ ~ isdigit(line[i - 1]))}

\* The values of the runs, from left to right.
Numbers(line) ==
    [k \in 1 .. Cardinality(Starts(line)) |->
        LET i == CHOOSE i \in Starts(line) : Cardinality({j \in Starts(line) : j <= i}) = k
        IN  Integer(line, i)[1]]

\* A line of nothing but numbers, of which there is one at least.
OfNumbers(line) ==
    /\ \A i \in 1 .. Len(line) : line[i] \in {SPACE, NL} \cup 48 .. 57
    /\ Numbers(line) # <<>>

\* loadmem: of a line of digits and blanks that begins with a digit, also of a piece of a
\* line too long for the buffer, the block holds exactly the numbers, in their order.
\* Not so with a blank in front, where the search for the next number finds the first one
\* again and loadmem.c:58, "Count the number of integers in the line", does not hold.
BlocksHoldNumbers ==
    program = "loadmem" =>
        \A b \in 1 .. Len(output) :
            LET line == output[b].line
            IN  OfNumbers(line) /\ line[1] # SPACE => output[b].block = Numbers(line)

\* genrand: odd and even numbers alternate, because the lowest bit of the generator does
\* and the range it is reduced to is even; what was in the file is replaced, or kept before
\* them if asked for, and stays as it was if the file cannot be opened.
RandomNumbersAlternate ==
    program = "genrand" =>
        LET old == IF input.append THEN Len(OldNumbers) ELSE 0
        IN  /\ at = "failed" => output = OldNumbers
            /\ at = "done" =>
                  /\ SubSeq(output, 1, old) = SubSeq(OldNumbers, 1, old)
                  /\ \A i \in old + 1 .. Len(output) - 1 : output[i] % 2 # output[i + 1] % 2
=============================================================================
