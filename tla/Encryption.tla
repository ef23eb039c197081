----------------------------- MODULE Encryption -----------------------------
(***************************************************************************)
(* week6: multi_process.c and the cipher program its children run.  A user *)
(* runs "generate" and "encrypt" one after the other in one directory; the *)
(* files outlive the runs.  A text is a sequence of character codes.  The  *)
(* parent and its child are separate processes; the parent's stdio buffer  *)
(* is copied to the child by fork().                                       *)
(***************************************************************************)
EXTENDS StringQueue, Lcg, Stdio

CONSTANTS
    CHUNK_SIZE,        \* 100
    LINE_MAX,          \* 255: the characters fgets can put into line[256]
    MIN_LEN, MAX_LEN,  \* 5 and 10
    TOTAL_STRINGS,     \* 10000
    Seeds,             \* what time(NULL) may return
    Texts,             \* what strings.txt may hold before the first run
    NoFile,            \* there is no such file
    Faults,            \* what may fail, a subset of FaultKinds
    MaxRuns            \* bound: runs of the program in one behaviour

FaultKinds == {"open", "disk", "memory", "fork", "exec", "kill"}

\* The characters of a text file.
Code == {NL} \cup 32 .. 126

ASSUME EncryptionAssumption ==
    /\ CHUNK_SIZE \in Nat \ {0}
    /\ {MIN_LEN, MAX_LEN, LINE_MAX, TOTAL_STRINGS, MaxRuns} \subseteq Nat
    /\ MIN_LEN <= MAX_LEN /\ MAX_LEN < LINE_MAX
    /\ NoFile \notin Seq(Int)
    /\ \A text \in Texts : text = NoFile \/ text \in Seq(Code)
    /\ Seeds \subseteq Nat \X Nat \X Nat
    /\ Faults \subseteq FaultKinds

VARIABLES
    strings,      \* strings.txt
    chunk, out,   \* chunk_i.txt and cipher_output_i.txt
    tty,          \* is stdout a terminal?
    log,          \* what the run has sent to its stdout
    pending,      \* the stdio buffer of the parent's stdout
    pc,           \* where the parent is; "shell": no run under way
    unread,       \* what loadStringsIntoQueue has not read of strings.txt
    q,
    chunkIndex, written,
    child,        \* where the child is, and its copy of the stdio buffer
    lcg_state,
    spoiled,      \* the files that have not become what they should, through a fault
    status,       \* exit status of the last run
    runs

files    == <<strings, chunk, out>>
terminal == <<tty, log, pending>>
loop     == <<unread, q, chunkIndex, written>>
rest     == <<child, lcg_state, spoiled, status, runs>>
encVars  == <<files, terminal, pc, loop, rest>>

Chunks == 0 .. Cardinality(Nodes)

\* Lines of the log; no character has such a code.
LOADED    == -1
PROCESSED == -2
GENERATED == -3

Fails(kind) == kind \in Faults

\* What a file may hold after text was written to it: the results of fprintf,
\* fputs and fclose are not looked at.
Stored(text) == {text} \cup (IF Fails("disk") THEN {SubSeq(text, 1, k) : k \in 0 .. Len(text)} ELSE {})

\* MUTANT of Shift: no wrap-around at the end of the alphabet.
Shift_no_wrap(c) == IF isalpha(c) THEN c + 3 ELSE c

\* cipher.c: one character.
Shift(c) ==
    IF isalpha(c) THEN LET base == IF islower(c) THEN 97 ELSE 65 IN base + ((c - base + 3) % 26)
                  ELSE c

\* cipher.c: reading by pieces of a line and printing them leaves the text whole.
cipher(text) == [i \in 1 .. Len(text) |-> Shift(text[i])]

-----------------------------------------------------------------------------
printf(line) ==
    IF tty THEN log' = Append(log, line) /\ UNCHANGED <<tty, pending>>
           ELSE pending' = Append(pending, line) /\ UNCHANGED <<tty, log>>

\* exit() and a return from main flush stdout.
Exit(st) ==
    /\ pc' = "shell"
    /\ status' = st
    /\ log' = log \o pending
    /\ pending' = <<>>
    /\ q' = initQueue /\ unread' = <<>> /\ written' = 0
    /\ UNCHANGED <<tty, files, chunkIndex, child, lcg_state, spoiled, runs>>

\* main, up to the branch it takes; a wrong argument ends the run here.  Only "generate"
\* makes use of the seed.
main ==
    /\ pc = "shell" /\ runs < MaxRuns
    /\ runs' = runs + 1
    /\ chunkIndex' = 0 /\ spoiled' = {} /\ log' = <<>>
    /\ UNCHANGED <<files, tty, pending, unread, q, written, child>>
    /\ \/ pc' = "generate" /\ lcg_state' \in Seeds /\ status' = "none"
       \/ pc' = "load" /\ UNCHANGED lcg_state /\ status' = "none"
       \/ pc' = "shell" /\ UNCHANGED lcg_state /\ status' = "failure"

GenerateOpen ==
    /\ pc = "generate"
    /\ \/ /\ strings' = <<>> /\ pc' = "strings"
          /\ UNCHANGED <<chunk, out, terminal, loop, rest>>
       \/ Fails("open") /\ Exit("failure")

RandomLength(s) == lcg_rand_range(lcg_rand(s), MIN_LEN, MAX_LEN)

generateRandomString(s) ==
    [i \in 1 .. RandomLength(s) |-> lcg_rand_range(After(lcg_rand, s, i + 1), 97, 122)]

\* One turn of the loop of generateStringsFile; written is its counter i.
GenerateString ==
    /\ pc = "strings" /\ written < TOTAL_STRINGS
    /\ strings' = strings \o generateRandomString(lcg_state) \o <<NL>>
    /\ lcg_state' = After(lcg_rand, lcg_state, RandomLength(lcg_state) + 1)
    /\ written' = written + 1
    /\ UNCHANGED <<chunk, out, terminal, pc, unread, q, chunkIndex, child, spoiled, status, runs>>

GenerateEnd ==
    /\ pc = "strings" /\ written = TOTAL_STRINGS
    /\ strings' \in Stored(strings)
    /\ printf(GENERATED)
    /\ pc' = "end"
    /\ UNCHANGED <<chunk, out, loop, rest>>

generateStringsFile == GenerateOpen \/ GenerateString \/ GenerateEnd

-----------------------------------------------------------------------------
Stripped(line) == IF line[Len(line)] = NL THEN SubSeq(line, 1, Len(line) - 1) ELSE line

LoadOpen ==
    /\ pc = "load"
    /\ \/ /\ strings # NoFile
          /\ unread' = strings /\ pc' = "lines"
          /\ UNCHANGED <<files, terminal, q, chunkIndex, written, rest>>
       \/ (strings = NoFile \/ Fails("open")) /\ Exit("failure")

\* malloc fails when the heap is exhausted, and may fail before.
LoadLine ==
    /\ pc = "lines" /\ unread # <<>>
    /\ \/ /\ q.allocated # Nodes
          /\ q' = enqueue(q, Stripped(fgets(unread, LINE_MAX)))
          /\ unread' = Rest(unread, LINE_MAX)
          /\ UNCHANGED <<files, terminal, pc, chunkIndex, written, rest>>
       \/ (q.allocated = Nodes \/ Fails("memory")) /\ Exit("failure")

LoadEnd ==
    /\ pc = "lines" /\ unread = <<>>
    /\ printf(LOADED)
    /\ pc' = "loop"
    /\ UNCHANGED <<files, loop, rest>>

loadStringsIntoQueue == LoadOpen \/ LoadLine \/ LoadEnd

-----------------------------------------------------------------------------
\* The loop of processInChunks is over, by its condition or by break.
EndLoop == printf(PROCESSED) /\ pc' = "free"

\* writeChunkToFile returns 0.
ChunkOpenFails ==
    /\ Fails("open")
    /\ EndLoop
    /\ spoiled' = spoiled \cup {<<"chunk", chunkIndex>>}
    /\ UNCHANGED <<files, loop, child, lcg_state, status, runs>>

NextChunk ==
    /\ pc = "loop"
    /\ \/ isEmptyQueue(q) /\ EndLoop /\ UNCHANGED <<files, loop, rest>>
       \/ ~ isEmptyQueue(q) /\ ChunkOpenFails
       \/ /\ ~ isEmptyQueue(q)
          /\ chunk' = [chunk EXCEPT ![chunkIndex] = <<>>]
          /\ written' = 0 /\ pc' = "write"
          /\ UNCHANGED <<strings, out, terminal, unread, q, chunkIndex, rest>>

\* MUTANT of ChunkFull: one string too many.
ChunkFull_late == written > CHUNK_SIZE

ChunkFull == written >= CHUNK_SIZE

WriteString ==
    /\ pc = "write" /\ ~ isEmptyQueue(q) /\ ~ ChunkFull
    /\ chunk' = [chunk EXCEPT ![chunkIndex] = @ \o DequeuedString(q) \o <<NL>>]
    /\ q' = dequeue(q)
    /\ written' = written + 1
    /\ UNCHANGED <<strings, out, terminal, pc, unread, chunkIndex, rest>>

WriteClose ==
    /\ pc = "write" /\ (isEmptyQueue(q) \/ ChunkFull)
    /\ \E text \in Stored(chunk[chunkIndex]) :
          /\ chunk' = [chunk EXCEPT ![chunkIndex] = text]
          /\ spoiled' = IF text = chunk[chunkIndex] THEN spoiled
                        ELSE spoiled \cup {<<"chunk", chunkIndex>>}
    /\ pc' = "fork"
    /\ UNCHANGED <<strings, out, terminal, loop, child, lcg_state, status, runs>>

fork ==
    /\ pc = "fork"
    /\ \/ /\ child' = [at |-> "reopen", pending |-> pending]
          /\ pc' = "wait"
          /\ UNCHANGED <<files, terminal, loop, lcg_state, spoiled, status, runs>>
       \/ Fails("fork") /\ Exit("failure")

\* MUTANT of wait: waits for a child that ends well.
wait_for_success ==
    /\ pc = "wait" /\ child.at = "dead" /\ <<"out", chunkIndex>> \notin spoiled
    /\ child' = [child EXCEPT !.at = "none"]
    /\ chunkIndex' = chunkIndex + 1
    /\ pc' = "loop"
    /\ UNCHANGED <<files, terminal, unread, q, written, lcg_state, spoiled, status, runs>>

\* MUTANT of wait: goes on at once.
wait_not ==
    /\ pc = "wait"
    /\ chunkIndex' = chunkIndex + 1
    /\ pc' = "loop"
    /\ UNCHANGED <<files, terminal, unread, q, written, child, lcg_state, spoiled, status, runs>>

\* wait(NULL) takes note that the child has ended and not of how.
wait ==
    /\ pc = "wait" /\ child.at = "dead"
    /\ child' = [child EXCEPT !.at = "none"]
    /\ chunkIndex' = chunkIndex + 1
    /\ pc' = "loop"
    /\ UNCHANGED <<files, terminal, unread, q, written, lcg_state, spoiled, status, runs>>

processInChunks == NextChunk \/ WriteString \/ WriteClose \/ fork \/ wait

freeQueue ==
    /\ pc = "free"
    /\ \/ ~ isEmptyQueue(q) /\ q' = dequeue(q) /\ UNCHANGED pc
       \/ isEmptyQueue(q) /\ pc' = "end" /\ UNCHANGED q
    /\ UNCHANGED <<files, terminal, unread, chunkIndex, written, rest>>

\* The end of main.
Return == pc = "end" /\ Exit("success")

-----------------------------------------------------------------------------
\* The child ends, ok or not, and leaves text in its output file.
ChildExits(text, ok) ==
    /\ out' = [out EXCEPT ![chunkIndex] = text]
    /\ child' = [at |-> "dead", pending |-> <<>>]
    /\ spoiled' = IF ok THEN spoiled ELSE spoiled \cup {<<"out", chunkIndex>>}
    /\ UNCHANGED log

\* MUTANT of freopen: redirects the descriptor only, as dup2 would.
freopen_dup2 ==
    /\ child.at = "reopen"
    /\ child' = [child EXCEPT !.at = "exec"]
    /\ out' = [out EXCEPT ![chunkIndex] = <<>>]
    /\ UNCHANGED <<log, spoiled>>

\* MUTANT of freopen: opens the output file with "a".
freopen_append ==
    /\ child.at = "reopen"
    /\ log' = log \o child.pending
    /\ child' = [at |-> "exec", pending |-> <<>>]
    /\ out' = [out EXCEPT ![chunkIndex] = IF @ = NoFile THEN <<>> ELSE @]
    /\ UNCHANGED spoiled

\* freopen flushes what the child has inherited to the old stdout and closes it, then
\* opens the output file, which empties it.
freopen ==
    /\ child.at = "reopen"
    /\ log' = log \o child.pending
    /\ \/ /\ child' = [at |-> "exec", pending |-> <<>>]
          /\ out' = [out EXCEPT ![chunkIndex] = <<>>]
          /\ UNCHANGED spoiled
       \/ /\ Fails("open")
          /\ child' = [at |-> "dead", pending |-> <<>>]
          /\ spoiled' = spoiled \cup {<<"out", chunkIndex>>}
          /\ UNCHANGED out

\* A successful exec throws the buffer away, exit() after a failed one flushes it.
execlp ==
    /\ child.at = "exec"
    /\ \/ child' = [at |-> "cipher", pending |-> <<>>] /\ UNCHANGED <<out, log, spoiled>>
       \/ Fails("exec") /\ ChildExits(out[chunkIndex] \o child.pending, FALSE)

\* cipher.c, main: its output goes behind what freopen has left in the file.  Nobody
\* looks at the file while it runs.
RunCipher ==
    /\ child.at = "cipher"
    /\ \/ Fails("open") /\ ChildExits(out[chunkIndex], FALSE)
       \/ \E text \in Stored(cipher(chunk[chunkIndex])) :
             ChildExits(out[chunkIndex] \o text, text = cipher(chunk[chunkIndex]))

\* The child dies by a signal; cipher may have flushed part of its output by then.
Killed ==
    /\ Fails("kill") /\ child.at \notin {"none", "dead"}
    /\ \/ ChildExits(out[chunkIndex], FALSE)
       \/ /\ child.at = "cipher"
          /\ \E k \in 1 .. Len(chunk[chunkIndex]) :
                ChildExits(out[chunkIndex] \o SubSeq(cipher(chunk[chunkIndex]), 1, k), FALSE)

Child ==
    /\ freopen \/ execlp \/ RunCipher
    /\ UNCHANGED <<strings, chunk, tty, pending, pc, loop, lcg_state, status, runs>>

ChildKilled ==
    Killed /\ UNCHANGED <<strings, chunk, tty, pending, pc, loop, lcg_state, status, runs>>

Parent ==
    generateStringsFile \/ loadStringsIntoQueue \/ processInChunks \/ freeQueue \/ Return

Init ==
    /\ strings \in Texts
    /\ chunk = [i \in Chunks |-> NoFile] /\ out = [i \in Chunks |-> NoFile]
    /\ tty \in BOOLEAN /\ log = <<>> /\ pending = <<>>
    /\ pc = "shell" /\ unread = <<>> /\ q = initQueue /\ chunkIndex = 0 /\ written = 0
    /\ child = [at |-> "none", pending |-> <<>>]
    /\ lcg_state = Digits(1) /\ spoiled = {} /\ status = "none" /\ runs = 0

Next == main \/ Parent \/ Child \/ ChildKilled

\* The parent and a child that has not been killed run on; nobody has to start a run.
Fairness == WF_encVars(Parent) /\ WF_encVars(Child)

Spec == Init /\ [][Next]_encVars /\ Fairness
-----------------------------------------------------------------------------
Parents == {"shell", "generate", "strings", "load", "lines", "loop", "write", "fork", "wait",
            "free", "end"}

Messages == {LOADED, PROCESSED, GENERATED}

\* Types: in particular there are never more chunks than nodes on the heap, and a child
\* is there exactly while the parent waits.
TypeOK ==
    /\ strings \in Seq(Code) \cup {NoFile}
    /\ chunk \in [Chunks -> Seq(Code) \cup {NoFile}]
    /\ out \in [Chunks -> Seq(Code \cup Messages) \cup {NoFile}]
    /\ tty \in BOOLEAN /\ log \in Seq(Messages) /\ pending \in Seq(Messages)
    /\ pc \in Parents /\ unread \in Seq(Code)
    /\ q \in Queue(Seq(Code)) /\ q.size <= Cardinality(Nodes)
    /\ chunkIndex \in Chunks /\ written \in 0 .. CHUNK_SIZE + TOTAL_STRINGS
    /\ child \in [at: {"none", "reopen", "exec", "cipher", "dead"}, pending: Seq(Messages)]
    /\ (child.at = "none") = (pc # "wait")
    /\ lcg_state \in Nat \X Nat \X Nat
    /\ spoiled \subseteq {"chunk", "out"} \X Chunks
    /\ status \in {"none", "success", "failure"} /\ runs \in 0 .. MaxRuns

\* A text without its newlines.
Letters(text) ==
    LET kept[k \in 0 .. Len(text)] ==
            IF k = 0 THEN <<>>
            ELSE IF text[k] = NL THEN kept[k - 1] ELSE Append(kept[k - 1], text[k])
    IN  kept[Len(text)]

\* f[0], ..., f[n - 1] one after the other.
Joined(f, n) ==
    LET j[k \in 0 .. n] == IF k = 0 THEN <<>> ELSE j[k - 1] \o (IF f[k - 1] = NoFile THEN <<>> ELSE f[k - 1])
    IN  j[n]

\* How many chunk files the run has begun.
Begun == chunkIndex + (IF pc \in {"write", "fork", "wait"} THEN 1 ELSE 0)

\* While "encrypt" works, every character of strings.txt is in exactly one place and in
\* its order: in a chunk file, in the queue or still unread; lines too long for the
\* buffer, empty lines and a last line without newline included, and whatever
\* fails apart from the writing of a chunk file.
NothingLost ==
    /\ pc \in {"lines", "loop", "write", "fork", "wait"}
    /\ \A i \in Chunks : <<"chunk", i>> \notin spoiled
    => Letters(Joined(chunk, Begun) \o Joined([k \in 0 .. q.size - 1 |-> Strings(q)[k + 1]], q.size) \o unread)
         = Letters(strings)

LineCount(text) == Cardinality({k \in 1 .. Len(text) : text[k] = NL})

\* Chunks are filled up: of the chunk files of a run every one but the last has
\* CHUNK_SIZE lines, and the last one has at least one.
ChunksAreFull ==
    \A i \in 0 .. chunkIndex - 1 :
        <<"chunk", i>> \notin spoiled =>
            /\ LineCount(chunk[i]) \in 1 .. CHUNK_SIZE
            /\ i < chunkIndex - 1 => LineCount(chunk[i]) = CHUNK_SIZE

ShortLines(text) ==
    \A i \in 1 .. Len(text) - LINE_MAX + 1 : \E j \in i .. i + LINE_MAX - 1 : text[j] = NL

\* If every line ends with a newline and fits the buffer, splitting into chunks loses
\* and adds no line, not even an empty one: the chunk files together are strings.txt.
LinesStayWhole ==
    /\ pc = "free" /\ spoiled = {}
    /\ ShortLines(strings) /\ (strings # <<>> => strings[Len(strings)] = NL)
    => Joined(chunk, chunkIndex) = strings

\* Undoes the shift of cipher.c.
Decipher(text) ==
    [i \in 1 .. Len(text) |->
        LET base == IF islower(text[i]) THEN 97 ELSE 65
        IN  IF isalpha(text[i]) THEN base + ((text[i] - base + 23) % 26) ELSE text[i]]

\* The output file of a chunk whose child did not fail deciphers to the chunk file,
\* whatever an earlier run or an earlier failure has left there.
OutputsDecipher ==
    \A i \in 0 .. chunkIndex - 1 :
        <<"out", i>> \notin spoiled => Decipher(out[i]) = chunk[i]

\* The buffer a child inherits from the parent's stdout never gets into an output
\* file, on the ways out after a failed freopen or execlp either.
NoLogInOutputs ==
    \A i \in Chunks : out[i] # NoFile => \A k \in 1 .. Len(out[i]) : out[i][k] \in Code

\* Every run of the program comes to its end, whatever fails and whether or not the
\* child is killed.
RunsEnd == pc # "shell" ~> pc = "shell"

\* "All strings processed in %d chunks.": once that is printed, every string of
\* strings.txt is in an output file, encrypted.
AllStringsProcessed ==
    (\E k \in 1 .. Len(log \o pending) : (log \o pending)[k] = PROCESSED) =>
        Letters(Decipher(Joined(out, chunkIndex))) = Letters(strings)
=============================================================================
