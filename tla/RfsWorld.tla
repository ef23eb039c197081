------------------------------ MODULE RfsWorld ------------------------------
(***************************************************************************)
(* What the remote file system's server and clients share: the requests,   *)
(* the connections between them and, on the server's side, the kernel's    *)
(* view of the files under server_data/.                                   *)
(*                                                                         *)
(* A connection is one sequence of segments per direction, a segment being *)
(* what one send() passed.  TCP keeps no message borders: a recv() returns *)
(* any number of the queued segments at once.  (A segment is not split;    *)
(* all of them fit the receiver's buffer.)                                 *)
(*                                                                         *)
(* A file is an inode.  The directory entry of a path and an open file     *)
(* descriptor refer to inodes independently of each other, and flock()     *)
(* locks the inode, not the path.                                          *)
(***************************************************************************)
EXTENDS Integers, Sequences

CONSTANTS
    Clients,       \* runs of the client program, one connection each
    Paths,         \* the remote paths clients name
    Blank,         \* a path argument without a token in it
    None,
    Requests,      \* what the clients may be started with
    InitFiles,     \* the paths that exist when the server starts
    MissingDirs,   \* the paths whose sub-directory does not exist
    BUF_SIZE       \* bytes per transfer (1024)

Ops == {"WRITE", "GET", "RM", "USAGE"}

\* The arguments of a client run.  "USAGE" stands for a command line main rejects
\* once it has connected; local is the size of the local file, -1 if it cannot be opened
\* (for WRITE) or created (for GET).
Request == [op: Ops, path: Paths \cup {Blank}, perm: {"RO", "RW", "none"}, local: Int]

ASSUME RequestsAssumption ==
    /\ Requests \subseteq Request
    /\ \A r \in Requests : r.path = Blank => r.perm = "none"
    /\ \A r \in Requests : r.local >= -1

ASSUME NamesAssumption ==
    /\ Clients \cap Paths = {}
    /\ None \notin Clients \cup Paths
    /\ Blank \notin Paths

ASSUME FilesAssumption ==
    /\ InitFiles \subseteq Paths \ MissingDirs
    /\ MissingDirs \subseteq Paths
    /\ BUF_SIZE \in Nat \ {0}

VARIABLES
    dir,        \* dir[p]: the inode of path p, None if there is no such file
    content,    \* content[i]: the bytes of inode i
    fd,         \* fd[c]: the inode c's server thread has open, or None
    held,       \* held[c]: the flock it has on that inode
    toServer,   \* toServer[c], toClient[c]: segments under way
    toClient,
    srv,        \* where c's server thread is
    cli,        \* where client c is
    req         \* req[c]: the request of client c

files == <<dir, content>>
wires == <<toServer, toClient>>

\* An inode is named after the client whose WRITE created it, or after the path
\* of the file that was there at the start.
Inodes == Clients \cup Paths

\* A byte is named after the client that uploaded it, or after the initial file.
Byte == Clients \cup Paths

Min2(m, n) == IF m < n THEN m ELSE n

\* MUTANT of Chunk: fread(buf, BUF_SIZE, 1, fp), which counts whole buffers.
Chunk_whole(c) == IF req[c].local >= BUF_SIZE THEN [i \in 1 .. BUF_SIZE |-> c] ELSE <<>>

\* What one fread of the local file of c yields.
Chunk(c) == [i \in 1 .. Min2(req[c].local, BUF_SIZE) |-> c]

InitContent(p) == <<p, p>>

Segment(tag) == [tag |-> tag, data |-> <<>>]

DataSegment(bytes) == [tag |-> "DATA", data |-> bytes]

\* flock(): c may have the inode it has open in this mode.
LockFree(c, mode) ==
    \A d \in Clients \ {c} :
        fd[d] = fd[c] => held[d] = "none" \/ (held[d] = "SH" /\ mode = "SH")

\* write() at offset 0 of inode i: what lies beyond the bytes written stays.
Overwrite(i, bytes) ==
    [content EXCEPT ![i] = bytes \o SubSeq(@, Len(bytes) + 1, Len(@))]

\* A client closes its socket when its run ends, a server thread when it is done.
ClientClosed(c) == cli[c] = "closed"
ServerClosed(c) == srv[c] = "done"

WorldInit ==
    /\ dir = [p \in Paths |-> IF p \in InitFiles THEN p ELSE None]
    /\ content = [i \in Inodes |-> IF i \in InitFiles THEN InitContent(i) ELSE <<>>]
    /\ fd = [c \in Clients |-> None]
    /\ held = [c \in Clients |-> "none"]
    /\ toServer = [c \in Clients |-> <<>>]
    /\ toClient = [c \in Clients |-> <<>>]
    /\ srv = [c \in Clients |-> "none"]
    /\ cli = [c \in Clients |-> "start"]
    /\ req \in [Clients -> Requests]
=============================================================================
