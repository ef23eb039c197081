--------------------------------- MODULE Rfs ---------------------------------
(***************************************************************************)
(* practicum2: the server and its clients together.  Every client run has  *)
(* a connection and a server thread of its own; they meet in the files, in *)
(* the locks on them and in the permission table.                          *)
(***************************************************************************)
EXTENDS RfsServer, RfsClient

rfsVars == <<dir, content, fd, held, toServer, toClient, srv, cli, req,
             g_files, buf, crashes, outcome>>

Init == WorldInit /\ ServerInit /\ ClientInit

ServerStep(c) == client_thread(c) /\ UNCHANGED <<cli, req, outcome>>

ClientStep(c) ==
    client(c) /\ UNCHANGED <<dir, content, fd, held, srv, req, g_files, buf, crashes>>

Next ==
    \/ \E c \in Clients : ServerStep(c) \/ ClientStep(c)
    \/ Crash /\ UNCHANGED <<cli, req, outcome>>

\* A flock() that fails is a step nobody can count on: a thread that waits for a lock
\* is not saved by it.
Refused(c) == srv[c] \in {"w_flock", "g_flock", "r_flock"} /\ srv'[c] = "done"

\* A thread that can run does, and so does a client.  Every thread takes a lock at
\* most once and there are finitely many of them, so weak fairness of flock()
\* is enough: whoever waits for a lock that is released in the end gets it.
Fairness ==
    \A c \in Clients : WF_rfsVars(ServerStep(c) /\ ~ Refused(c)) /\ WF_rfsVars(ClientStep(c))

SafetySpec == Init /\ [][Next]_rfsVars

Spec == SafetySpec /\ Fairness

-----------------------------------------------------------------------------
Tags == {"CMD", "DATA", "OK_READY_TO_RECEIVE", "OK_SENDING_FILE", "WRITE_OK", "RM_OK",
         "ERR_BAD_ARGS", "ERR_FILE_IS_READ_ONLY", "ERR_OPEN", "ERR_FLOCK_FAILED",
         "ERR_RECV_FILE_DATA", "ERR_WRITE_FAILED", "ERR_FILE_NOT_FOUND", "ERR_REMOVE_FAILED"}

SrvLabels == {"none", "recv_cmd", "w_perm", "w_set", "w_recheck", "w_open", "w_flock", "w_recv",
              "w_ok", "w_short", "g_open", "g_flock", "g_read", "g_send", "r_perm", "r_open",
              "r_flock", "r_remove", "r_ok", "r_failed", "done"}

CliLabels == {"start", "w_ready", "w_final", "g_reply", "g_data", "r_reply", "closed"}

Segments == [tag: Tags, data: Seq(Byte)]

\* Types: in particular the permission table never outgrows its array.
TypeOK ==
    /\ dir \in [Paths -> Inodes \cup {None}]
    /\ content \in [Inodes -> Seq(Byte)]
    /\ fd \in [Clients -> Inodes \cup {None}]
    /\ held \in [Clients -> {"none", "SH", "EX"}]
    /\ toServer \in [Clients -> Seq(Segments)]
    /\ toClient \in [Clients -> Seq(Segments)]
    /\ srv \in [Clients -> SrvLabels]
    /\ cli \in [Clients -> CliLabels]
    /\ req \in [Clients -> Requests]
    /\ g_files \in Seq(filemeta_t) /\ Len(g_files) <= MAX_FILES
    /\ buf \in [Clients -> Seq(Byte)]
    /\ crashes \in 0 .. MaxCrashes
    /\ outcome \in [Clients -> [status: {-1, 0, 1}, reply: Tags \cup {"none"}, saved: Seq(Byte)]]

\* Where a thread has its file open, and where it owns a lock on it.
Writing == {"w_open", "w_flock", "w_recv"}
Open    == {"w_flock", "w_recv", "g_flock", "g_read", "r_flock", "r_remove"}
LockedEX == {"w_recv", "r_remove"}

\* Every way out of a handler gives back the descriptor and the lock, a thread
\* reads, writes or removes only under its lock, and never while another thread
\* has an exclusive lock on the same file.
LockDiscipline ==
    /\ \A c \in Clients : fd[c] # None <=> srv[c] \in Open
    /\ \A c \in Clients : held[c] = CASE srv[c] \in LockedEX -> "EX"
                                      [] srv[c] = "g_read"   -> "SH"
                                      [] OTHER               -> "none"
    /\ \A c, d \in Clients :
          c # d /\ held[c] = "EX" /\ fd[c] = fd[d] => held[d] = "none"

\* handle_write has let a thread through to the file only if the table has the
\* path as READ_WRITE for as long as the thread writes: the entry another thread
\* makes between the first look at the table and the second does not go unseen,
\* and none can be made after it, with a full table and a cut name included.
WritersAuthorised ==
    \A c \in Clients :
        srv[c] \in Writing => get_file_permission(g_files, req[c].path) = "READ_WRITE"

\* c's thread goes past a look at the table: a write past the first one, one that did not
\* ask for RO past the second one, a removal past its only one.
Admitted(c) ==
    \/ srv[c] = "w_perm" /\ srv'[c] = "w_set"
    \/ srv[c] = "w_recheck" /\ srv'[c] = "w_open" /\ parse_perm(req[c].perm) = "READ_WRITE"
    \/ srv[c] = "r_perm" /\ srv'[c] = "r_open"

\* "any later write to the same path now fails": once a client has been told that a
\* path is read-only, no other write or removal of the path gets past its check while
\* the server is up, whatever entries other threads were about to make at the time.
RejectionStands ==
    [][ \A c, d \in Clients :
          /\ crashes = 0
          /\ req[c].path = req[d].path
          /\ outcome[d].reply = "ERR_FILE_IS_READ_ONLY"
          => ~ Admitted(c) ]_rfsVars

\* A READ_ONLY path keeps its bytes: no thread, however long ago it passed the
\* permission check, truncates, overwrites or replaces the file.
ReadOnlyContentFixed ==
    [][ \A p \in Paths :
          get_file_permission(g_files, p) = "READ_ONLY" /\ dir[p] # None =>
              /\ dir'[p] \in {dir[p], None}
              /\ content'[dir[p]] = content[dir[p]] ]_rfsVars

\* The bytes that may show up under path p.
BytesOf(p) == {p} \cup {c \in Clients : req[c].op = "WRITE" /\ req[c].path = p}

\* Whatever is removed, created again or open at the time, a file holds only bytes
\* uploaded to its path, and a GET delivers only bytes of the path it asked for.
NoCrossTalk ==
    /\ \A p \in Paths : dir[p] # None =>
          \A k \in 1 .. Len(content[dir[p]]) : content[dir[p]][k] \in BytesOf(p)
    /\ \A c \in Clients : \A k \in 1 .. Len(outcome[c].saved) :
          outcome[c].saved[k] \in BytesOf(req[c].path)

\* Client and server thread wait for each other: one for the reply, the other for data.
MutualWait(c) ==
    /\ cli[c] = "w_final" /\ toClient[c] = <<>>
    /\ srv[c] = "w_recv" /\ toServer[c] = <<>>

EmptyUpload(c) == req[c].op = "WRITE" /\ req[c].local = 0

\* do_write sends nothing for an empty file, and handle_write waits for something: they
\* never get out of it.  But no other upload ends up there, whatever its size is, and
\* however the replies arrive.
OnlyEmptyUploadsHang == \A c \in Clients : MutualWait(c) => EmptyUpload(c)

\* Every client run comes to an end, whatever the others do, when locks are refused
\* and when the server dies under it, unless an upload of an empty file may be sitting
\* on the lock of its path.
ClientsFinish ==
    \A c \in Clients :
        (\A d \in Clients : EmptyUpload(d) => req[d].path # req[c].path) =>
            <>(cli[c] = "closed" /\ srv[c] = "done")

-----------------------------------------------------------------------------
(* What the documents say and the code does not do.                        *)

\* "per-file locking serializes concurrent writes": once nobody has it open, a file
\* that clients uploaded holds one of the uploads.
WritesSerialized ==
    (\A c \in Clients : cli[c] = "closed" /\ srv[c] = "done") =>
        \A p \in Paths : dir[p] # None => \E c \in Clients : content[dir[p]] = Chunk(c)

\* "upload a read-only file": a client that uploads with RO to a path nobody else names
\* is not turned down, and when it is done the server has its file.  The code's second
\* look at the table finds the entry the upload itself has made.
ReadOnlyUploadStored ==
    \A c \in Clients :
        /\ req[c].op = "WRITE" /\ req[c].perm = "RO" /\ req[c].local > 0
        /\ \A d \in Clients \ {c} : req[d].path # req[c].path
        /\ cli[c] = "closed"
        => dir[req[c].path] # None /\ content[dir[req[c].path]] = Chunk(c)
=============================================================================
