------------------------------ MODULE RfsServer ------------------------------
(***************************************************************************)
(* practicum2/server.c: the multi-threaded server.  The thread that serves *)
(* the connection of client c is at srv[c]; a step is one system call or   *)
(* one g_files_lock section, together with what the thread then does on    *)
(* its own before it touches shared state again.  A reply that says what   *)
(* has become of the file is a step of its own.                            *)
(***************************************************************************)
EXTENDS RfsPerm

CONSTANTS
    Faults,      \* the system calls that may fail: a subset of {"flock", "write"}
    MaxCrashes   \* bound: deaths of the server process in one behaviour

ASSUME FaultsAssumption == Faults \subseteq {"flock", "write"} /\ MaxCrashes \in Nat

VARIABLES
    g_files,     \* the permission table
    buf,         \* buf[c]: what c's handler has read from the file
    crashes

serverVars == <<dir, content, fd, held, toServer, toClient, srv, g_files, buf, crashes>>

Step(c, from, to) ==
    /\ srv[c] = from
    /\ srv' = [srv EXCEPT ![c] = to]

Send(c, segments) == toClient' = [toClient EXCEPT ![c] = @ \o segments]

\* MUTANT of Close: unlocks and forgets the descriptor.
Close_unlocks(c) ==
    /\ held' = [held EXCEPT ![c] = "none"]
    /\ UNCHANGED fd

\* Close the file, which drops its lock.
Close(c) ==
    /\ fd' = [fd EXCEPT ![c] = None]
    /\ held' = [held EXCEPT ![c] = "none"]

\* Close the file, if there is one, reply, and leave the handler for client_thread,
\* which closes the socket.
Finish(c, from, tag) ==
    /\ Step(c, from, "done")
    /\ Send(c, <<Segment(tag)>>)
    /\ Close(c)

ServerInit ==
    /\ g_files = <<>>
    /\ buf = [c \in Clients |-> <<>>]
    /\ crashes = 0

-----------------------------------------------------------------------------
\* main: accept a connection and start a detached thread for it.
Accept(c) ==
    /\ cli[c] # "start"
    /\ Step(c, "none", "recv_cmd")
    /\ UNCHANGED <<files, fd, held, wires, g_files, buf, crashes>>

\* client_thread up to the handler it calls.
Dispatch(c) ==
    /\ toServer[c] # <<>>
    /\ toServer' = [toServer EXCEPT ![c] = <<>>]
    /\ \/ /\ req[c].path # Blank
          /\ \/ req[c].op = "WRITE" /\ Step(c, "recv_cmd", "w_perm")
             \/ req[c].op = "GET"   /\ Step(c, "recv_cmd", "g_open")
             \/ req[c].op = "RM"    /\ Step(c, "recv_cmd", "r_perm")
          /\ UNCHANGED <<fd, held, toClient>>
       \/ /\ Finish(c, "recv_cmd", "ERR_BAD_ARGS")
          /\ req[c].path = Blank
    /\ UNCHANGED <<files, g_files, buf, crashes>>

\* client_thread: recv() returned 0.
HangUp(c) ==
    /\ toServer[c] = <<>> /\ ClientClosed(c)
    /\ Step(c, "recv_cmd", "done")
    /\ UNCHANGED <<files, fd, held, wires, g_files, buf, crashes>>

-----------------------------------------------------------------------------
\* handle_write: the first look at the table ...
WritePerm(c) ==
    /\ \/ /\ Step(c, "w_perm", "w_set")
          /\ get_file_permission(g_files, req[c].path) = "READ_WRITE"
          /\ UNCHANGED <<fd, held, toClient>>
       \/ /\ Finish(c, "w_perm", "ERR_FILE_IS_READ_ONLY")
          /\ get_file_permission(g_files, req[c].path) = "READ_ONLY"
    /\ UNCHANGED <<files, toServer, g_files, buf, crashes>>

\* ... the entry of a first write ...
WriteSet(c) ==
    /\ Step(c, "w_set", "w_recheck")
    /\ g_files' = set_file_permission(g_files, req[c].path, parse_perm(req[c].perm))
    /\ UNCHANGED <<files, fd, held, wires, buf, crashes>>

\* MUTANT of WriteRecheck: goes by the first look at the table.
WriteRecheck_skipped(c) ==
    /\ Step(c, "w_recheck", "w_open")
    /\ Send(c, <<Segment("OK_READY_TO_RECEIVE")>>)
    /\ UNCHANGED <<files, fd, held, toServer, g_files, buf, crashes>>

\* ... and the second look, which may find what another thread, or this one,
\* has entered in the meantime.
WriteRecheck(c) ==
    /\ \/ /\ Step(c, "w_recheck", "w_open")
          /\ get_file_permission(g_files, req[c].path) = "READ_WRITE"
          /\ Send(c, <<Segment("OK_READY_TO_RECEIVE")>>)
          /\ UNCHANGED <<fd, held>>
       \/ /\ Finish(c, "w_recheck", "ERR_FILE_IS_READ_ONLY")
          /\ get_file_permission(g_files, req[c].path) = "READ_ONLY"
    /\ UNCHANGED <<files, toServer, g_files, buf, crashes>>

\* open(O_WRONLY | O_CREAT | O_TRUNC): the file is emptied here, before the lock.
WriteOpen(c) ==
    /\ \/ LET p == req[c].path
              i == IF dir[p] = None THEN c ELSE dir[p]
          IN  /\ Step(c, "w_open", "w_flock")
              /\ p \notin MissingDirs
              /\ dir' = [dir EXCEPT ![p] = i]
              /\ content' = [content EXCEPT ![i] = <<>>]
              /\ fd' = [fd EXCEPT ![c] = i]
              /\ UNCHANGED <<held, toClient>>
       \/ /\ Finish(c, "w_open", "ERR_OPEN")
          /\ req[c].path \in MissingDirs
          /\ UNCHANGED files
    /\ UNCHANGED <<toServer, g_files, buf, crashes>>

\* flock() blocks until the inode is free for this mode.
Flock(c, from, to, mode) ==
    /\ LockFree(c, mode)
    /\ Step(c, from, to)
    /\ held' = [held EXCEPT ![c] = mode]
    /\ UNCHANGED <<files, fd, wires, g_files, buf, crashes>>

\* The last send() of a handler.
Reply(c, from, tag) ==
    /\ Finish(c, from, tag)
    /\ UNCHANGED <<files, toServer, g_files, buf, crashes>>

FlockFails(c, from) ==
    /\ "flock" \in Faults
    /\ Reply(c, from, "ERR_FLOCK_FAILED")

\* recv() of the one chunk and write() of it: nothing another thread can do in
\* between makes a difference to either.  The reply comes after the unlock.
WriteData(c) ==
    /\ Step(c, "w_recv", "w_ok") /\ Close(c)
    /\ toServer[c] # <<>>
    /\ content' = Overwrite(fd[c], Head(toServer[c]).data)
    /\ toServer' = [toServer EXCEPT ![c] = <<>>]
    /\ UNCHANGED <<dir, toClient, g_files, buf, crashes>>

\* write() stored less than the whole chunk.
WriteShort(c) ==
    /\ Step(c, "w_recv", "w_short") /\ Close(c)
    /\ "write" \in Faults
    /\ toServer[c] # <<>>
    /\ \E n \in 0 .. Len(Head(toServer[c]).data) - 1 :
          content' = Overwrite(fd[c], SubSeq(Head(toServer[c]).data, 1, n))
    /\ toServer' = [toServer EXCEPT ![c] = <<>>]
    /\ UNCHANGED <<dir, toClient, g_files, buf, crashes>>

\* MUTANT of WriteNoData: returns with the lock still held.
WriteNoData_keeps_lock(c) ==
    /\ toServer[c] = <<>> /\ ClientClosed(c)
    /\ Step(c, "w_recv", "done")
    /\ Send(c, <<Segment("ERR_RECV_FILE_DATA")>>)
    /\ UNCHANGED <<files, fd, held, toServer, g_files, buf, crashes>>

\* The client went away instead of sending its file.
WriteNoData(c) ==
    /\ toServer[c] = <<>> /\ ClientClosed(c)
    /\ Reply(c, "w_recv", "ERR_RECV_FILE_DATA")

handle_write(c) ==
    \/ WritePerm(c)
    \/ WriteSet(c)
    \/ WriteRecheck(c)
    \/ WriteOpen(c)
    \/ Flock(c, "w_flock", "w_recv", "EX")
    \/ FlockFails(c, "w_flock")
    \/ WriteData(c)
    \/ WriteShort(c)
    \/ WriteNoData(c)
    \/ Reply(c, "w_ok", "WRITE_OK")
    \/ Reply(c, "w_short", "ERR_WRITE_FAILED")

-----------------------------------------------------------------------------
GetOpen(c) ==
    /\ \/ /\ Step(c, "g_open", "g_flock")
          /\ dir[req[c].path] # None
          /\ fd' = [fd EXCEPT ![c] = dir[req[c].path]]
          /\ UNCHANGED <<held, toClient>>
       \/ /\ Finish(c, "g_open", "ERR_FILE_NOT_FOUND")
          /\ dir[req[c].path] = None
    /\ UNCHANGED <<files, toServer, g_files, buf, crashes>>

\* MUTANT of GetRead: one static buffer for all threads.
GetRead_static_buf(c) ==
    /\ Step(c, "g_read", "g_send")
    /\ buf' = [d \in Clients |-> SubSeq(content[fd[c]], 1, Min2(Len(content[fd[c]]), BUF_SIZE))]
    /\ Close(c)
    /\ Send(c, <<Segment("OK_SENDING_FILE")>>)
    /\ UNCHANGED <<files, toServer, g_files, crashes>>

\* read(), unlock, close and the first of two sends.
GetRead(c) ==
    /\ Step(c, "g_read", "g_send")
    /\ buf' = [buf EXCEPT ![c] = SubSeq(content[fd[c]], 1, Min2(Len(content[fd[c]]), BUF_SIZE))]
    /\ Close(c)
    /\ Send(c, <<Segment("OK_SENDING_FILE")>>)
    /\ UNCHANGED <<files, toServer, g_files, crashes>>

GetSend(c) ==
    /\ Step(c, "g_send", "done")
    /\ Send(c, IF buf[c] # <<>> THEN <<DataSegment(buf[c])>> ELSE <<>>)
    /\ UNCHANGED <<files, fd, held, toServer, g_files, buf, crashes>>

handle_get(c) ==
    \/ GetOpen(c)
    \/ Flock(c, "g_flock", "g_read", "SH")
    \/ FlockFails(c, "g_flock")
    \/ GetRead(c)
    \/ GetSend(c)

-----------------------------------------------------------------------------
RmPerm(c) ==
    /\ \/ /\ Step(c, "r_perm", "r_open")
          /\ get_file_permission(g_files, req[c].path) = "READ_WRITE"
          /\ UNCHANGED <<fd, held, toClient>>
       \/ /\ Finish(c, "r_perm", "ERR_FILE_IS_READ_ONLY")
          /\ get_file_permission(g_files, req[c].path) = "READ_ONLY"
    /\ UNCHANGED <<files, toServer, g_files, buf, crashes>>

RmOpen(c) ==
    /\ \/ /\ Step(c, "r_open", "r_flock")
          /\ dir[req[c].path] # None
          /\ fd' = [fd EXCEPT ![c] = dir[req[c].path]]
          /\ UNCHANGED <<held, toClient>>
       \/ /\ Finish(c, "r_open", "ERR_REMOVE_FAILED")
          /\ dir[req[c].path] = None
    /\ UNCHANGED <<files, toServer, g_files, buf, crashes>>

\* remove() works on the path, the lock is on the inode opened before.
RmRemove(c) ==
    /\ Step(c, "r_remove", IF dir[req[c].path] # None THEN "r_ok" ELSE "r_failed")
    /\ dir' = [dir EXCEPT ![req[c].path] = None]
    /\ Close(c)
    /\ UNCHANGED <<content, wires, g_files, buf, crashes>>

handle_rm(c) ==
    \/ RmPerm(c)
    \/ RmOpen(c)
    \/ Flock(c, "r_flock", "r_remove", "EX")
    \/ FlockFails(c, "r_flock")
    \/ RmRemove(c)
    \/ Reply(c, "r_ok", "RM_OK")
    \/ Reply(c, "r_failed", "ERR_REMOVE_FAILED")

client_thread(c) ==
    \/ Accept(c)
    \/ Dispatch(c)
    \/ HangUp(c)
    \/ handle_write(c)
    \/ handle_get(c)
    \/ handle_rm(c)

\* The server process dies and is started again.  Its threads, connections and
\* locks are gone, and so is the permission table; the files are still there.
Crash ==
    /\ crashes < MaxCrashes
    /\ crashes' = crashes + 1
    /\ srv' = [c \in Clients |-> IF cli[c] = "start" THEN "none" ELSE "done"]
    /\ fd' = [c \in Clients |-> None]
    /\ held' = [c \in Clients |-> "none"]
    /\ g_files' = <<>>
    /\ UNCHANGED <<files, wires, buf>>
=============================================================================
