------------------------------ MODULE RfsProofs ------------------------------
(***************************************************************************)
(* The remote file system of practicum2 for every number of clients, every *)
(* set of requests and every size of the table: the permission a write was *)
(* let through with, the bytes of a read-only file, the locks, what        *)
(* travels on the connections and where the bytes of a file come from.     *)
(***************************************************************************)
EXTENDS Rfs, SequenceTheorems, TLAPS

-----------------------------------------------------------------------------
(* The permission table.                                                   *)

\* The names in the table are names strncpy stores without cutting them.
NamesFit(tbl) == \A i \in 1 .. Len(tbl) : StoredName[tbl[i].filename] = tbl[i].filename

\* The table has its last word on path: it has an entry, or it can get none.
Settled(tbl, path) ==
    Registered(tbl, path) \/ Len(tbl) >= MAX_FILES \/ StoredName[path] # path

\* Whatever set_file_permission enters for path r, it changes nothing about a path
\* that is settled.
LEMMA SetKeepsVerdict ==
    ASSUME NEW tbl \in Seq(filemeta_t), NEW r \in Paths, NEW p \in permission_t, NamesFit(tbl)
    PROVE  LET new == set_file_permission(tbl, r, p) IN
           /\ new \in Seq(filemeta_t)
           /\ NamesFit(new)
           /\ Settled(new, r)
           /\ \A path \in Paths : Settled(tbl, path) =>
                 /\ Settled(new, path)
                 /\ get_file_permission(new, path) = get_file_permission(tbl, path)
<1> DEFINE new == set_file_permission(tbl, r, p)
           e   == [filename |-> StoredName[r], perm |-> p]
<1>1. CASE Registered(tbl, r) \/ Len(tbl) >= MAX_FILES
  <2>1. new = tbl
    BY <1>1 DEF set_file_permission
  <2> QED BY <1>1, <2>1 DEF Settled
<1>2. CASE ~ (Registered(tbl, r) \/ Len(tbl) >= MAX_FILES)
  <2>1. new = Append(tbl, e)
    BY <1>2 DEF set_file_permission
  <2>2. /\ e \in filemeta_t
        /\ StoredName[e.filename] = e.filename
    BY StoredNameAssumption DEF filemeta_t
  <2>3. /\ new \in Seq(filemeta_t)
        /\ Len(new) = Len(tbl) + 1
        /\ \A i \in 1 .. Len(tbl) : new[i] = tbl[i]
        /\ new[Len(tbl) + 1] = e
    BY <2>1, <2>2, AppendProperties
  <2> HIDE DEF new, e
  <2>4. NamesFit(new)
    BY <2>2, <2>3 DEF NamesFit
  <2>5. Settled(new, r)
    <3>1. e.filename = StoredName[r]
      BY DEF e
    <3>2. CASE StoredName[r] = r
      BY <2>3, <3>1, <3>2 DEF Settled, Registered
    <3> QED BY <3>2 DEF Settled
  <2>6. ASSUME NEW path \in Paths, Settled(tbl, path)
        PROVE  /\ Settled(new, path)
               /\ get_file_permission(new, path) = get_file_permission(tbl, path)
    <3>1. CASE Registered(tbl, path)
      <4>1. PICK k \in 1 .. Len(tbl) : tbl[k].filename = path
        BY <3>1 DEF Registered
      <4>2. Registered(new, path)
        BY <2>3, <4>1 DEF Registered
      <4>3. \A i \in 1 .. Len(new) : FirstMatch(new, path, i) => i \in 1 .. Len(tbl)
        BY <2>3, <4>1 DEF FirstMatch
      <4>4. \A i \in 1 .. Len(tbl) : FirstMatch(new, path, i) <=> FirstMatch(tbl, path, i)
        BY <2>3 DEF FirstMatch
      <4> QED BY <2>3, <4>2, <4>3, <4>4 DEF Settled, get_file_permission
    <3>2. CASE ~ Registered(tbl, path)
      <4>1. StoredName[path] # path
        BY <1>2, <3>2, <2>6, MaxFilesAssumption DEF Settled
      <4>2. \A i \in 1 .. Len(new) : new[i].filename # path
        BY <2>4, <4>1 DEF NamesFit
      <4>3. \A i \in 1 .. Len(tbl) : tbl[i].filename # path
        BY <4>1 DEF NamesFit
      <4> QED BY <4>1, <4>2, <4>3 DEF Settled, get_file_permission, FirstMatch
    <3> QED BY <3>1, <3>2
  <2> QED BY <2>3, <2>4, <2>5, <2>6 DEF new
<1> QED BY <1>1, <1>2

-----------------------------------------------------------------------------
(* What a step does to the position of a thread and to the table.          *)

\* The positions of a thread that has not picked a handler yet, or has left it.
Outside == {"none", "recv_cmd", "done"}

\* The positions after set_file_permission in handle_write.
PastSet == {"w_recheck"} \cup Writing

\* Thread c goes somewhere else than on with a write.
ElsewhereStep(c) ==
    \E to \in SrvLabels \ PastSet :
        /\ srv' = [srv EXCEPT ![c] = to]
        /\ to \in Outside \/ req[c].path \in Paths
        /\ UNCHANGED g_files

\* Thread c passes the second look at the table ...
AllowedStep(c) ==
    /\ srv[c] = "w_recheck"
    /\ get_file_permission(g_files, req[c].path) = "READ_WRITE"
    /\ srv' = [srv EXCEPT ![c] = "w_open"]
    /\ UNCHANGED g_files

\* ... and goes on from there.
OnwardStep(c) ==
    /\ srv[c] \in Writing
    /\ \E to \in Writing : srv' = [srv EXCEPT ![c] = to]
    /\ UNCHANGED g_files

PermTypes ==
    /\ srv \in [Clients -> SrvLabels]
    /\ req \in [Clients -> Requests]
    /\ g_files \in Seq(filemeta_t)

HandlersHavePaths == \A c \in Clients : srv[c] \notin Outside => req[c].path \in Paths

WritersSettled == \A c \in Clients : srv[c] \in PastSet => Settled(g_files, req[c].path)

\* The inductive invariant for WritersAuthorised: once a thread is past
\* set_file_permission its path is settled, so that no later entry of another
\* thread can turn the path READ_ONLY under it.
PermInv ==
    /\ PermTypes
    /\ NamesFit(g_files)
    /\ HandlersHavePaths
    /\ WritersSettled
    /\ WritersAuthorised

\* What a server thread does, as far as the permission table is concerned.
LEMMA ServerMoves ==
    ASSUME PermTypes, HandlersHavePaths, NEW c \in Clients, client_thread(c)
    PROVE  ElsewhereStep(c) \/ WriteSet(c) \/ AllowedStep(c) \/ OnwardStep(c)
<1> USE DEF PermTypes, HandlersHavePaths, SrvLabels, PastSet, Writing, Outside, Step, Finish,
            ElsewhereStep, AllowedStep, OnwardStep
<1>1. CASE Accept(c) \/ HangUp(c)
  BY <1>1 DEF Accept, HangUp
<1>2. CASE Dispatch(c)
  <2>1. req[c].path # Blank => req[c].path \in Paths
    BY RequestsAssumption DEF Request
  <2> QED BY <1>2, <2>1 DEF Dispatch
<1>3. CASE handle_write(c)
  <2>1. CASE WritePerm(c)
    BY <2>1 DEF WritePerm
  <2>2. CASE WriteRecheck(c)
    BY <2>2 DEF WriteRecheck
  <2>3. CASE WriteOpen(c)
    BY <2>3 DEF WriteOpen
  <2>4. CASE Flock(c, "w_flock", "w_recv", "EX") \/ FlockFails(c, "w_flock")
    BY <2>4 DEF Flock, FlockFails, Reply
  <2>5. CASE WriteData(c) \/ WriteShort(c) \/ WriteNoData(c) \/ Reply(c, "w_ok", "WRITE_OK")
             \/ Reply(c, "w_short", "ERR_WRITE_FAILED")
    BY <2>5 DEF WriteData, WriteShort, WriteNoData, Reply
  <2> QED BY <1>3, <2>1, <2>2, <2>3, <2>4, <2>5 DEF handle_write
<1>4. CASE handle_get(c)
  BY <1>4 DEF handle_get, GetOpen, Flock, FlockFails, Reply, GetRead, GetSend
<1>5. CASE handle_rm(c)
  BY <1>5 DEF handle_rm, RmPerm, RmOpen, Flock, FlockFails, Reply, RmRemove
<1> QED BY <1>1, <1>2, <1>3, <1>4, <1>5 DEF client_thread

\* The empty table satisfies the invariant.
LEMMA PermInit == Init => PermInv
BY DEF Init, WorldInit, ServerInit, PermInv, PermTypes, NamesFit, HandlersHavePaths, WritersSettled,
       WritersAuthorised, SrvLabels, Outside, PastSet, Writing

\* Every step of a server thread keeps the invariant.
LEMMA PermServerStep ==
    ASSUME PermInv, NEW c \in Clients, ServerStep(c)
    PROVE  PermInv'
<1>1. client_thread(c) /\ req' = req
  BY DEF ServerStep
<1> USE DEF PermInv, PermTypes, HandlersHavePaths, WritersSettled, WritersAuthorised
<1>2. CASE ElsewhereStep(c)
  BY <1>1, <1>2 DEF ElsewhereStep, Outside, PastSet, Writing
<1>3. CASE WriteSet(c)
  <2>1. /\ srv[c] = "w_set" /\ srv' = [srv EXCEPT ![c] = "w_recheck"]
        /\ g_files' = set_file_permission(g_files, req[c].path, parse_perm(req[c].perm))
    BY <1>3 DEF WriteSet, Step
  <2>2. req[c].path \in Paths /\ parse_perm(req[c].perm) \in permission_t
    BY <2>1 DEF Outside, parse_perm, permission_t
  <2>3. /\ g_files' \in Seq(filemeta_t) /\ NamesFit(g_files') /\ Settled(g_files', req[c].path)
        /\ \A path \in Paths : Settled(g_files, path) =>
              /\ Settled(g_files', path)
              /\ get_file_permission(g_files', path) = get_file_permission(g_files, path)
    BY <2>1, <2>2, SetKeepsVerdict
  <2>4. \A d \in Clients : srv'[d] \in PastSet =>
           d = c \/ (srv[d] = srv'[d] /\ req[d].path \in Paths /\ Settled(g_files, req[d].path))
    BY <2>1 DEF PastSet, Writing, Outside
  <2>5. PermTypes' /\ HandlersHavePaths'
    BY <1>1, <2>1, <2>2, <2>3 DEF SrvLabels, Outside
  <2>6. WritersSettled'
    BY <1>1, <2>2, <2>3, <2>4
  <2>7. WritersAuthorised'
    BY <1>1, <2>1, <2>3, <2>4 DEF PastSet, Writing
  <2> QED BY <2>3, <2>5, <2>6, <2>7
<1>4. CASE AllowedStep(c)
  BY <1>1, <1>4 DEF AllowedStep, Outside, PastSet, Writing, SrvLabels
<1>5. CASE OnwardStep(c)
  BY <1>1, <1>5 DEF OnwardStep, Outside, PastSet, Writing, SrvLabels
<1> QED BY <1>1, <1>2, <1>3, <1>4, <1>5, ServerMoves

\* The invariant is inductive.
LEMMA PermNext == PermInv /\ [Next]_rfsVars => PermInv'
<1> SUFFICES ASSUME PermInv, [Next]_rfsVars PROVE PermInv'
  OBVIOUS
<1>1. ASSUME NEW c \in Clients, ServerStep(c) PROVE PermInv'
  BY <1>1, PermServerStep
<1>2. CASE (\E c \in Clients : ClientStep(c)) \/ UNCHANGED rfsVars
  <2>1. srv' = srv /\ req' = req /\ g_files' = g_files
    BY <1>2 DEF ClientStep, rfsVars
  <2> QED BY <2>1 DEF PermInv, PermTypes, NamesFit, HandlersHavePaths, WritersSettled, WritersAuthorised
<1>3. CASE Crash /\ UNCHANGED <<cli, req, outcome>>
  BY <1>3 DEF Crash, PermInv, PermTypes, NamesFit, HandlersHavePaths, WritersSettled,
              WritersAuthorised, SrvLabels, Outside, PastSet, Writing
<1> QED BY <1>1, <1>2, <1>3 DEF Next

\* The invariant holds in every reachable state.
THEOREM PermInvariant == SafetySpec => []PermInv
BY PermInit, PermNext, PTL DEF SafetySpec

\* For any number of clients and any size of the table: while a thread of
\* handle_write has its file open, the table does not have the path as READ_ONLY.
THEOREM WritesAuthorised == SafetySpec => []WritersAuthorised
BY PermInvariant, PTL DEF PermInv

-----------------------------------------------------------------------------
(* Files and locks.                                                        *)

\* The one path an inode ever belongs to: that of the initial file, or that of the
\* request whose WRITE created it.
Home(i) == IF i \in Paths THEN i ELSE req[i].path

FileTypes ==
    /\ dir \in [Paths -> Inodes \cup {None}]
    /\ fd \in [Clients -> Inodes \cup {None}]
    /\ held \in [Clients -> {"none", "SH", "EX"}]
    /\ content = [i \in Inodes |-> content[i]]

\* A directory entry and a descriptor lead to an inode of their own path.
InodesAtHome ==
    /\ \A p \in Paths : dir[p] # None => Home(dir[p]) = p
    /\ \A c \in Clients : fd[c] # None => Home(fd[c]) = req[c].path

FileInv == FileTypes /\ InodesAtHome /\ LockDiscipline

\* Thread c closes its file, if it has one open, and is done with it.
ClosingStep(c) ==
    /\ \E to \in SrvLabels \ Open : srv' = [srv EXCEPT ![c] = to]
    /\ fd' = [fd EXCEPT ![c] = None]
    /\ held' = [held EXCEPT ![c] = "none"]

\* Thread c does something else without a file.
NoFileStep(c) ==
    /\ srv[c] \notin Open
    /\ \E to \in SrvLabels \ Open : srv' = [srv EXCEPT ![c] = to]
    /\ UNCHANGED <<fd, held>>

\* Thread c opens the file its path leads to, or a new one.
OpeningStep(c) ==
    /\ srv[c] \notin Open
    /\ req[c].path \in Paths
    /\ \E to \in {"w_flock", "g_flock", "r_flock"} : srv' = [srv EXCEPT ![c] = to]
    /\ \E i \in Inodes : (i = c \/ i = dir[req[c].path]) /\ fd' = [fd EXCEPT ![c] = i]
    /\ UNCHANGED held

LockingStep(c) ==
    \/ Flock(c, "w_flock", "w_recv", "EX")
    \/ Flock(c, "g_flock", "g_read", "SH")
    \/ Flock(c, "r_flock", "r_remove", "EX")

\* What a server thread does to its descriptor and its lock.
LEMMA FileMoves ==
    ASSUME PermInv, FileInv, NEW c \in Clients, client_thread(c)
    PROVE  ClosingStep(c) \/ NoFileStep(c) \/ OpeningStep(c) \/ LockingStep(c)
<1>1. srv \in [Clients -> SrvLabels] /\ (srv[c] \notin Outside => req[c].path \in Paths)
  BY DEF PermInv, PermTypes, HandlersHavePaths
<1>2. dir \in [Paths -> Inodes \cup {None}] /\ Clients \subseteq Inodes
  BY DEF FileInv, FileTypes, Inodes
<1> USE DEF SrvLabels, Outside, Open, Step, Finish, Close, ClosingStep, NoFileStep, OpeningStep,
            LockingStep
<1>3. CASE Accept(c) \/ HangUp(c) \/ Dispatch(c)
  BY <1>1, <1>3 DEF Accept, HangUp, Dispatch
<1>4. CASE handle_write(c)
  <2>1. CASE WritePerm(c) \/ WriteSet(c) \/ WriteRecheck(c)
    BY <1>1, <2>1 DEF WritePerm, WriteSet, WriteRecheck
  <2>2. CASE WriteOpen(c)
    BY <1>1, <1>2, <2>2 DEF WriteOpen
  <2>3. CASE FlockFails(c, "w_flock") \/ WriteData(c) \/ WriteShort(c) \/ WriteNoData(c) \/ Reply(c, "w_ok", "WRITE_OK")
             \/ Reply(c, "w_short", "ERR_WRITE_FAILED")
    BY <1>1, <2>3 DEF FlockFails, Reply, WriteData, WriteShort, WriteNoData
  <2> QED BY <1>4, <2>1, <2>2, <2>3 DEF handle_write
<1>5. CASE handle_get(c)
  <2>1. CASE GetOpen(c)
    BY <1>1, <1>2, <2>1 DEF GetOpen
  <2>2. CASE FlockFails(c, "g_flock") \/ GetRead(c) \/ GetSend(c)
    BY <1>1, <2>2 DEF FlockFails, Reply, GetRead, GetSend
  <2> QED BY <1>5, <2>1, <2>2 DEF handle_get
<1>6. CASE handle_rm(c)
  <2>1. CASE RmOpen(c)
    BY <1>1, <1>2, <2>1 DEF RmOpen
  <2>2. CASE RmPerm(c) \/ FlockFails(c, "r_flock") \/ RmRemove(c)
             \/ Reply(c, "r_ok", "RM_OK") \/ Reply(c, "r_failed", "ERR_REMOVE_FAILED")
    BY <1>1, <2>2 DEF RmPerm, FlockFails, Reply, RmRemove
  <2> QED BY <1>6, <2>1, <2>2 DEF handle_rm
<1> QED BY <1>3, <1>4, <1>5, <1>6 DEF client_thread

\* Each of these keeps the locks in order.
LEMMA LocksKept ==
    ASSUME PermInv, FileInv, NEW c \in Clients,
           ClosingStep(c) \/ NoFileStep(c) \/ OpeningStep(c) \/ LockingStep(c)
    PROVE  LockDiscipline'
<1>1. /\ srv \in [Clients -> SrvLabels] /\ None \notin Inodes
      /\ fd \in [Clients -> Inodes \cup {None}]
      /\ held \in [Clients -> {"none", "SH", "EX"}]
  BY NamesAssumption DEF PermInv, PermTypes, FileInv, FileTypes, Inodes
<1> USE DEF FileInv, LockDiscipline, SrvLabels, Open, LockedEX
<1>2. CASE ClosingStep(c)
  BY <1>1, <1>2 DEF ClosingStep
<1>3. CASE NoFileStep(c)
  BY <1>1, <1>3 DEF NoFileStep
<1>4. CASE OpeningStep(c)
  BY <1>1, <1>4 DEF OpeningStep
<1>5. CASE LockingStep(c)
  BY <1>1, <1>5 DEF LockingStep, Flock, LockFree, Step
<1> QED BY <1>2, <1>3, <1>4, <1>5

\* What a server step can do to the files: nothing, create or truncate, write through
\* the descriptor, or remove.
LEMMA FileEffects ==
    ASSUME NEW c \in Clients, client_thread(c)
    PROVE  \/ UNCHANGED <<dir, content>>
           \/ WriteOpen(c)
           \/ /\ srv[c] = "w_recv"
              /\ \E bytes : content' = Overwrite(fd[c], bytes)
              /\ UNCHANGED dir
           \/ /\ srv[c] = "r_remove"
              /\ dir' = [dir EXCEPT ![req[c].path] = None]
              /\ UNCHANGED content
<1> USE DEF files
<1>1. CASE Accept(c) \/ HangUp(c) \/ Dispatch(c)
  BY <1>1 DEF Accept, HangUp, Dispatch
<1>2. CASE handle_write(c)
  <2>1. CASE WriteData(c) \/ WriteShort(c)
    BY <2>1 DEF WriteData, WriteShort, Finish, Step
  <2>2. CASE WritePerm(c) \/ WriteSet(c) \/ WriteRecheck(c) \/ WriteNoData(c)
             \/ Flock(c, "w_flock", "w_recv", "EX") \/ FlockFails(c, "w_flock")
             \/ Reply(c, "w_ok", "WRITE_OK") \/ Reply(c, "w_short", "ERR_WRITE_FAILED")
    BY <2>2 DEF WritePerm, WriteSet, WriteRecheck, WriteNoData, Flock, FlockFails, Reply
  <2> QED BY <1>2, <2>1, <2>2 DEF handle_write
<1>3. CASE handle_get(c)
  BY <1>3 DEF handle_get, GetOpen, Flock, FlockFails, Reply, GetRead, GetSend
<1>4. CASE handle_rm(c)
  BY <1>4 DEF handle_rm, RmPerm, RmOpen, Flock, FlockFails, Reply, RmRemove, Finish, Step
<1> QED BY <1>1, <1>2, <1>3, <1>4 DEF client_thread

\* No step of a server thread brings an inode to a path it does not belong to.
LEMMA FileTypesKept ==
    ASSUME PermInv, FileInv, NEW c \in Clients, ServerStep(c)
    PROVE  FileTypes' /\ InodesAtHome'
<1>1. client_thread(c) /\ req' = req
  BY DEF ServerStep
<1>2. /\ dir \in [Paths -> Inodes \cup {None}] /\ fd \in [Clients -> Inodes \cup {None}]
      /\ held \in [Clients -> {"none", "SH", "EX"}] /\ content = [i \in Inodes |-> content[i]]
      /\ InodesAtHome
      /\ c \notin Paths /\ c \in Inodes /\ None \notin Inodes
  BY NamesAssumption DEF FileInv, FileTypes, Inodes
<1>3. /\ dir' \in [Paths -> Inodes \cup {None}]
      /\ \A p \in Paths : dir'[p] # None => dir'[p] = dir[p] \/ (dir'[p] = c /\ p = req[c].path)
  <2>1. CASE UNCHANGED dir
    BY <1>2, <2>1
  <2>2. CASE WriteOpen(c)
    <3>1. \/ UNCHANGED dir
          \/ \E i \in Inodes : /\ i = c \/ i = dir[req[c].path]
                              /\ dir' = [dir EXCEPT ![req[c].path] = i]
      <4>1. srv[c] = "w_open"
        BY <2>2 DEF WriteOpen, Step, Finish
      <4>2. req[c].path \in Paths
        BY <4>1 DEF PermInv, HandlersHavePaths, Outside
      <4> QED BY <1>2, <2>2, <4>2 DEF WriteOpen, files
    <3> QED BY <1>2, <2>1, <3>1
  <2>3. CASE dir' = [dir EXCEPT ![req[c].path] = None]
    BY <1>2, <2>3
  <2> QED BY <1>1, <2>1, <2>2, <2>3, FileEffects
<1>4. content' = [i \in Inodes |-> content'[i]]
  <2>1. CASE WriteOpen(c)
    BY <1>2, <2>1 DEF WriteOpen, files
  <2>2. CASE \E bytes : content' = Overwrite(fd[c], bytes)
    BY <1>2, <2>2 DEF Overwrite
  <2> QED BY <1>1, <1>2, <2>1, <2>2, FileEffects
<1>5. /\ fd' \in [Clients -> Inodes \cup {None}]
      /\ held' \in [Clients -> {"none", "SH", "EX"}]
      /\ \A d \in Clients : fd'[d] # None =>
            \/ fd'[d] = fd[d]
            \/ d = c /\ req[c].path \in Paths /\ (fd'[c] = c \/ fd'[c] = dir[req[c].path])
  <2>1. CASE ClosingStep(c)
    BY <1>2, <2>1 DEF ClosingStep
  <2>2. CASE NoFileStep(c)
    BY <1>2, <2>2 DEF NoFileStep
  <2>3. CASE OpeningStep(c)
    BY <1>2, <2>3 DEF OpeningStep
  <2>4. CASE LockingStep(c)
    BY <1>2, <2>4 DEF LockingStep, Flock
  <2> QED BY <1>1, <2>1, <2>2, <2>3, <2>4, FileMoves
<1>6. \A i \in Inodes : Home(i)' = Home(i)
  BY <1>1 DEF Home
<1>7. Home(c) = req[c].path
  BY <1>2 DEF Home
<1>8. InodesAtHome'
  <2>1. \A p \in Paths : dir'[p] # None => Home(dir'[p]) = p
    BY <1>2, <1>3, <1>7 DEF InodesAtHome
  <2>2. \A d \in Clients : fd'[d] # None => Home(fd'[d]) = req[d].path
    BY <1>2, <1>5, <1>7 DEF InodesAtHome
  <2> QED BY <1>1, <2>1, <2>2 DEF InodesAtHome, Home
<1> QED BY <1>3, <1>4, <1>5, <1>8 DEF FileTypes

\* The initial files and descriptors satisfy the invariant.
LEMMA FileInit == Init => FileInv
<1> SUFFICES ASSUME Init PROVE FileInv
  OBVIOUS
<1> USE DEF Init, WorldInit
<1>1. FileTypes
  BY FilesAssumption DEF FileTypes, Inodes
<1>2. InodesAtHome
  BY FilesAssumption DEF InodesAtHome, Home
<1>3. LockDiscipline
  BY DEF LockDiscipline, Open, LockedEX
<1> QED BY <1>1, <1>2, <1>3 DEF FileInv

\* The invariant is inductive, relative to that of the table.
LEMMA FileNext == PermInv /\ FileInv /\ [Next]_rfsVars => FileInv'
<1> SUFFICES ASSUME PermInv, FileInv, [Next]_rfsVars PROVE FileInv'
  OBVIOUS
<1>1. ASSUME NEW c \in Clients, ServerStep(c) PROVE FileInv'
  <2>1. client_thread(c)
    BY <1>1 DEF ServerStep
  <2>2. FileTypes' /\ InodesAtHome'
    BY <1>1, FileTypesKept
  <2>3. LockDiscipline'
    BY <2>1, FileMoves, LocksKept
  <2> QED BY <2>2, <2>3 DEF FileInv
<1>2. CASE (\E c \in Clients : ClientStep(c)) \/ UNCHANGED rfsVars
  <2>1. srv' = srv /\ req' = req /\ dir' = dir /\ content' = content /\ fd' = fd /\ held' = held
    BY <1>2 DEF ClientStep, rfsVars
  <2> QED BY <2>1 DEF FileInv, FileTypes, InodesAtHome, Home, LockDiscipline
<1>3. CASE Crash /\ UNCHANGED <<cli, req, outcome>>
  <2>1. /\ dir' = dir /\ content' = content /\ req' = req
        /\ fd' = [c \in Clients |-> None] /\ held' = [c \in Clients |-> "none"]
        /\ \A c \in Clients : srv'[c] \in {"none", "done"}
    BY <1>3 DEF Crash, files
  <2>2. FileTypes' /\ InodesAtHome'
    BY <2>1 DEF FileInv, FileTypes, InodesAtHome, Home
  <2>3. LockDiscipline'
    BY <2>1 DEF LockDiscipline, Open, LockedEX
  <2> QED BY <2>2, <2>3 DEF FileInv
<1> QED BY <1>1, <1>2, <1>3 DEF Next

\* Both invariants together hold in every reachable state.
THEOREM FileInvariant == SafetySpec => [](PermInv /\ FileInv)
BY PermInit, PermNext, FileInit, FileNext, PTL DEF SafetySpec

\* For any number of clients: every handler gives back its descriptor and its lock on
\* every way out, and works on the file only under a lock nobody else's excludes.
THEOREM Locking == SafetySpec => []LockDiscipline
BY FileInvariant, PTL DEF FileInv

\* No step changes the bytes of a path that is READ_ONLY.
LEMMA ReadOnlyStep ==
    ASSUME PermInv, FileInv, [Next]_rfsVars, NEW p \in Paths,
           get_file_permission(g_files, p) = "READ_ONLY", dir[p] # None
    PROVE  dir'[p] \in {dir[p], None} /\ content'[dir[p]] = content[dir[p]]
<1>1. CASE UNCHANGED <<dir, content>>
  BY <1>1
<1>2. ASSUME NEW c \in Clients, ServerStep(c)
      PROVE  dir'[p] \in {dir[p], None} /\ content'[dir[p]] = content[dir[p]]
  <2>1. client_thread(c)
    BY <1>2 DEF ServerStep
  <2>2. /\ dir \in [Paths -> Inodes \cup {None}] /\ fd \in [Clients -> Inodes \cup {None}]
        /\ content = [i \in Inodes |-> content[i]]
        /\ Home(dir[p]) = p /\ Home(c) = req[c].path
        /\ fd[c] # None => Home(fd[c]) = req[c].path
    BY NamesAssumption DEF FileInv, FileTypes, InodesAtHome, Home
  <2>3. srv[c] \in Writing => req[c].path # p
    BY DEF PermInv, WritersAuthorised
  <2>4. CASE WriteOpen(c)
    <3>1. srv[c] = "w_open"
      BY <2>4 DEF WriteOpen, Step, Finish
    <3>2. req[c].path # p /\ req[c].path \in Paths
      BY <2>3, <3>1 DEF Writing, PermInv, HandlersHavePaths, Outside
    <3>3. c # dir[p]
      BY <2>2, <3>2
    <3>4. dir[req[c].path] # None => dir[req[c].path] # dir[p]
      BY <2>2, <3>2 DEF FileInv, InodesAtHome
    <3> QED BY <2>2, <2>4, <3>2, <3>3, <3>4 DEF WriteOpen, files
  <2>5. CASE srv[c] = "w_recv" /\ (\E bytes : content' = Overwrite(fd[c], bytes)) /\ UNCHANGED dir
    <3>1. fd[c] # dir[p]
      BY <2>2, <2>3, <2>5 DEF Writing
    <3> QED BY <2>2, <2>5, <3>1 DEF Overwrite
  <2>6. CASE dir' = [dir EXCEPT ![req[c].path] = None] /\ UNCHANGED content
    BY <2>2, <2>6
  <2> QED BY <1>1, <2>1, <2>4, <2>5, <2>6, FileEffects
<1>3. CASE (\E c \in Clients : ClientStep(c)) \/ Crash \/ UNCHANGED rfsVars
  BY <1>1, <1>3 DEF ClientStep, Crash, rfsVars, files
<1> QED BY <1>2, <1>3 DEF Next

\* For any number of clients: a path that is READ_ONLY in the table keeps its bytes;
\* at most the file is removed by a thread that checked before.
THEOREM ReadOnlyBytes == SafetySpec => ReadOnlyContentFixed
<1>1. PermInv /\ FileInv /\ [Next]_rfsVars
        => [ \A p \in Paths :
               get_file_permission(g_files, p) = "READ_ONLY" /\ dir[p] # None =>
                   /\ dir'[p] \in {dir[p], None}
                   /\ content'[dir[p]] = content[dir[p]] ]_rfsVars
  BY ReadOnlyStep
<1> QED BY <1>1, FileInvariant, PTL DEF SafetySpec, ReadOnlyContentFixed

-----------------------------------------------------------------------------
(* What the two ends of a connection do to it.                             *)

\* The thread has not said anything on its connection yet.
Silent == {"none", "recv_cmd", "w_perm", "w_set", "w_recheck"}

\* Server thread c sends one reply; only one that consults the table refuses a request
\* as read-only.
Replies(c, tag) ==
    /\ Send(c, <<Segment(tag)>>)
    /\ srv'[c] \notin Silent
    /\ tag = "ERR_FILE_IS_READ_ONLY" =>
          /\ get_file_permission(g_files, req[c].path) = "READ_ONLY"
          /\ srv[c] \notin Outside
          /\ UNCHANGED g_files

\* Server thread c sends what it has read.
SendsData(c) == srv[c] = "g_send" /\ srv'[c] = "done" /\ Send(c, <<DataSegment(buf[c])>>)

\* What a server thread puts on its connection.
LEMMA ServerSends ==
    ASSUME PermInv, TypeOK, NEW c \in Clients, client_thread(c)
    PROVE  UNCHANGED toClient \/ (\E tag \in Tags : Replies(c, tag)) \/ SendsData(c)
<1>1. srv \in [Clients -> SrvLabels] /\ toClient \in [Clients -> Seq(Segments)]
  BY DEF TypeOK
<1> USE DEF Replies, Silent, Step, Finish, wires, Tags, Outside
<1>2. CASE Accept(c) \/ HangUp(c) \/ Dispatch(c)
  BY <1>1, <1>2 DEF Accept, HangUp, Dispatch
<1>3. CASE handle_write(c)
  <2>1. CASE WritePerm(c) \/ WriteSet(c) \/ WriteRecheck(c)
    BY <1>1, <2>1 DEF WritePerm, WriteSet, WriteRecheck
  <2>2. CASE WriteOpen(c) \/ Flock(c, "w_flock", "w_recv", "EX") \/ FlockFails(c, "w_flock")
    BY <1>1, <2>2 DEF WriteOpen, Flock, FlockFails, Reply
  <2>3. CASE WriteData(c) \/ WriteShort(c) \/ WriteNoData(c) \/ Reply(c, "w_ok", "WRITE_OK")
             \/ Reply(c, "w_short", "ERR_WRITE_FAILED")
    BY <1>1, <2>3 DEF WriteData, WriteShort, WriteNoData, Reply
  <2> QED BY <1>3, <2>1, <2>2, <2>3 DEF handle_write
<1>4. CASE handle_get(c)
  <2>1. CASE GetSend(c)
    <3>1. buf[c] = <<>> => toClient' = toClient
      BY <1>1, <2>1 DEF GetSend, Send
    <3> QED BY <1>1, <2>1, <3>1 DEF GetSend, SendsData
  <2>2. CASE GetOpen(c) \/ Flock(c, "g_flock", "g_read", "SH") \/ FlockFails(c, "g_flock") \/ GetRead(c)
    BY <1>1, <2>2 DEF GetOpen, Flock, FlockFails, Reply, GetRead
  <2> QED BY <1>4, <2>1, <2>2 DEF handle_get
<1>5. CASE handle_rm(c)
  BY <1>1, <1>5 DEF handle_rm, RmPerm, RmOpen, Flock, FlockFails, Reply, RmRemove
<1> QED BY <1>2, <1>3, <1>4, <1>5 DEF client_thread

\* What it takes from it: all that is there, as a command or as data.
LEMMA ServerTakes ==
    ASSUME NEW c \in Clients, client_thread(c)
    PROVE  \/ UNCHANGED toServer
           \/ toServer' = [toServer EXCEPT ![c] = <<>>] /\ (Dispatch(c) \/ WriteData(c) \/ WriteShort(c))
BY DEF client_thread, handle_write, handle_get, handle_rm, Accept, HangUp, Dispatch, WritePerm,
       WriteSet, WriteRecheck, WriteOpen, Flock, FlockFails, Reply, WriteData, WriteShort, WriteNoData,
       GetOpen, GetRead, GetSend, RmPerm, RmOpen, RmRemove, wires

-----------------------------------------------------------------------------
(* Types.                                                                  *)

\* The bytes of an upload and the segments that carry bytes.
LEMMA SegmentTypes ==
    /\ \A tag \in Tags : Segment(tag) \in Segments
    /\ \A b \in Seq(Byte) : DataSegment(b) \in Segments
    /\ \A c \in Clients : req[c].local \in Nat => Chunk(c) \in Seq(Byte)
<1>1. \A tag \in Tags : Segment(tag) \in Segments
  BY DEF Segment, Segments
<1>2. \A b \in Seq(Byte) : DataSegment(b) \in Segments
  BY DEF DataSegment, Segments, Tags
<1>3. ASSUME NEW c \in Clients, req[c].local \in Nat PROVE Chunk(c) \in Seq(Byte)
  <2>1. Min2(req[c].local, BUF_SIZE) \in Nat
    BY <1>3, FilesAssumption DEF Min2
  <2> QED BY <2>1 DEF Chunk, Byte
<1> QED BY <1>1, <1>2, <1>3

\* The table never outgrows its array.
LEMMA TableFits ==
    ASSUME NEW tbl \in Seq(filemeta_t), Len(tbl) <= MAX_FILES, NEW r \in Paths, NEW p \in permission_t
    PROVE  /\ set_file_permission(tbl, r, p) \in Seq(filemeta_t)
           /\ Len(set_file_permission(tbl, r, p)) <= MAX_FILES
<1> DEFINE e == [filename |-> StoredName[r], perm |-> p]
<1>1. e \in filemeta_t
  BY StoredNameAssumption DEF filemeta_t
<1>2. Append(tbl, e) \in Seq(filemeta_t) /\ Len(Append(tbl, e)) = Len(tbl) + 1 /\ Len(tbl) \in Nat
  BY <1>1, AppendProperties
<1> HIDE DEF e
<1> QED BY <1>2, MaxFilesAssumption DEF set_file_permission, e

\* What write() makes of a file is bytes again.
LEMMA OverwriteType ==
    ASSUME content \in [Inodes -> Seq(Byte)], NEW i \in Inodes, NEW b \in Seq(Byte)
    PROVE  Overwrite(i, b) \in [Inodes -> Seq(Byte)]
<1>1. SubSeq(content[i], Len(b) + 1, Len(content[i])) \in Seq(Byte)
  BY SubSeqProperties
<1>2. b \o SubSeq(content[i], Len(b) + 1, Len(content[i])) \in Seq(Byte)
  BY <1>1, ConcatProperties
<1> QED BY <1>2 DEF Overwrite

\* A server thread that reads or writes has a file open.
LEMMA HasFile ==
    ASSUME FileInv, NEW c \in Clients, srv[c] \in Open
    PROVE  fd[c] \in Inodes
BY DEF FileInv, FileTypes, LockDiscipline

\* The bytes of the files and of the read buffers stay bytes.
LEMMA BytesTyped ==
    ASSUME PermInv, FileInv, TypeOK, NEW c \in Clients, client_thread(c)
    PROVE  content' \in [Inodes -> Seq(Byte)] /\ buf' \in [Clients -> Seq(Byte)]
<1>1. /\ content \in [Inodes -> Seq(Byte)] /\ buf \in [Clients -> Seq(Byte)]
      /\ toServer \in [Clients -> Seq(Segments)] /\ dir \in [Paths -> Inodes \cup {None}]
  BY DEF TypeOK
<1>2. CASE UNCHANGED <<content, buf>>
  BY <1>1, <1>2
<1>3. CASE WriteOpen(c)
  <2>1. UNCHANGED buf
    BY <1>3 DEF WriteOpen
  <2>2. \/ UNCHANGED content
        \/ \E i : content' = [content EXCEPT ![i] = <<>>]
    BY <1>3 DEF WriteOpen, files
  <2>3. <<>> \in Seq(Byte)
    BY EmptySeq
  <2> QED BY <1>1, <2>1, <2>2, <2>3
<1>4. CASE WriteData(c) \/ WriteShort(c)
  <2>1. UNCHANGED buf /\ srv[c] = "w_recv" /\ toServer[c] # <<>>
    BY <1>4 DEF WriteData, WriteShort, Finish, Step
  <2>2. fd[c] \in Inodes
    BY <2>1, HasFile DEF Open
  <2>3. Head(toServer[c]) \in Segments
    BY <1>1, <2>1
  <2>4. Head(toServer[c]).data \in Seq(Byte)
    BY <2>3 DEF Segments
  <2>5. \E b \in Seq(Byte) : content' = Overwrite(fd[c], b)
    <3>1. CASE WriteData(c)
      BY <2>4, <3>1 DEF WriteData
    <3>2. CASE WriteShort(c)
      <4>1. PICK n \in 0 .. Len(Head(toServer[c]).data) - 1 :
              content' = Overwrite(fd[c], SubSeq(Head(toServer[c]).data, 1, n))
        BY <3>2 DEF WriteShort
      <4>2. SubSeq(Head(toServer[c]).data, 1, n) \in Seq(Byte)
        BY <2>4, SubSeqProperties
      <4> QED BY <4>1, <4>2
    <3> QED BY <1>4, <3>1, <3>2
  <2> QED BY <1>1, <2>1, <2>2, <2>5, OverwriteType
<1>5. CASE GetRead(c)
  <2>1. UNCHANGED content /\ srv[c] = "g_read"
    BY <1>5 DEF GetRead, Step, files
  <2>2. fd[c] \in Inodes
    BY <2>1, HasFile DEF Open
  <2> DEFINE b == SubSeq(content[fd[c]], 1, Min2(Len(content[fd[c]]), BUF_SIZE))
  <2>3. b \in Seq(Byte)
    <3>1. content[fd[c]] \in Seq(Byte)
      BY <1>1, <2>2
    <3>2. Min2(Len(content[fd[c]]), BUF_SIZE) \in 0 .. Len(content[fd[c]])
      BY <3>1, FilesAssumption DEF Min2
    <3> QED BY <3>1, <3>2, SubSeqProperties
  <2>4. buf' = [buf EXCEPT ![c] = b]
    BY <1>5 DEF GetRead
  <2> QED BY <1>1, <2>1, <2>3, <2>4
<1> QED BY <1>2, <1>3, <1>4, <1>5 DEF client_thread, handle_write, handle_get, handle_rm, Accept, HangUp,
       Dispatch, WritePerm, WriteSet, WriteRecheck, Flock, FlockFails, Reply, WriteNoData,
       GetOpen, GetSend, RmPerm, RmOpen, RmRemove, files

\* No step of a thread is a death of the server.
LEMMA ServerSurvives ==
    ASSUME NEW c \in Clients, client_thread(c)
    PROVE  crashes' = crashes
BY DEF client_thread, handle_write, handle_get, handle_rm, Accept, HangUp, Dispatch, WritePerm,
       WriteSet, WriteRecheck, WriteOpen, Flock, FlockFails, Reply, WriteData, WriteShort, WriteNoData,
       GetOpen, GetRead, GetSend, RmPerm, RmOpen, RmRemove

\* Every step of a server thread keeps the types.
LEMMA ServerTyped ==
    ASSUME PermInv, FileInv, TypeOK, NEW c \in Clients, ServerStep(c), PermInv', FileInv'
    PROVE  TypeOK'
<1>1. client_thread(c) /\ UNCHANGED <<cli, req, outcome>>
  BY DEF ServerStep
<1>2. toClient' \in [Clients -> Seq(Segments)]
  <2>1. toClient \in [Clients -> Seq(Segments)] /\ buf \in [Clients -> Seq(Byte)]
    BY DEF TypeOK
  <2>2. \/ UNCHANGED toClient
        \/ \E s \in Segments : Send(c, <<s>>)
    BY <1>1, <2>1, ServerSends, SegmentTypes DEF Replies, SendsData
  <2>3. ASSUME NEW s \in Segments, Send(c, <<s>>) PROVE toClient' \in [Clients -> Seq(Segments)]
    <3>1. toClient[c] \o <<s>> \in Seq(Segments)
      BY <2>1, ConcatProperties
    <3> QED BY <2>1, <2>3, <3>1 DEF Send
  <2> QED BY <2>1, <2>2, <2>3
<1>3. toServer' \in [Clients -> Seq(Segments)]
  <2>1. toServer \in [Clients -> Seq(Segments)] /\ <<>> \in Seq(Segments)
    BY EmptySeq DEF TypeOK
  <2> QED BY <1>1, <2>1, ServerTakes
<1>4. Len(g_files') <= MAX_FILES
  <2>1. CASE UNCHANGED g_files
    BY <2>1 DEF TypeOK
  <2>2. CASE WriteSet(c)
    <3>1. /\ srv[c] = "w_set"
          /\ g_files' = set_file_permission(g_files, req[c].path, parse_perm(req[c].perm))
      BY <2>2 DEF WriteSet, Step
    <3>2. req[c].path \in Paths /\ parse_perm(req[c].perm) \in permission_t
      BY <3>1 DEF PermInv, HandlersHavePaths, Outside, parse_perm, permission_t
    <3> QED BY <3>1, <3>2, TableFits DEF TypeOK
  <2> QED BY <1>1, <2>1, <2>2, ServerMoves DEF ElsewhereStep, AllowedStep, OnwardStep, PermInv
<1>5. crashes' = crashes
  BY <1>1, ServerSurvives
<1> QED BY <1>1, <1>2, <1>3, <1>4, <1>5, BytesTyped DEF TypeOK, PermInv, PermTypes, FileInv, FileTypes

\* What a client does to its connection and to its outcome: it sends its command or
\* its file, and it consumes replies, of which it judges the first.
ClientEffect(c) ==
    /\ \/ UNCHANGED toServer
       \/ cli[c] = "start" /\ SendServer(c, <<Segment("CMD")>>)
       \/ /\ cli[c] = "w_ready" /\ req[c].local >= 0 /\ Chunk(c) # <<>>
          /\ SendServer(c, <<DataSegment(Chunk(c))>>)
    /\ UNCHANGED toClient \/ (toClient[c] # <<>> /\ Recv(c))
    /\ \/ UNCHANGED outcome
       \/ \E st \in {0, 1} : \E re, sv :
             /\ outcome' = [outcome EXCEPT ![c] = [status |-> st, reply |-> re, saved |-> sv]]
             /\ re \in {"none", "OK_SENDING_FILE"} \/ (toClient[c] # <<>> /\ re = Received(c).tag)
             /\ sv = <<>> \/ (toClient[c] # <<>> /\ sv = Received(c).data)
    /\ \E to \in CliLabels : cli' = [cli EXCEPT ![c] = to]

\* Sending nothing leaves the connection as it is.
LEMMA SendNothing ==
    ASSUME toServer \in [Clients -> Seq(Segments)], NEW c \in Clients, SendServer(c, <<>>)
    PROVE  UNCHANGED toServer
<1>1. toServer[c] \o <<>> = toServer[c]
  BY ConcatEmptySeq
<1> QED BY <1>1 DEF SendServer

\* recv() returns something only if something is there.
LEMMA RecvSomething ==
    ASSUME toClient \in [Clients -> Seq(Segments)], NEW c \in Clients, Recv(c)
    PROVE  toClient[c] # <<>>
BY DEF Recv

\* Every step of a client is of this form.
LEMMA ClientEffects ==
    ASSUME TypeOK, NEW c \in Clients, client(c)
    PROVE  ClientEffect(c)
<1>1. /\ toClient \in [Clients -> Seq(Segments)] /\ toServer \in [Clients -> Seq(Segments)]
      /\ Recv(c) => toClient[c] # <<>>
  BY RecvSomething DEF TypeOK
<1> USE DEF ClientEffect, CliLabels, At, Goto, Return, wires
<1>2. CASE Start(c)
  BY <1>1, <1>2 DEF Start
<1>3. CASE NoReply(c)
  BY <1>1, <1>3 DEF NoReply, NothingReceived
<1>4. CASE WriteReady(c)
  <2>1. CASE Received(c).tag = "OK_READY_TO_RECEIVE" /\ req[c].local >= 0 /\ Goto(c, "w_final")
             /\ SendServer(c, IF Chunk(c) # <<>> THEN <<DataSegment(Chunk(c))>> ELSE <<>>)
             /\ UNCHANGED outcome
    <3>1. CASE Chunk(c) # <<>>
      BY <1>1, <1>4, <2>1, <3>1 DEF WriteReady
    <3>2. CASE Chunk(c) = <<>>
      BY <1>1, <1>4, <2>1, <3>2, SendNothing DEF WriteReady
    <3> QED BY <3>1, <3>2
  <2> QED BY <1>1, <1>4, <2>1 DEF WriteReady
<1>5. CASE WriteFinal(c) \/ do_rm(c)
  BY <1>1, <1>5 DEF WriteFinal, do_rm
<1>6. CASE GetReply(c)
  BY <1>1, <1>6 DEF GetReply
<1>7. CASE GetData(c)
  BY <1>1, <1>7 DEF GetData, NothingReceived
<1> QED BY <1>2, <1>3, <1>4, <1>5, <1>6, <1>7 DEF client, do_write, do_get

\* Only the outcome of the client that takes the step changes, and it comes from the
\* first segment received.
LEMMA OutcomeOf ==
    ASSUME TypeOK, NEW c \in Clients, ClientEffect(c), NEW d \in Clients
    PROVE  \/ outcome'[d] = outcome[d]
           \/ /\ d = c
              /\ \/ outcome'[d].reply \in {"none", "OK_SENDING_FILE"}
                 \/ toClient[c] # <<>> /\ outcome'[d].reply = Received(c).tag
              /\ \/ outcome'[d].saved = <<>>
                 \/ toClient[c] # <<>> /\ outcome'[d].saved = Received(c).data
<1>1. outcome = [x \in Clients |-> outcome[x]]
  BY DEF TypeOK
<1>2. CASE UNCHANGED outcome
  BY <1>2
<1>3. ASSUME NEW st \in {0, 1}, NEW re, NEW sv,
             outcome' = [outcome EXCEPT ![c] = [status |-> st, reply |-> re, saved |-> sv]]
      PROVE  \/ outcome'[d] = outcome[d]
             \/ d = c /\ outcome'[d].reply = re /\ outcome'[d].saved = sv
  <2>1. outcome'[d] = IF d = c THEN [status |-> st, reply |-> re, saved |-> sv] ELSE outcome[d]
    BY <1>1, <1>3
  <2> QED BY <2>1
<1>4. CASE ~ UNCHANGED outcome
  <2> DEFINE Judged(st, re, sv) ==
          /\ outcome' = [outcome EXCEPT ![c] = [status |-> st, reply |-> re, saved |-> sv]]
          /\ re \in {"none", "OK_SENDING_FILE"} \/ (toClient[c] # <<>> /\ re = Received(c).tag)
          /\ sv = <<>> \/ (toClient[c] # <<>> /\ sv = Received(c).data)
  <2>1. PICK st \in {0, 1} : \E re, sv : Judged(st, re, sv)
    BY <1>4, Zenon DEF ClientEffect
  <2>2. PICK re, sv : Judged(st, re, sv)
    BY <2>1
  <2> QED BY <1>3, <2>2
<1> QED BY <1>2, <1>4

\* Of what is under way to a client, a step of a client leaves the end.
LEMMA LeftOnWire ==
    ASSUME TypeOK, NEW c \in Clients, ClientEffect(c), NEW d \in Clients
    PROVE  \/ toClient'[d] = toClient[d]
           \/ \E n \in 1 .. Len(toClient[d]) :
                 toClient'[d] = SubSeq(toClient[d], n + 1, Len(toClient[d]))
<1>1. toClient = [x \in Clients |-> toClient[x]]
  BY DEF TypeOK
<1>2. CASE UNCHANGED toClient
  BY <1>2
<1>3. CASE Recv(c)
  <2>1. PICK n \in 1 .. Len(toClient[c]) :
          toClient' = [toClient EXCEPT ![c] = SubSeq(toClient[c], n + 1, Len(toClient[c]))]
    BY <1>3 DEF Recv
  <2> QED BY <1>1, <2>1
<1> QED BY <1>2, <1>3 DEF ClientEffect

\* Every step of a client keeps the types.
LEMMA ClientTyped ==
    ASSUME TypeOK, NEW c \in Clients, ClientStep(c)
    PROVE  TypeOK'
<1>1. /\ UNCHANGED <<dir, content, fd, held, srv, req, g_files, buf, crashes>>
      /\ ClientEffect(c)
  BY ClientEffects DEF ClientStep
<1>2. /\ toClient \in [Clients -> Seq(Segments)] /\ toServer \in [Clients -> Seq(Segments)]
      /\ cli \in [Clients -> CliLabels] /\ req[c].local \in Int
      /\ outcome \in [Clients -> [status: {-1, 0, 1}, reply: Tags \cup {"none"}, saved: Seq(Byte)]]
  BY RequestsAssumption DEF TypeOK, Request
<1>3. toServer' \in [Clients -> Seq(Segments)]
  <2>1. ASSUME NEW s \in Segments, SendServer(c, <<s>>) PROVE toServer' \in [Clients -> Seq(Segments)]
    <3>1. toServer[c] \o <<s>> \in Seq(Segments)
      BY <1>2, ConcatProperties
    <3> QED BY <1>2, <2>1, <3>1 DEF SendServer
  <2>2. UNCHANGED toServer \/ \E s \in Segments : SendServer(c, <<s>>)
    <3>1. Segment("CMD") \in Segments
      BY SegmentTypes DEF Tags
    <3>2. req[c].local >= 0 => DataSegment(Chunk(c)) \in Segments
      BY <1>2, SegmentTypes
    <3> QED BY <1>1, <3>1, <3>2 DEF ClientEffect
  <2> QED BY <1>2, <2>1, <2>2
<1>4. toClient' \in [Clients -> Seq(Segments)]
  <2>1. ASSUME Recv(c) PROVE toClient' \in [Clients -> Seq(Segments)]
    <3>1. PICK n \in 1 .. Len(toClient[c]) :
            toClient' = [toClient EXCEPT ![c] = SubSeq(@, n + 1, Len(@))]
      BY <2>1 DEF Recv
    <3>2. SubSeq(toClient[c], n + 1, Len(toClient[c])) \in Seq(Segments)
      BY <1>2, SubSeqProperties
    <3> QED BY <1>2, <3>1, <3>2
  <2> QED BY <1>1, <1>2, <2>1 DEF ClientEffect
<1>5. outcome' \in [Clients -> [status: {-1, 0, 1}, reply: Tags \cup {"none"}, saved: Seq(Byte)]]
  <2>1. ASSUME toClient[c] # <<>> PROVE Received(c).tag \in Tags /\ Received(c).data \in Seq(Byte)
    <3>1. Received(c) \in Segments
      BY <1>2, <2>1 DEF Received
    <3> QED BY <3>1 DEF Segments
  <2>2. "OK_SENDING_FILE" \in Tags /\ <<>> \in Seq(Byte)
    BY EmptySeq DEF Tags
  <2>3. CASE UNCHANGED outcome
    BY <1>2, <2>3
  <2>4. ASSUME NEW st \in {0, 1}, NEW re \in Tags \cup {"none"}, NEW sv \in Seq(Byte),
               outcome' = [outcome EXCEPT ![c] = [status |-> st, reply |-> re, saved |-> sv]]
        PROVE  outcome' \in [Clients -> [status: {-1, 0, 1}, reply: Tags \cup {"none"}, saved: Seq(Byte)]]
    BY <1>2, <2>4
  <2>5. \/ UNCHANGED outcome
        \/ \E st \in {0, 1}, re \in Tags \cup {"none"}, sv \in Seq(Byte) :
              outcome' = [outcome EXCEPT ![c] = [status |-> st, reply |-> re, saved |-> sv]]
    <3> HIDE DEF Tags
    <3> QED BY <1>1, <2>1, <2>2, Zenon DEF ClientEffect
  <2> QED BY <2>3, <2>4, <2>5, Zenon
<1>6. cli' \in [Clients -> CliLabels]
  BY <1>1, <1>2 DEF ClientEffect
<1> QED BY <1>1, <1>3, <1>4, <1>5, <1>6 DEF TypeOK

\* The types hold at the start.
LEMMA TypeInit == Init => TypeOK
<1> SUFFICES ASSUME Init PROVE TypeOK
  OBVIOUS
<1> USE DEF Init, WorldInit, ServerInit, ClientInit
<1>1. <<>> \in Seq(Byte) /\ <<>> \in Seq(Segments) /\ <<>> \in Seq(filemeta_t) /\ Len(<<>>) = 0
  BY EmptySeq
<1>2. content \in [Inodes -> Seq(Byte)]
  <2>1. ASSUME NEW i \in Inodes
        PROVE  (IF i \in InitFiles THEN InitContent(i) ELSE <<>>) \in Seq(Byte)
    <3>1. i \in Byte
      BY DEF Inodes, Byte
    <3>2. <<i, i>> \in Seq(Byte)
      BY <3>1
    <3> QED BY <1>1, <3>2 DEF InitContent
  <2>2. content = [i \in Inodes |-> IF i \in InitFiles THEN InitContent(i) ELSE <<>>]
    OBVIOUS
  <2> HIDE DEF Init, WorldInit
  <2> QED BY <2>1, <2>2
<1>3. dir \in [Paths -> Inodes \cup {None}]
  BY DEF Inodes
<1>4. outcome \in [Clients -> [status: {-1, 0, 1}, reply: Tags \cup {"none"}, saved: Seq(Byte)]]
  BY <1>1 DEF NoOutcome
<1> QED BY <1>1, <1>2, <1>3, <1>4, FaultsAssumption, MaxFilesAssumption
        DEF TypeOK, SrvLabels, CliLabels

\* The death of the server keeps them.
LEMMA CrashTyped ==
    ASSUME TypeOK, Crash, UNCHANGED <<cli, req, outcome>>
    PROVE  TypeOK'
<1>1. <<>> \in Seq(filemeta_t) /\ Len(<<>>) = 0
  BY EmptySeq
<1>2. crashes' \in 0 .. MaxCrashes
  BY FaultsAssumption DEF TypeOK, Crash
<1>3. /\ srv' = [c \in Clients |-> IF cli[c] = "start" THEN "none" ELSE "done"]
      /\ fd' = [c \in Clients |-> None] /\ held' = [c \in Clients |-> "none"] /\ g_files' = <<>>
      /\ UNCHANGED <<dir, content, toServer, toClient, buf>>
  BY DEF Crash, files, wires
<1>4. /\ srv' \in [Clients -> SrvLabels] /\ fd' \in [Clients -> Inodes \cup {None}]
      /\ held' \in [Clients -> {"none", "SH", "EX"}]
  BY <1>3 DEF SrvLabels
<1>5. g_files' \in Seq(filemeta_t) /\ Len(g_files') <= MAX_FILES
  BY <1>1, <1>3, MaxFilesAssumption
<1> QED BY <1>2, <1>3, <1>4, <1>5 DEF TypeOK

\* All the invariants so far.
RfsInv == PermInv /\ FileInv /\ TypeOK

\* They are inductive together.
LEMMA RfsNext == RfsInv /\ [Next]_rfsVars => RfsInv'
<1> SUFFICES ASSUME RfsInv, [Next]_rfsVars PROVE RfsInv'
  OBVIOUS
<1>1. PermInv' /\ FileInv'
  BY PermNext, FileNext DEF RfsInv
<1>2. TypeOK'
  <2>1. ASSUME UNCHANGED rfsVars PROVE TypeOK'
    BY <2>1 DEF RfsInv, TypeOK, rfsVars
  <2> QED BY <1>1, <2>1, ServerTyped, ClientTyped, CrashTyped DEF Next, RfsInv
<1> QED BY <1>1, <1>2 DEF RfsInv

\* They hold in every reachable state.
THEOREM RfsInvariant == SafetySpec => []RfsInv
<1>1. Init => RfsInv
  BY PermInit, FileInit, TypeInit DEF RfsInv
<1> QED BY <1>1, RfsNext, PTL DEF SafetySpec

\* Type correctness of the remote file system for every number of clients: in
\* particular the permission table never outgrows g_files.
THEOREM RfsTypeCorrect == SafetySpec => []TypeOK
BY RfsInvariant, PTL DEF RfsInv

-----------------------------------------------------------------------------
(* Who waits for whom.                                                     *)

\* The positions of handle_write.
WriteHandler == {"w_perm", "w_set", "w_recheck"} \cup Writing

\* A thread is started after its client; a handler and do_write belong to the request;
\* before it is told to go on, a client has not sent its file; and once it has, the
\* file is there to be received, unless it was empty.
WireInv ==
    \A c \in Clients :
        /\ cli[c] = "start" => srv[c] = "none"
        /\ srv[c] \in WriteHandler => req[c].op = "WRITE"
        /\ cli[c] \in {"w_ready", "w_final"} => req[c].op = "WRITE"
        /\ srv[c] \in Silent => toClient[c] = <<>> /\ cli[c] # "w_final"
        /\ srv[c] \in Writing /\ cli[c] = "w_final" => toServer[c] # <<>> \/ req[c].local = 0

\* How a server thread gets to its position.
LEMMA ServerPositions ==
    ASSUME TypeOK, NEW c \in Clients, client_thread(c)
    PROVE  /\ \E to \in SrvLabels : srv' = [srv EXCEPT ![c] = to]
           /\ srv'[c] # "none"
           /\ srv[c] = "none" => cli[c] # "start"
           /\ srv'[c] \in Silent => srv[c] \in Silent
           /\ srv'[c] \in Writing => srv[c] \in Writing \/ srv[c] = "w_recheck"
           /\ srv'[c] \in WriteHandler => srv[c] \in WriteHandler \/ req[c].op = "WRITE"
           /\ srv'[c] \in Writing => UNCHANGED toServer
<1>1. srv \in [Clients -> SrvLabels]
  BY DEF TypeOK
<1> USE DEF SrvLabels, Silent, Writing, WriteHandler, Step, Finish, wires
<1>2. CASE Accept(c) \/ HangUp(c)
  BY <1>1, <1>2 DEF Accept, HangUp
<1>3. CASE Dispatch(c)
  BY <1>1, <1>3 DEF Dispatch
<1>4. CASE handle_write(c)
  <2>1. CASE WritePerm(c) \/ WriteSet(c) \/ WriteRecheck(c)
    BY <1>1, <2>1 DEF WritePerm, WriteSet, WriteRecheck
  <2>2. CASE WriteOpen(c) \/ Flock(c, "w_flock", "w_recv", "EX") \/ FlockFails(c, "w_flock")
    BY <1>1, <2>2 DEF WriteOpen, Flock, FlockFails, Reply
  <2>3. CASE WriteData(c) \/ WriteShort(c) \/ WriteNoData(c) \/ Reply(c, "w_ok", "WRITE_OK")
             \/ Reply(c, "w_short", "ERR_WRITE_FAILED")
    BY <1>1, <2>3 DEF WriteData, WriteShort, WriteNoData, Reply
  <2> QED BY <1>4, <2>1, <2>2, <2>3 DEF handle_write
<1>5. CASE handle_get(c)
  BY <1>1, <1>5 DEF handle_get, GetOpen, Flock, FlockFails, Reply, GetRead, GetSend
<1>6. CASE handle_rm(c)
  BY <1>1, <1>6 DEF handle_rm, RmPerm, RmOpen, Flock, FlockFails, Reply, RmRemove
<1> QED BY <1>2, <1>3, <1>4, <1>5, <1>6 DEF client_thread

\* A server thread touches its own connection only.
LEMMA OwnConnection ==
    ASSUME RfsInv, NEW c \in Clients, client_thread(c), NEW d \in Clients, d # c
    PROVE  srv'[d] = srv[d] /\ toClient'[d] = toClient[d] /\ toServer'[d] = toServer[d]
<1>1. /\ srv \in [Clients -> SrvLabels] /\ toClient \in [Clients -> Seq(Segments)]
      /\ toServer \in [Clients -> Seq(Segments)] /\ TypeOK /\ PermInv
  BY DEF RfsInv, TypeOK
<1>2. srv'[d] = srv[d]
  BY <1>1, ServerPositions
<1>3. toClient'[d] = toClient[d]
  BY <1>1, ServerSends DEF Replies, SendsData, Send
<1>4. toServer'[d] = toServer[d]
  BY <1>1, ServerTakes
<1> QED BY <1>2, <1>3, <1>4

\* Server steps keep the order of the exchange.
LEMMA WireServer ==
    ASSUME RfsInv, WireInv, NEW c \in Clients, ServerStep(c)
    PROVE  WireInv'
<1>1. client_thread(c) /\ cli' = cli /\ req' = req /\ TypeOK /\ PermInv
  BY DEF ServerStep, RfsInv
<1>2. /\ srv'[c] # "none" /\ (srv[c] = "none" => cli[c] # "start")
      /\ srv'[c] \in Silent => srv[c] \in Silent
      /\ srv'[c] \in Writing => srv[c] \in Writing \/ srv[c] = "w_recheck"
      /\ srv'[c] \in WriteHandler => srv[c] \in WriteHandler \/ req[c].op = "WRITE"
      /\ srv'[c] \in Writing => UNCHANGED toServer
  BY <1>1, ServerPositions
<1>3. srv'[c] \in Silent => UNCHANGED toClient
  BY <1>1, ServerSends DEF Replies, SendsData, Silent
<1>4. cli[c] # "start"
  BY <1>2 DEF WireInv
<1>5. srv[c] = "w_recheck" => cli[c] # "w_final"
  BY DEF WireInv, Silent
<1>6. ASSUME NEW d \in Clients, d # c
      PROVE  srv'[d] = srv[d] /\ toClient'[d] = toClient[d] /\ toServer'[d] = toServer[d]
  BY <1>1, <1>6, OwnConnection
<1> QED BY <1>1, <1>2, <1>3, <1>4, <1>5, <1>6 DEF WireInv

\* How a client gets to its position: to w_final only from w_ready, with a reply in hand,
\* and after it has sent its file, unless that was empty.
LEMMA ClientPositions ==
    ASSUME TypeOK, NEW c \in Clients, client(c)
    PROVE  /\ \E to \in CliLabels \ {"start"} : cli' = [cli EXCEPT ![c] = to]
           /\ cli'[c] = "w_ready" => req[c].op = "WRITE"
           /\ cli'[c] = "w_final" =>
                 /\ cli[c] = "w_ready" /\ toClient[c] # <<>>
                 /\ req[c].local # 0 => toServer'[c] # <<>>
<1>1. /\ cli \in [Clients -> CliLabels] /\ toClient \in [Clients -> Seq(Segments)]
      /\ toServer \in [Clients -> Seq(Segments)] /\ req[c].local \in Int
      /\ Recv(c) => toClient[c] # <<>>
  BY RecvSomething, RequestsAssumption DEF TypeOK, Request
<1> USE DEF CliLabels, At, Goto, Return
<1>2. CASE Start(c) \/ NoReply(c)
  BY <1>1, <1>2 DEF Start, NoReply
<1>3. CASE WriteReady(c)
  <2>1. CASE cli'[c] = "w_final"
    <3>1. /\ req[c].local >= 0 /\ Goto(c, "w_final") /\ cli[c] = "w_ready"
          /\ SendServer(c, IF Chunk(c) # <<>> THEN <<DataSegment(Chunk(c))>> ELSE <<>>)
      BY <1>1, <1>3, <2>1 DEF WriteReady
    <3>2. ASSUME req[c].local # 0 PROVE toServer'[c] # <<>>
      <4>1. Min2(req[c].local, BUF_SIZE) \in Nat \ {0}
        BY <1>1, <3>1, <3>2, FilesAssumption DEF Min2
      <4>2. Chunk(c) # <<>>
        BY <4>1 DEF Chunk
      <4>3. toServer'[c] = toServer[c] \o <<DataSegment(Chunk(c))>>
        BY <1>1, <3>1, <4>2 DEF SendServer
      <4> HIDE DEF DataSegment
      <4>4. Len(toServer'[c]) = Len(toServer[c]) + 1 /\ Len(toServer[c]) \in Nat
        BY <1>1, <4>3
      <4> QED BY <4>4
    <3> QED BY <1>1, <1>3, <3>1, <3>2 DEF WriteReady
  <2>2. CASE cli'[c] # "w_final"
    BY <1>1, <1>3, <2>2 DEF WriteReady
  <2> QED BY <2>1, <2>2
<1>4. CASE WriteFinal(c) \/ do_rm(c) \/ GetReply(c) \/ GetData(c)
  BY <1>1, <1>4 DEF WriteFinal, do_rm, GetReply, GetData
<1> QED BY <1>2, <1>3, <1>4 DEF client, do_write, do_get

\* Client steps keep the order of the exchange.
LEMMA WireClient ==
    ASSUME RfsInv, WireInv, NEW c \in Clients, ClientStep(c)
    PROVE  WireInv'
<1>1. client(c) /\ srv' = srv /\ req' = req /\ TypeOK
  BY DEF ClientStep, RfsInv
<1>2. /\ toClient \in [Clients -> Seq(Segments)] /\ toServer \in [Clients -> Seq(Segments)]
      /\ cli \in [Clients -> CliLabels]
  BY <1>1 DEF TypeOK
<1>3. /\ UNCHANGED toServer \/ (\E s : SendServer(c, <<s>>))
      /\ UNCHANGED toClient \/ (toClient[c] # <<>> /\ Recv(c))
  BY <1>1, ClientEffects DEF ClientEffect
<1>4. ASSUME NEW d \in Clients, d # c
      PROVE  cli'[d] = cli[d] /\ toClient'[d] = toClient[d] /\ toServer'[d] = toServer[d]
  BY <1>1, <1>2, <1>3, <1>4, ClientPositions DEF SendServer, Recv
<1>5. srv[c] \in Silent => toClient[c] = <<>> /\ toClient' = toClient
  BY <1>3 DEF WireInv
<1>6. /\ cli'[c] # "start"
      /\ cli'[c] = "w_ready" => req[c].op = "WRITE"
      /\ cli'[c] = "w_final" =>
            /\ cli[c] = "w_ready" /\ toClient[c] # <<>>
            /\ req[c].local # 0 => toServer'[c] # <<>>
  BY <1>1, <1>2, ClientPositions
<1> QED BY <1>1, <1>4, <1>5, <1>6 DEF WireInv

\* The exchange is in order at the start and when the server has died.
LEMMA WireNext == RfsInv /\ WireInv /\ [Next]_rfsVars => WireInv'
<1> SUFFICES ASSUME RfsInv, WireInv, [Next]_rfsVars PROVE WireInv'
  OBVIOUS
<1>1. CASE Crash /\ UNCHANGED <<cli, req, outcome>>
  <2>1. /\ \A c \in Clients : srv'[c] = IF cli[c] = "start" THEN "none" ELSE "done"
        /\ UNCHANGED <<cli, req, toServer, toClient>>
    BY <1>1 DEF Crash, wires
  <2> QED BY <2>1 DEF WireInv, Silent, Writing, WriteHandler
<1>2. CASE UNCHANGED rfsVars
  BY <1>2 DEF rfsVars, WireInv
<1> QED BY <1>1, <1>2, WireServer, WireClient DEF Next

\* For every number of clients, every size of file and every order of the steps: an
\* upload that leaves client and server waiting for each other is an empty one.
THEOREM OnlyEmptyHang == SafetySpec => []OnlyEmptyUploadsHang
<1>1. Init => WireInv
  BY DEF Init, WorldInit, WireInv, Silent, Writing, WriteHandler
<1>2. WireInv => OnlyEmptyUploadsHang
  BY DEF WireInv, OnlyEmptyUploadsHang, MutualWait, EmptyUpload, Writing
<1> QED BY <1>1, <1>2, WireNext, RfsInvariant, PTL DEF SafetySpec

-----------------------------------------------------------------------------
(* Where bytes come from.                                                  *)

AllIn(bytes, S) == \A k \in 1 .. Len(bytes) : bytes[k] \in S

Carries(wire, S) == \A k \in 1 .. Len(wire) : AllIn(wire[k].data, S)

\* The inductive invariant for NoCrossTalk: it covers inodes that have lost their path,
\* because a thread may have them open, and everything a byte goes through on its way.
BytesInv ==
    /\ \A i \in Inodes : AllIn(content[i], BytesOf(Home(i)))
    /\ \A c \in Clients :
          /\ AllIn(buf[c], BytesOf(req[c].path))
          /\ Carries(toServer[c], {c})
          /\ Carries(toClient[c], BytesOf(req[c].path))
          /\ AllIn(outcome[c].saved, BytesOf(req[c].path))

\* What sending, receiving and cutting do to the origin of bytes.
LEMMA AllInParts ==
    ASSUME NEW T, NEW b \in Seq(T), NEW S, AllIn(b, S)
    PROVE  /\ \A n \in 0 .. Len(b) : AllIn(SubSeq(b, 1, n), S)
           /\ \A a \in Seq(T) : AllIn(a, S) => AllIn(a \o SubSeq(b, Len(a) + 1, Len(b)), S)
<1>1. ASSUME NEW n \in 0 .. Len(b) PROVE AllIn(SubSeq(b, 1, n), S)
  BY SubSeqProperties DEF AllIn
<1>2. ASSUME NEW a \in Seq(T), AllIn(a, S)
      PROVE  AllIn(a \o SubSeq(b, Len(a) + 1, Len(b)), S)
  <2> DEFINE r == SubSeq(b, Len(a) + 1, Len(b))
  <2>1. CASE Len(a) + 1 <= Len(b)
    <3>1. r \in Seq(T) /\ Len(r) = Len(b) - Len(a) /\ \A k \in 1 .. Len(r) : r[k] = b[Len(a) + k]
      BY <2>1, SubSeqProperties
    <3> HIDE DEF r
    <3>2. AllIn(r, S)
      BY <2>1, <3>1 DEF AllIn
    <3>3. AllIn(a \o r, S)
      BY <1>2, <3>1, <3>2, ConcatProperties DEF AllIn
    <3> QED BY <3>3 DEF r
  <2>2. CASE Len(a) + 1 > Len(b)
    <3>1. r = <<>>
      BY <2>2
    <3>2. a \o r = a
      BY <3>1, ConcatEmptySeq
    <3> QED BY <1>2, <3>2
  <2> QED BY <2>1, <2>2
<1> QED BY <1>1, <1>2

\* The same for segments.
LEMMA CarriesParts ==
    ASSUME NEW w \in Seq(Segments), NEW S, Carries(w, S)
    PROVE  /\ \A s \in Segments : AllIn(s.data, S) => Carries(w \o <<s>>, S)
           /\ \A n \in 1 .. Len(w) : Carries(SubSeq(w, n + 1, Len(w)), S)
           /\ w # <<>> => AllIn(Head(w).data, S)
<1>1. ASSUME NEW s \in Segments, AllIn(s.data, S) PROVE Carries(w \o <<s>>, S)
  <2>1. /\ Len(w \o <<s>>) = Len(w) + 1 /\ (w \o <<s>>)[Len(w) + 1] = s
        /\ \A k \in 1 .. Len(w) : (w \o <<s>>)[k] = w[k]
    BY ConcatProperties
  <2> QED BY <1>1, <2>1 DEF Carries
<1>2. ASSUME NEW n \in 1 .. Len(w) PROVE Carries(SubSeq(w, n + 1, Len(w)), S)
  <2> DEFINE r == SubSeq(w, n + 1, Len(w))
  <2>1. Len(r) = Len(w) - n /\ \A k \in 1 .. Len(r) : r[k] = w[n + k]
    BY SubSeqProperties
  <2> HIDE DEF r
  <2>2. Carries(r, S)
    BY <2>1 DEF Carries
  <2> QED BY <2>2 DEF r
<1>3. w # <<>> => AllIn(Head(w).data, S)
  BY DEF Carries
<1> QED BY <1>1, <1>2, <1>3

\* Server steps: bytes get into a file only from the thread's own client, and out of
\* it only to a client that asked for the path the inode belongs to.
LEMMA BytesServer ==
    ASSUME RfsInv, WireInv, BytesInv, NEW c \in Clients, ServerStep(c)
    PROVE  BytesInv'
<1>1. client_thread(c) /\ req' = req /\ outcome' = outcome /\ TypeOK /\ PermInv /\ FileInv
  BY DEF ServerStep, RfsInv
<1>2. /\ content \in [Inodes -> Seq(Byte)] /\ buf \in [Clients -> Seq(Byte)]
      /\ toServer \in [Clients -> Seq(Segments)] /\ toClient \in [Clients -> Seq(Segments)]
  BY <1>1 DEF TypeOK
<1>3. (\A i : Home(i)' = Home(i)) /\ (\A p : BytesOf(p)' = BytesOf(p))
  BY <1>1 DEF Home, BytesOf
<1>4. ASSUME NEW S PROVE AllIn(<<>>, S) /\ Carries(<<>>, S)
  BY DEF AllIn, Carries
<1>5. ASSUME NEW i \in Inodes PROVE AllIn(content'[i], BytesOf(Home(i)))
  <2>1. AllIn(content[i], BytesOf(Home(i)))
    BY DEF BytesInv
  <2>2. CASE content' = content
    BY <2>1, <2>2
  <2>3. CASE WriteOpen(c)
    <3>1. content'[i] = content[i] \/ content'[i] = <<>>
      BY <1>2, <2>3 DEF WriteOpen, files
    <3> QED BY <1>4, <2>1, <3>1
  <2>4. CASE WriteData(c) \/ WriteShort(c)
    <3>1. srv[c] = "w_recv" /\ toServer[c] # <<>>
      BY <2>4 DEF WriteData, WriteShort, Finish, Step
    <3>2. fd[c] \in Inodes /\ Home(fd[c]) = req[c].path
      BY <1>1, <3>1, HasFile, NamesAssumption DEF Open, FileInv, InodesAtHome, Inodes
    <3> DEFINE d == Head(toServer[c]).data
    <3>3. d \in Seq(Byte)
      <4>1. Head(toServer[c]) \in Segments
        BY <1>2, <3>1
      <4> QED BY <4>1 DEF Segments
    <3>4. c \in BytesOf(Home(fd[c]))
      BY <3>1, <3>2 DEF WireInv, WriteHandler, Writing, BytesOf
    <3>5. AllIn(d, BytesOf(Home(fd[c])))
      <4>1. Carries(toServer[c], {c})
        BY DEF BytesInv
      <4>2. AllIn(d, {c})
        BY <1>2, <3>1, <4>1, CarriesParts
      <4> QED BY <3>4, <4>2 DEF AllIn
    <3>6. \E a \in Seq(Byte) : AllIn(a, BytesOf(Home(fd[c]))) /\ content' = Overwrite(fd[c], a)
      <4>1. CASE WriteData(c)
        BY <3>3, <3>5, <4>1 DEF WriteData
      <4>2. CASE WriteShort(c)
        <5>1. PICK n \in 0 .. Len(d) - 1 : content' = Overwrite(fd[c], SubSeq(d, 1, n))
          BY <4>2 DEF WriteShort
        <5> HIDE DEF d
        <5>2. n \in 0 .. Len(d) /\ SubSeq(d, 1, n) \in Seq(Byte)
          BY <3>3, <5>1, SubSeqProperties
        <5>3. AllIn(SubSeq(d, 1, n), BytesOf(Home(fd[c])))
          BY <3>3, <3>5, <5>2, AllInParts
        <5> QED BY <5>1, <5>2, <5>3
      <4> QED BY <2>4, <4>1, <4>2
    <3> HIDE DEF d
    <3>7. PICK a \in Seq(Byte) : AllIn(a, BytesOf(Home(fd[c]))) /\ content' = Overwrite(fd[c], a)
      BY <3>6
    <3>8. CASE i = fd[c]
      <4>1. content'[i] = a \o SubSeq(content[i], Len(a) + 1, Len(content[i]))
        BY <1>2, <3>2, <3>7, <3>8 DEF Overwrite
      <4>2. content[i] \in Seq(Byte)
        BY <1>2
      <4> QED BY <2>1, <3>7, <3>8, <4>1, <4>2, AllInParts
    <3>9. CASE i # fd[c]
      BY <1>2, <2>1, <3>7, <3>9 DEF Overwrite
    <3> QED BY <3>8, <3>9
  <2> QED BY <1>1, <2>2, <2>3, <2>4 DEF client_thread, handle_write, handle_get, handle_rm, Accept, HangUp,
       Dispatch, WritePerm, WriteSet, WriteRecheck, Flock, FlockFails, Reply, WriteNoData,
       GetOpen, GetRead, GetSend, RmPerm, RmOpen, RmRemove, files
<1>6. ASSUME NEW d \in Clients PROVE AllIn(buf'[d], BytesOf(req[d].path))
  <2>1. AllIn(buf[d], BytesOf(req[d].path))
    BY DEF BytesInv
  <2>2. CASE buf' = buf
    BY <2>1, <2>2
  <2>3. CASE GetRead(c) /\ d = c
    <3>1. fd[c] \in Inodes /\ Home(fd[c]) = req[c].path
      BY <1>1, <2>3, HasFile, NamesAssumption DEF GetRead, Step, Open, FileInv, InodesAtHome, Inodes
    <3>2. buf'[c] = SubSeq(content[fd[c]], 1, Min2(Len(content[fd[c]]), BUF_SIZE))
      BY <1>2, <2>3 DEF GetRead
    <3>3. content[fd[c]] \in Seq(Byte) /\ AllIn(content[fd[c]], BytesOf(req[c].path))
      BY <1>2, <3>1 DEF BytesInv
    <3>4. Min2(Len(content[fd[c]]), BUF_SIZE) \in 0 .. Len(content[fd[c]])
      BY <3>3, FilesAssumption DEF Min2
    <3> QED BY <2>3, <3>2, <3>3, <3>4, AllInParts
  <2>4. CASE GetRead(c) /\ d # c
    BY <1>2, <2>1, <2>4 DEF GetRead
  <2> QED BY <1>1, <2>2, <2>3, <2>4 DEF client_thread, handle_write, handle_get, handle_rm, Accept, HangUp,
       Dispatch, WritePerm, WriteSet, WriteRecheck, WriteOpen, Flock, FlockFails, Reply, WriteData, WriteShort,
       WriteNoData, GetOpen, GetSend, RmPerm, RmOpen, RmRemove
<1>7. ASSUME NEW d \in Clients PROVE Carries(toServer'[d], {d})
  BY <1>1, <1>2, <1>4, ServerTakes DEF BytesInv
<1>8. ASSUME NEW d \in Clients PROVE Carries(toClient'[d], BytesOf(req[d].path))
  <2>1. Carries(toClient[d], BytesOf(req[d].path)) /\ toClient[d] \in Seq(Segments)
    BY <1>2 DEF BytesInv
  <2>2. \/ UNCHANGED toClient
        \/ \E s \in Segments : Send(c, <<s>>) /\ AllIn(s.data, BytesOf(req[c].path))
    <3>1. \A tag \in Tags : Segment(tag) \in Segments /\ AllIn(Segment(tag).data, BytesOf(req[c].path))
      BY <1>4, SegmentTypes DEF Segment
    <3>2. DataSegment(buf[c]) \in Segments /\ AllIn(DataSegment(buf[c]).data, BytesOf(req[c].path))
      BY <1>2, SegmentTypes DEF DataSegment, BytesInv
    <3> QED BY <1>1, <3>1, <3>2, ServerSends DEF Replies, SendsData
  <2>3. ASSUME NEW s \in Segments, Send(c, <<s>>), AllIn(s.data, BytesOf(req[c].path)), d = c
        PROVE  Carries(toClient'[d], BytesOf(req[d].path))
    <3>1. toClient'[d] = toClient[d] \o <<s>>
      BY <1>2, <2>3 DEF Send
    <3> QED BY <2>1, <2>3, <3>1, CarriesParts
  <2>4. CASE toClient'[d] = toClient[d]
    BY <2>1, <2>4
  <2> QED BY <1>2, <2>2, <2>3, <2>4 DEF Send
<1>9. ASSUME NEW d \in Clients PROVE AllIn(outcome'[d].saved, BytesOf(req[d].path))
  BY <1>1 DEF BytesInv
<1> QED BY <1>1, <1>3, <1>5, <1>6, <1>7, <1>8, <1>9 DEF BytesInv

\* Client steps: a client sends its own bytes and keeps what it is sent.
LEMMA BytesClient ==
    ASSUME RfsInv, BytesInv, NEW c \in Clients, ClientStep(c)
    PROVE  BytesInv'
<1>1. /\ UNCHANGED <<content, req, buf>> /\ ClientEffect(c) /\ TypeOK
  BY ClientEffects DEF ClientStep, RfsInv
<1>2. /\ toServer \in [Clients -> Seq(Segments)] /\ toClient \in [Clients -> Seq(Segments)]
      /\ outcome \in [Clients -> [status: {-1, 0, 1}, reply: Tags \cup {"none"}, saved: Seq(Byte)]]
      /\ req[c].local \in Int
  BY <1>1, RequestsAssumption DEF TypeOK, Request
<1>3. (\A i : Home(i)' = Home(i)) /\ (\A p : BytesOf(p)' = BytesOf(p))
  BY <1>1 DEF Home, BytesOf
<1>4. ASSUME NEW d \in Clients PROVE Carries(toServer'[d], {d})
  <2>1. Carries(toServer[d], {d}) /\ toServer[d] \in Seq(Segments)
    BY <1>2 DEF BytesInv
  <2>2. UNCHANGED toServer \/ \E s \in Segments : SendServer(c, <<s>>) /\ AllIn(s.data, {c})
    <3>1. Segment("CMD") \in Segments /\ AllIn(Segment("CMD").data, {c})
      BY SegmentTypes DEF Tags, Segment, AllIn
    <3>2. ASSUME req[c].local >= 0
          PROVE  DataSegment(Chunk(c)) \in Segments /\ AllIn(DataSegment(Chunk(c)).data, {c})
      <4>1. Min2(req[c].local, BUF_SIZE) \in Nat
        BY <1>2, <3>2, FilesAssumption DEF Min2
      <4>2. AllIn(Chunk(c), {c})
        BY <4>1 DEF AllIn, Chunk
      <4> QED BY <1>2, <3>2, <4>2, SegmentTypes DEF DataSegment
    <3> QED BY <1>1, <3>1, <3>2 DEF ClientEffect
  <2>3. ASSUME NEW s \in Segments, SendServer(c, <<s>>), AllIn(s.data, {c}), d = c
        PROVE  Carries(toServer'[d], {d})
    <3>1. toServer'[d] = toServer[d] \o <<s>>
      BY <1>2, <2>3 DEF SendServer
    <3> QED BY <2>1, <2>3, <3>1, CarriesParts
  <2>4. CASE toServer'[d] = toServer[d]
    BY <2>1, <2>4
  <2> QED BY <1>2, <2>2, <2>3, <2>4 DEF SendServer
<1>5. ASSUME NEW d \in Clients PROVE Carries(toClient'[d], BytesOf(req[d].path))
  <2>1. Carries(toClient[d], BytesOf(req[d].path)) /\ toClient[d] \in Seq(Segments)
    BY <1>2 DEF BytesInv
  <2>2. \/ toClient'[d] = toClient[d]
        \/ \E n \in 1 .. Len(toClient[d]) : toClient'[d] = SubSeq(toClient[d], n + 1, Len(toClient[d]))
    BY <1>1, LeftOnWire
  <2> QED BY <2>1, <2>2, CarriesParts
<1>6. ASSUME NEW d \in Clients PROVE AllIn(outcome'[d].saved, BytesOf(req[d].path))
  <2>1. AllIn(outcome[d].saved, BytesOf(req[d].path)) /\ AllIn(<<>>, BytesOf(req[d].path))
    <3>1. AllIn(<<>>, BytesOf(req[d].path))
      BY DEF AllIn
    <3> QED BY <3>1 DEF BytesInv
  <2>2. ASSUME toClient[c] # <<>> PROVE AllIn(Received(c).data, BytesOf(req[c].path))
    BY <1>2, <2>2, CarriesParts DEF BytesInv, Received
  <2>3. \/ outcome'[d] = outcome[d]
        \/ d = c /\ outcome'[d].saved = <<>>
        \/ d = c /\ toClient[c] # <<>> /\ outcome'[d].saved = Received(c).data
    BY <1>1, <1>2, OutcomeOf
  <2> QED BY <2>1, <2>2, <2>3
<1>7. ASSUME NEW d \in Clients PROVE AllIn(buf'[d], BytesOf(req[d].path))
  BY <1>1 DEF BytesInv
<1>8. ASSUME NEW i \in Inodes PROVE AllIn(content'[i], BytesOf(Home(i)))
  BY <1>1 DEF BytesInv
<1> QED BY <1>1, <1>3, <1>4, <1>5, <1>6, <1>7, <1>8 DEF BytesInv

\* Every byte is where it may be at the start.
LEMMA BytesInit == Init => BytesInv
<1> SUFFICES ASSUME Init PROVE BytesInv
  OBVIOUS
<1>1. ASSUME NEW S PROVE AllIn(<<>>, S) /\ Carries(<<>>, S)
  BY DEF AllIn, Carries
<1>2. ASSUME NEW i \in Inodes PROVE AllIn(content[i], BytesOf(Home(i)))
  <2>1. CASE i \in InitFiles
    <3>1. content[i] = <<i, i>> /\ Home(i) = i /\ i \in BytesOf(i)
      BY <2>1, FilesAssumption DEF Init, WorldInit, InitContent, Home, BytesOf
    <3>2. AllIn(<<i, i>>, BytesOf(i))
      <4>1. Len(<<i, i>>) = 2 /\ \A k \in 1 .. 2 : <<i, i>>[k] = i
        OBVIOUS
      <4> QED BY <3>1, <4>1 DEF AllIn
    <3> QED BY <3>1, <3>2
  <2>2. CASE i \notin InitFiles
    BY <1>1, <2>2 DEF Init, WorldInit
  <2> QED BY <2>1, <2>2
<1>3. ASSUME NEW c \in Clients
      PROVE  buf[c] = <<>> /\ toServer[c] = <<>> /\ toClient[c] = <<>> /\ outcome[c].saved = <<>>
  BY DEF Init, WorldInit, ServerInit, ClientInit, NoOutcome
<1> QED BY <1>1, <1>2, <1>3 DEF BytesInv

\* Every step keeps the bytes where they may be.
LEMMA BytesNext == RfsInv /\ WireInv /\ BytesInv /\ [Next]_rfsVars => BytesInv'
<1> SUFFICES ASSUME RfsInv, WireInv, BytesInv, [Next]_rfsVars PROVE BytesInv'
  OBVIOUS
<1>1. CASE (Crash /\ UNCHANGED <<cli, req, outcome>>) \/ UNCHANGED rfsVars
  <2>1. UNCHANGED <<content, toServer, toClient, buf, req, outcome>>
    BY <1>1 DEF Crash, wires, files, rfsVars
  <2> QED BY <2>1 DEF BytesInv, Home, BytesOf
<1> QED BY <1>1, BytesServer, BytesClient DEF Next

\* For every number of clients and whatever is removed, created again or open at the
\* time: a file holds only bytes uploaded to its path, and a GET delivers only those.
THEOREM BytesStayHome == SafetySpec => []NoCrossTalk
<1>1. Init => WireInv
  BY DEF Init, WorldInit, WireInv, Silent, Writing, WriteHandler
<1>2. RfsInv /\ BytesInv => NoCrossTalk
  <2> SUFFICES ASSUME RfsInv, BytesInv PROVE NoCrossTalk
    OBVIOUS
  <2>1. ASSUME NEW p \in Paths, dir[p] # None
        PROVE  AllIn(content[dir[p]], BytesOf(p))
    BY <2>1 DEF RfsInv, FileInv, FileTypes, InodesAtHome, BytesInv
  <2> QED BY <2>1 DEF NoCrossTalk, BytesInv, AllIn
<1> QED BY <1>1, <1>2, BytesInit, WireNext, BytesNext, RfsInvariant, PTL DEF SafetySpec

-----------------------------------------------------------------------------
(* A rejection stands for the life of the server.                          *)

\* c has been told tag, or will be.
Told(c, tag) ==
    \/ outcome[c].reply = tag
    \/ \E k \in 1 .. Len(toClient[c]) : toClient[c][k].tag = tag

\* A path that refused somebody is READ_ONLY.
VerdictInv ==
    crashes = 0 =>
        \A c \in Clients :
            Told(c, "ERR_FILE_IS_READ_ONLY") =>
                req[c].path \in Paths /\ get_file_permission(g_files, req[c].path) = "READ_ONLY"

\* A path that is READ_ONLY is settled.
LEMMA ReadOnlySettled ==
    ASSUME NEW tbl, NEW path, get_file_permission(tbl, path) = "READ_ONLY"
    PROVE  Settled(tbl, path)
BY DEF get_file_permission, FirstMatch, Settled, Registered

\* No step of a server thread changes the verdict on a settled path.
LEMMA SettledStays ==
    ASSUME PermInv, NEW c \in Clients, client_thread(c),
           NEW path \in Paths, Settled(g_files, path)
    PROVE  /\ Settled(g_files', path)
           /\ get_file_permission(g_files', path) = get_file_permission(g_files, path)
<1>1. CASE UNCHANGED g_files
  BY <1>1
<1>2. CASE WriteSet(c)
  <2>1. /\ srv[c] = "w_set"
        /\ g_files' = set_file_permission(g_files, req[c].path, parse_perm(req[c].perm))
    BY <1>2 DEF WriteSet, Step
  <2>2. req[c].path \in Paths /\ parse_perm(req[c].perm) \in permission_t
    BY <2>1 DEF PermInv, HandlersHavePaths, Outside, parse_perm, permission_t
  <2> QED BY <2>1, <2>2, SetKeepsVerdict DEF PermInv, PermTypes
<1> QED BY <1>1, <1>2, ServerMoves DEF ElsewhereStep, AllowedStep, OnwardStep, PermInv

\* What a client is told in a step of its thread, it was told before or is told now.
LEMMA NewsFromServer ==
    ASSUME RfsInv, NEW c \in Clients, ServerStep(c), NEW d \in Clients, NEW tag, tag # "DATA",
           Told(d, tag)', ~ Told(d, tag)
    PROVE  d = c /\ tag \in Tags /\ Replies(c, tag)
<1>1. client_thread(c) /\ outcome' = outcome /\ TypeOK /\ PermInv
  BY DEF ServerStep, RfsInv
<1>2. toClient \in [Clients -> Seq(Segments)] /\ buf \in [Clients -> Seq(Byte)]
  BY <1>1 DEF TypeOK
<1>3. toClient'[d] # toClient[d]
  BY <1>1 DEF Told
<1>4. d = c
  BY <1>1, <1>3, OwnConnection
<1>5. ASSUME NEW s \in Segments, Send(c, <<s>>) PROVE s.tag = tag
  <2>1. toClient'[c] = toClient[c] \o <<s>>
    BY <1>2, <1>5 DEF Send
  <2>2. /\ Len(toClient[c] \o <<s>>) = Len(toClient[c]) + 1 /\ (toClient[c] \o <<s>>)[Len(toClient[c]) + 1] = s
        /\ \A k \in 1 .. Len(toClient[c]) : (toClient[c] \o <<s>>)[k] = toClient[c][k]
    BY <1>2, ConcatProperties
  <2>3. PICK k \in 1 .. Len(toClient'[c]) : toClient'[c][k].tag = tag
    BY <1>1, <1>4 DEF Told
  <2>4. k \notin 1 .. Len(toClient[c])
    BY <1>4, <2>1, <2>2, <2>3 DEF Told
  <2>5. k = Len(toClient[c]) + 1
    BY <1>2, <2>1, <2>2, <2>3, <2>4
  <2> QED BY <2>1, <2>2, <2>3, <2>5
<1>6. ASSUME SendsData(c) PROVE FALSE
  BY <1>2, <1>5, <1>6, SegmentTypes DEF SendsData, DataSegment
<1>7. ASSUME NEW t \in Tags, Replies(c, t) PROVE t = tag
  BY <1>5, <1>7, SegmentTypes DEF Replies, Segment
<1> QED BY <1>1, <1>3, <1>4, <1>6, <1>7, ServerSends

\* A client learns nothing its thread has not told it.
LEMMA NoNewsFromClient ==
    ASSUME RfsInv, NEW c \in Clients, ClientStep(c), NEW d \in Clients,
           NEW tag, tag \notin {"none", "OK_SENDING_FILE"}, Told(d, tag)'
    PROVE  Told(d, tag)
<1>1. ClientEffect(c) /\ TypeOK
  BY ClientEffects DEF ClientStep, RfsInv
<1>2. /\ toClient \in [Clients -> Seq(Segments)]
      /\ outcome \in [Clients -> [status: {-1, 0, 1}, reply: Tags \cup {"none"}, saved: Seq(Byte)]]
  BY <1>1 DEF TypeOK
<1>3. CASE \E k \in 1 .. Len(toClient'[d]) : toClient'[d][k].tag = tag
  <2>1. \/ toClient'[d] = toClient[d]
        \/ \E n \in 1 .. Len(toClient[d]) : toClient'[d] = SubSeq(toClient[d], n + 1, Len(toClient[d]))
    BY <1>1, LeftOnWire
  <2>2. ASSUME NEW n \in 1 .. Len(toClient[d]), toClient'[d] = SubSeq(toClient[d], n + 1, Len(toClient[d]))
        PROVE  Told(d, tag)
    <3>1. PICK k \in 1 .. Len(toClient'[d]) : toClient'[d][k].tag = tag
      BY <1>3
    <3>2. Len(toClient'[d]) = Len(toClient[d]) - n /\ toClient'[d][k] = toClient[d][n + k]
      BY <1>2, <2>2, <3>1, SubSeqProperties
    <3>3. n + k \in 1 .. Len(toClient[d])
      BY <1>2, <3>1, <3>2
    <3> QED BY <3>1, <3>2, <3>3 DEF Told
  <2> QED BY <1>3, <2>1, <2>2 DEF Told
<1>4. CASE outcome'[d].reply = tag
  <2>1. \/ outcome'[d] = outcome[d]
        \/ d = c /\ outcome'[d].reply \in {"none", "OK_SENDING_FILE"}
        \/ d = c /\ toClient[c] # <<>> /\ outcome'[d].reply = Received(c).tag
    BY <1>1, <1>2, OutcomeOf
  <2>2. CASE d = c /\ toClient[c] # <<>> /\ outcome'[d].reply = Received(c).tag
    <3>1. 1 \in 1 .. Len(toClient[c]) /\ Received(c) = toClient[c][1]
      BY <1>2, <2>2 DEF Received
    <3> QED BY <1>4, <2>2, <3>1 DEF Told
  <2> QED BY <1>4, <2>1, <2>2 DEF Told
<1> QED BY <1>3, <1>4 DEF Told

\* The rejections told so far agree with the table after every step.
LEMMA VerdictNext == RfsInv /\ VerdictInv /\ [Next]_rfsVars => VerdictInv'
<1> SUFFICES ASSUME RfsInv, VerdictInv, [Next]_rfsVars PROVE VerdictInv'
  OBVIOUS
<1>1. ASSUME NEW c \in Clients, ServerStep(c) PROVE VerdictInv'
  <2> SUFFICES ASSUME crashes' = 0, NEW d \in Clients, Told(d, "ERR_FILE_IS_READ_ONLY")'
               PROVE  /\ req[d].path \in Paths
                      /\ get_file_permission(g_files', req[d].path) = "READ_ONLY"
    BY <1>1 DEF VerdictInv, ServerStep
  <2>1. client_thread(c) /\ PermInv /\ crashes = 0
    BY <1>1, ServerSurvives DEF ServerStep, RfsInv
  <2>2. CASE Told(d, "ERR_FILE_IS_READ_ONLY")
    BY <2>1, <2>2, ReadOnlySettled, SettledStays DEF VerdictInv
  <2>3. CASE ~ Told(d, "ERR_FILE_IS_READ_ONLY")
    <3>1. d = c /\ Replies(c, "ERR_FILE_IS_READ_ONLY")
      BY <1>1, <2>3, NewsFromServer
    <3> QED BY <2>1, <3>1 DEF Replies, PermInv, HandlersHavePaths
  <2> QED BY <2>2, <2>3
<1>2. ASSUME NEW c \in Clients, ClientStep(c) PROVE VerdictInv'
  <2>1. UNCHANGED <<req, g_files, crashes>>
    BY <1>2 DEF ClientStep
  <2>2. ASSUME NEW d \in Clients, Told(d, "ERR_FILE_IS_READ_ONLY")'
        PROVE  Told(d, "ERR_FILE_IS_READ_ONLY")
    BY <1>2, <2>2, NoNewsFromClient
  <2> QED BY <2>1, <2>2 DEF VerdictInv
<1>3. CASE Crash
  BY <1>3 DEF Crash, VerdictInv, RfsInv, TypeOK
<1>4. CASE UNCHANGED rfsVars
  BY <1>4 DEF rfsVars, VerdictInv, Told
<1> QED BY <1>1, <1>2, <1>3, <1>4 DEF Next

\* A thread goes past a look at the table only if the table has its path as READ_WRITE.
LEMMA AdmittedByTable ==
    ASSUME RfsInv, [Next]_rfsVars, NEW c \in Clients, Admitted(c)
    PROVE  get_file_permission(g_files, req[c].path) = "READ_WRITE"
<1>1. /\ srv \in [Clients -> SrvLabels] /\ TypeOK
      /\ srv[c] \in {"w_perm", "w_recheck", "r_perm"} /\ srv'[c] \in {"w_set", "w_open", "r_open"}
      /\ srv'[c] # srv[c]
  BY DEF RfsInv, TypeOK, Admitted
<1>2. ASSUME NEW d \in Clients, ServerStep(d) PROVE d = c /\ client_thread(c)
  <2>1. client_thread(d) /\ (d # c => srv'[c] = srv[c])
    BY <1>1, <1>2, OwnConnection DEF ServerStep
  <2> QED BY <1>1, <2>1
<1>3. client_thread(c)
  <2>1. ~ UNCHANGED srv
    BY <1>1
  <2>2. ~ Crash
    BY <1>1 DEF Crash
  <2>3. \E d \in Clients : ServerStep(d)
    BY <2>1, <2>2 DEF Next, rfsVars, ClientStep
  <2> QED BY <1>2, <2>3
<1> USE DEF Step, Finish, SrvLabels
<1>4. CASE Accept(c) \/ HangUp(c) \/ Dispatch(c) \/ handle_get(c)
  BY <1>1, <1>4 DEF Accept, HangUp, Dispatch, handle_get, GetOpen, Flock, FlockFails, Reply, GetRead, GetSend
<1>5. CASE handle_write(c)
  <2>1. CASE WritePerm(c) \/ WriteRecheck(c)
    BY <1>1, <2>1 DEF WritePerm, WriteRecheck
  <2>2. CASE WriteSet(c) \/ WriteOpen(c) \/ Flock(c, "w_flock", "w_recv", "EX") \/ FlockFails(c, "w_flock")
    BY <1>1, <2>2 DEF WriteSet, WriteOpen, Flock, FlockFails, Reply
  <2>3. CASE WriteData(c) \/ WriteShort(c) \/ WriteNoData(c) \/ Reply(c, "w_ok", "WRITE_OK")
             \/ Reply(c, "w_short", "ERR_WRITE_FAILED")
    BY <1>1, <2>3 DEF WriteData, WriteShort, WriteNoData, Reply
  <2> QED BY <1>5, <2>1, <2>2, <2>3 DEF handle_write
<1>6. CASE handle_rm(c)
  BY <1>1, <1>6 DEF handle_rm, RmPerm, RmOpen, Flock, FlockFails, Reply, RmRemove
<1> QED BY <1>3, <1>4, <1>5, <1>6 DEF client_thread

\* For every number of clients racing for a path, and with a full table and cut names
\* included: once one of them has been told that the path is read-only, nobody else gets
\* past the check of handle_write or handle_rm while the server is up.
THEOREM FirstWriterDecides == SafetySpec => RejectionStands
<1>1. Init => VerdictInv
  <2> SUFFICES ASSUME Init PROVE \A c \in Clients : ~ Told(c, "ERR_FILE_IS_READ_ONLY")
    BY DEF VerdictInv
  <2>1. ASSUME NEW c \in Clients PROVE toClient[c] = <<>> /\ outcome[c].reply = "none"
    BY DEF Init, WorldInit, ClientInit, NoOutcome
  <2>2. 1 .. Len(<<>>) = {}
    OBVIOUS
  <2> QED BY <2>1, <2>2 DEF Told
<1>2. RfsInv /\ VerdictInv /\ [Next]_rfsVars
        => [ \A c, d \in Clients :
               /\ crashes = 0
               /\ req[c].path = req[d].path
               /\ outcome[d].reply = "ERR_FILE_IS_READ_ONLY"
               => ~ Admitted(c) ]_rfsVars
  <2> SUFFICES ASSUME RfsInv, VerdictInv, [Next]_rfsVars, NEW c \in Clients, NEW d \in Clients,
                      crashes = 0, req[c].path = req[d].path,
                      outcome[d].reply = "ERR_FILE_IS_READ_ONLY", Admitted(c)
               PROVE  FALSE
    OBVIOUS
  <2>1. get_file_permission(g_files, req[c].path) = "READ_ONLY"
    BY DEF VerdictInv, Told
  <2>2. get_file_permission(g_files, req[c].path) = "READ_WRITE"
    BY AdmittedByTable
  <2> QED BY <2>1, <2>2
<1> QED BY <1>1, <1>2, VerdictNext, RfsInvariant, PTL DEF SafetySpec, RejectionStands
=============================================================================
