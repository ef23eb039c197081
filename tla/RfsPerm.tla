------------------------------- MODULE RfsPerm -------------------------------
(***************************************************************************)
(* practicum2/server.c: the permission table g_files.  The table is the    *)
(* array up to g_file_count, as a sequence.  Every operator is one         *)
(* g_files_lock section of the code, hence one atomic step of a thread.    *)
(***************************************************************************)
EXTENDS RfsWorld

CONSTANTS
    MAX_FILES,   \* entries the array has room for (100)
    StoredName   \* StoredName[p]: p cut to the 255 characters strncpy keeps

ASSUME MaxFilesAssumption == MAX_FILES \in Nat

\* A stored name fits: storing it again changes nothing.
ASSUME StoredNameAssumption ==
    /\ StoredName \in [Paths -> Paths]
    /\ \A p \in Paths : StoredName[StoredName[p]] = StoredName[p]

permission_t == {"READ_WRITE", "READ_ONLY"}

filemeta_t == [filename: Paths, perm: permission_t]

Registered(tbl, path) == \E i \in 1 .. Len(tbl) : tbl[i].filename = path

\* The entry the linear search of the code stops at.
FirstMatch(tbl, path, i) ==
    /\ tbl[i].filename = path
    /\ \A j \in 1 .. i - 1 : tbl[j].filename # path

\* An unknown file counts as READ_WRITE.
get_file_permission(tbl, path) ==
    IF \E i \in 1 .. Len(tbl) : FirstMatch(tbl, path, i) /\ tbl[i].perm = "READ_ONLY"
    THEN "READ_ONLY"
    ELSE "READ_WRITE"

\* MUTANT of set_file_permission: one entry more than there is room for.
set_file_permission_overruns(tbl, path, p) ==
    IF Registered(tbl, path) \/ Len(tbl) > MAX_FILES
    THEN tbl
    ELSE Append(tbl, [filename |-> StoredName[path], perm |-> p])

\* MUTANT of set_file_permission: the last write decides, not the first.
set_file_permission_overwrites(tbl, path, p) ==
    IF Registered(tbl, path)
    THEN [i \in 1 .. Len(tbl) |-> IF tbl[i].filename = path THEN [tbl[i] EXCEPT !.perm = p] ELSE tbl[i]]
    ELSE IF Len(tbl) >= MAX_FILES
         THEN tbl
         ELSE Append(tbl, [filename |-> StoredName[path], perm |-> p])

\* An entry that is there stays as it is, and a full table takes no more.  The
\* search compares the whole path, the new entry keeps only what fits.
set_file_permission(tbl, path, p) ==
    IF Registered(tbl, path) \/ Len(tbl) >= MAX_FILES
    THEN tbl
    ELSE Append(tbl, [filename |-> StoredName[path], perm |-> p])

parse_perm(s) == IF s = "RO" THEN "READ_ONLY" ELSE "READ_WRITE"
=============================================================================
