-------------------------------- MODULE MCRfs --------------------------------
(***************************************************************************)
(* Instances of Rfs for TLC: the paths and the command lines of the runs.  *)
(***************************************************************************)
EXTENDS Rfs

CONSTANTS p1, p2, long, nodir   \* paths: the name of long has more than 255 characters,
                                \* the directory of nodir does not exist

W(path, perm, size) == [op |-> "WRITE", path |-> path, perm |-> perm, local |-> size]
G(path, ok)         == [op |-> "GET", path |-> path, perm |-> "none", local |-> ok]
R(path)             == [op |-> "RM", path |-> path, perm |-> "none", local |-> 0]
Usage               == [op |-> "USAGE", path |-> Blank, perm |-> "none", local |-> 0]

\* strncpy cuts long to the name of p2.
MCStoredName == [p \in Paths |-> IF p = long THEN p2 ELSE p]

\* Every kind of command line, over two paths that exist and one in a directory that
\* does not; one local file is empty.
AllKinds == {W(p1, "RW", 1), W(p1, "RW", 0), W(p1, "RO", 1), W(p1, "RW", -1), W(p2, "none", 1), W(nodir, "RW", 1),
             G(p1, 0), G(p1, -1), G(p2, 0), G(nodir, 0), R(p1), R(Blank), Usage}

\* More paths than entries, one of them with too long a name: RO and RW, uploads of two
\* sizes, downloads and removals.
TableRequests == {W(p2, "RO", 2), W(p2, "none", 1), G(p2, 0), R(p2),
                  W(long, "RO", 1), W(long, "RW", 1), R(long)}

AllRequests == AllKinds \cup TableRequests

\* Uploads of which one is shorter than the other.
TwoSizes == {W(p1, "RW", 1), W(p1, "RW", 2)}

\* The upload of a read-only file, and others.
ReadOnlyUpload == {W(p1, "RO", 1), W(p1, "none", 1), W(p2, "none", 1)}
=============================================================================
