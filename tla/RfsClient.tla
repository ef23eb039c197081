------------------------------ MODULE RfsClient ------------------------------
(***************************************************************************)
(* practicum2/client.c: one run of the command line client.  It sends its  *)
(* command and then reads the replies with single recv() calls, judging    *)
(* each by how what it received BEGINS.                                    *)
(***************************************************************************)
EXTENDS RfsWorld

VARIABLE
    outcome   \* outcome[c]: exit status of c, the reply it last printed or
              \* acted on, and what it wrote to its local file (<<>>: nothing)

clientVars == <<toServer, toClient, cli, outcome>>

NoOutcome == [status |-> -1, reply |-> "none", saved |-> <<>>]

ClientInit == outcome = [c \in Clients |-> NoOutcome]

SendServer(c, segments) == toServer' = [toServer EXCEPT ![c] = @ \o segments]

At(c, label) == cli[c] = label

Goto(c, label) == cli' = [cli EXCEPT ![c] = label]

\* main: close the socket and return the status.
Return(c, status, reply, saved) ==
    /\ Goto(c, "closed")
    /\ outcome' = [outcome EXCEPT ![c] = [status |-> status, reply |-> reply, saved |-> saved]]

\* recv() delivers the first n segments under way; the caller sees how they begin.
Recv(c) ==
    \E n \in 1 .. Len(toClient[c]) :
        toClient' = [toClient EXCEPT ![c] = SubSeq(@, n + 1, Len(@))]

Received(c) == Head(toClient[c])

\* recv() returns 0 after the server has closed and everything has been read.
\* If the server closed with data unread, TCP resets the connection instead, and
\* recv() may fail although a reply was on its way.
NothingReceived(c) ==
    /\ ServerClosed(c)
    /\ toClient[c] = <<>> \/ toServer[c] # <<>>
    /\ UNCHANGED toClient

-----------------------------------------------------------------------------
\* main: connect, check the arguments, send the command.
Start(c) ==
    /\ At(c, "start")
    /\ \/ /\ req[c].op = "USAGE"
          /\ Return(c, 1, "none", <<>>)
          /\ UNCHANGED wires
       \/ /\ req[c].op # "USAGE"
          /\ SendServer(c, <<Segment("CMD")>>)
          /\ \/ req[c].op = "WRITE" /\ Goto(c, "w_ready")
             \/ req[c].op = "GET"   /\ Goto(c, "g_reply")
             \/ req[c].op = "RM"    /\ Goto(c, "r_reply")
          /\ UNCHANGED <<toClient, outcome>>

\* The connection ended where a reply was expected.
NoReply(c) ==
    /\ cli[c] \in {"w_ready", "w_final", "g_reply", "r_reply"}
    /\ NothingReceived(c)
    /\ Return(c, 1, "none", <<>>)
    /\ UNCHANGED toServer

\* do_write: on OK_READY_TO_RECEIVE open the local file and send one chunk of it.
\* An empty file sends nothing.
WriteReady(c) ==
    /\ At(c, "w_ready")
    /\ Recv(c)
    /\ \/ /\ Received(c).tag # "OK_READY_TO_RECEIVE"
          /\ Return(c, 1, Received(c).tag, <<>>)
          /\ UNCHANGED toServer
       \/ /\ Received(c).tag = "OK_READY_TO_RECEIVE"
          /\ req[c].local = -1
          /\ Return(c, 1, "none", <<>>)
          /\ UNCHANGED toServer
       \/ /\ Received(c).tag = "OK_READY_TO_RECEIVE"
          /\ req[c].local >= 0
          /\ SendServer(c, IF Chunk(c) # <<>> THEN <<DataSegment(Chunk(c))>> ELSE <<>>)
          /\ Goto(c, "w_final")
          /\ UNCHANGED outcome

\* do_write: whatever the final reply says, the run counts as a success.
WriteFinal(c) ==
    /\ At(c, "w_final")
    /\ Recv(c)
    /\ Return(c, 0, Received(c).tag, <<>>)
    /\ UNCHANGED toServer

do_write(c) == WriteReady(c) \/ WriteFinal(c)

GetReply(c) ==
    /\ At(c, "g_reply")
    /\ Recv(c)
    /\ \/ /\ Received(c).tag # "OK_SENDING_FILE"
          /\ Return(c, 1, Received(c).tag, <<>>)
       \/ /\ Received(c).tag = "OK_SENDING_FILE"
          /\ Goto(c, "g_data")
          /\ UNCHANGED outcome
    /\ UNCHANGED toServer

\* do_get: a second recv() for the data.
GetData(c) ==
    /\ At(c, "g_data")
    /\ \/ /\ req[c].local >= 0
          /\ Recv(c)
          /\ Return(c, 0, "OK_SENDING_FILE", Received(c).data)
       \/ /\ req[c].local = -1
          /\ Recv(c)
          /\ Return(c, 1, "OK_SENDING_FILE", <<>>)
       \/ /\ NothingReceived(c)
          /\ Return(c, 0, "OK_SENDING_FILE", <<>>)
    /\ UNCHANGED toServer

do_get(c) == GetReply(c) \/ GetData(c)

do_rm(c) ==
    /\ At(c, "r_reply")
    /\ Recv(c)
    /\ Return(c, 0, Received(c).tag, <<>>)
    /\ UNCHANGED toServer

client(c) == Start(c) \/ NoReply(c) \/ do_write(c) \/ do_get(c) \/ do_rm(c)
=============================================================================
