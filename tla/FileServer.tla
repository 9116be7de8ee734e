--------------------------- MODULE FileServer ---------------------------
(***************************************************************************)
(* Serving files: stream_get streams the files of torrents, webUI_get the  *)
(* web interface.  Each opens a file, announces its length and sends it a  *)
(* buffer at a time: fill a static buffer, copy it into the response, send *)
(* that, and go on in the callback of the send until a read comes up short.*)
(* The threads of the server work off requests and callbacks of all        *)
(* connections, while libtorrent writes the pieces of the files in any     *)
(* order.                                                                  *)
(***************************************************************************)
EXTENDS Integers, Sequences, FiniteSets

CONSTANTS
    Conns,          \* connections of clients
    Media, Pages,   \* files of torrents, files of the web interface
    Dirs,           \* directories a client may name to stream_get
    Size,           \* length of a complete file, in units the disk grows by
    BufferSize,     \* what a read asks for, 128 KB in the code
    None

ASSUME SizeAssumption == Size \in Nat /\ BufferSize \in Nat \ {0}
ASSUME FileAssumption ==
    /\ Media \cap Pages = {} /\ Dirs \cap (Media \cup Pages) = {}
    /\ None \notin Media \cup Pages \cup Dirs

(* What an ifstream opens, a directory included.                           *)
Files    == Media \cup Pages \cup Dirs
Handlers == {"stream_get", "webUI_get"}

VARIABLES
    disk,       \* for each file what its units hold, up to where it ends;
                \* a read of a directory fails, as one of an empty file
    conn,       \* for each connection its response
    thread,     \* for each server thread the handler it is in
    buffer      \* the static buffer of each handler

vars == <<disk, conn, thread, buffer>>

(* ServerBase::Config: "If io_service is not set, number of threads".      *)
two_threads      == 2               \* mutant
thread_pool_size == 1
Threads == 1..thread_pool_size

handler(f) == IF f \in Pages THEN "webUI_get" ELSE "stream_get"

Units == [file : Files, at : 1..Size, holds : {"data", "hole"}]

(* A response: where it is, the file and the position in it, the announced *)
(* length, what is sent and what is to be sent.                            *)
NoResponse == [at |-> "idle", status |-> 0, file |-> None, pos |-> 0,
               length |-> 0, sent |-> <<>>, out |-> <<>>]

TypeOK ==
    /\ \A f \in Files : disk[f] \in Seq({"data", "hole"}) /\ Len(disk[f]) <= Size
    /\ \A c \in Conns :
         /\ conn[c].at \in {"idle", "request", "running", "sending", "callback",
                            "finishing", "done", "closed"}
         /\ conn[c].status \in {0, 200, 400}
         /\ conn[c].file \in Files \cup {None}
         /\ conn[c].pos \in 0..Size /\ conn[c].length \in 0..Size
         /\ conn[c].sent \in Seq(Units) /\ conn[c].out \in Seq(Units)
         /\ Len(conn[c].out) <= BufferSize
    /\ thread \in [Threads -> [pc : {"idle", "read", "write"},
                               conn : Conns \cup {None}, read_length : 0..BufferSize]]
    /\ \A h \in Handlers : buffer[h] \in [1..BufferSize -> Units \cup {None}]

IdleThread == [pc |-> "idle", conn |-> None, read_length |-> 0]

Init ==
    /\ disk = [f \in Files |-> IF f \in Pages THEN [i \in 1..Size |-> "data"] ELSE <<>>]
    /\ conn = [c \in Conns |-> NoResponse]
    /\ thread = [t \in Threads |-> IdleThread]
    /\ buffer = [h \in Handlers |-> [i \in 1..BufferSize |-> None]]

---------------------------------------------------------------------------
(* libtorrent writes a piece; what lies before it and was not written yet  *)
(* is a hole in the file, and reads as zeros.                              *)

WritePiece(f, i) ==
    /\ f \in Media /\ i \in 1..Size
    /\ i \in DOMAIN disk[f] => disk[f][i] = "hole"
    /\ disk' = [disk EXCEPT ![f] =
         [j \in 1..(IF i > Len(disk[f]) THEN i ELSE Len(disk[f])) |->
            IF j = i THEN "data"
            ELSE IF j <= Len(disk[f]) THEN disk[f][j] ELSE "hole"]]
    /\ UNCHANGED <<conn, thread, buffer>>

---------------------------------------------------------------------------
(* A client asks for a file, or for a path that is none; an idle           *)
(* connection or one whose response is done takes the next request.        *)
Ask(c, f) ==
    /\ conn[c].at \in {"idle", "done"}
    /\ conn' = [conn EXCEPT ![c] = [NoResponse EXCEPT !.at = "request", !.file = f]]
    /\ UNCHANGED <<disk, thread, buffer>>

(* tellg at the end of the opened file is the Content-Length; in a         *)
(* directory the end is where its file system says.                        *)
Lengths(f) == IF f \in Dirs THEN 1..Size ELSE {Len(disk[f])}

(* A thread opens the path.  stream_get looks whether it is a regular file *)
(* and does nothing about it; a directory is refused only by a file system *)
(* that cannot seek in it.                                                 *)
Open(t, c) ==
    /\ thread[t].pc = "idle" /\ conn[c].at = "request"
    /\ \/ /\ conn[c].file \in Dirs \cup {None}
          /\ conn' = [conn EXCEPT ![c] = [@ EXCEPT !.status = 400, !.at = "finishing"]]
          /\ UNCHANGED thread
       \/ /\ conn[c].file \in Files
          /\ \E l \in Lengths(conn[c].file) :
               conn' = [conn EXCEPT ![c] = [@ EXCEPT !.status = 200, !.at = "running",
                                              !.length = l]]
          /\ thread' = [thread EXCEPT ![t] =
               [pc |-> "read", conn |-> c, read_length |-> 0]]
    /\ UNCHANGED <<disk, buffer>>

(* The callback of a send that went well.                                  *)
Callback(t, c) ==
    /\ thread[t].pc = "idle" /\ conn[c].at = "callback"
    /\ conn' = [conn EXCEPT ![c].at = "running"]
    /\ thread' = [thread EXCEPT ![t] = [pc |-> "read", conn |-> c, read_length |-> 0]]
    /\ UNCHANGED <<disk, buffer>>

(* read_and_send: fill the buffer with what the file holds now.            *)
Available(f, pos) ==
    LET left == Len(disk[f]) - pos IN IF left < BufferSize THEN left ELSE BufferSize

read(t) ==
    LET c == thread[t].conn
        f == conn[c].file
        n == Available(f, conn[c].pos)
    IN  /\ thread[t].pc = "read"
        /\ buffer' = [buffer EXCEPT ![handler(f)] =
             [i \in 1..BufferSize |->
                IF i <= n THEN [file |-> f, at |-> conn[c].pos + i,
                                holds |-> disk[f][conn[c].pos + i]]
                ELSE buffer[handler(f)][i]]]
        /\ thread' = [thread EXCEPT ![t].pc = "write", ![t].read_length = n]
        /\ conn' = [conn EXCEPT ![c].pos = conn[c].pos + n]
        /\ UNCHANGED disk

(* Copy it into the response.  After a full buffer there is a callback,    *)
(* after a short one the response is dropped, which sends what is left.    *)
NeverMore(n)  == n > BufferSize     \* mutant: one buffer is all
AlwaysMore(n) == n >= 0             \* mutant: nothing ends it
GoesOn(n) == n = BufferSize

write(t) ==
    LET c == thread[t].conn
        n == thread[t].read_length
    IN  /\ thread[t].pc = "write"
        /\ conn' = [conn EXCEPT ![c] = [@ EXCEPT
             !.out = conn[c].out \o [i \in 1..n |-> buffer[handler(conn[c].file)][i]],
             !.at  = IF GoesOn(n) THEN "sending" ELSE "finishing"]]
        /\ thread' = [thread EXCEPT ![t] = IdleThread]
        /\ UNCHANGED <<disk, buffer>>

(* async_write ends; or fails, when the client is gone or takes longer     *)
(* than timeout_content.                                                   *)
NotConsumed(c) == conn[c].out       \* mutant: the sent part stays in streambuf
Consumed(c) == <<>>

Sent(c) ==
    /\ conn[c].at \in {"sending", "finishing"}
    /\ conn' = [conn EXCEPT ![c] = [@ EXCEPT
         !.sent = conn[c].sent \o conn[c].out, !.out = Consumed(c),
         !.at = IF conn[c].at = "sending" THEN "callback" ELSE "done"]]
    /\ UNCHANGED <<disk, thread, buffer>>

Fails(c) ==
    /\ conn[c].at \in {"sending", "finishing"}
    /\ conn' = [conn EXCEPT ![c] = [NoResponse EXCEPT !.at = "closed"]]
    /\ UNCHANGED <<disk, thread, buffer>>

(* The client connects anew.                                               *)
Connect(c) ==
    /\ conn[c].at = "closed"
    /\ conn' = [conn EXCEPT ![c] = NoResponse]
    /\ UNCHANGED <<disk, thread, buffer>>

Serve(t) == read(t) \/ write(t) \/ \E c \in Conns : Open(t, c) \/ Callback(t, c)

Next == \/ \E f \in Files, i \in 1..Size : WritePiece(f, i)
        \/ \E c \in Conns, f \in Files \cup {None} : Ask(c, f)
        \/ \E t \in Threads : Serve(t)
        \/ \E c \in Conns : Sent(c) \/ Fails(c) \/ Connect(c)

(* The threads run, events of every connection are worked off, and a send  *)
(* ends, by timeout_content if by nothing else.                            *)
Fairness ==
    /\ \A t \in Threads : WF_vars(read(t)) /\ WF_vars(write(t))
    /\ \A c \in Conns : /\ WF_vars(Sent(c) \/ Fails(c))
                        /\ SF_vars(\E t \in Threads : Open(t, c) \/ Callback(t, c))

Spec == Init /\ [][Next]_vars /\ Fairness

---------------------------------------------------------------------------
(* Properties.                                                             *)

(* What a client gets are the units of the file it asked for, one after    *)
(* the other from the first, although all responses of a handler share one *)
(* buffer (restAPI.cpp:1561, 2912: "Safe when server is running on one     *)
(* thread").                                                               *)
StreamsDoNotMix ==
    \A c \in Conns :
       LET body == conn[c].sent \o conn[c].out IN
       \A i \in DOMAIN body : body[i].file = conn[c].file /\ body[i].at = i

(* A response that was answered in full has at least the announced number  *)
(* of units, and no more if the file has not grown since                   *)
(* (restAPI.cpp:2901-2924); that of a directory has no body, whatever was  *)
(* announced, although a comment says that it "Needs to be a file"         *)
(* (restAPI.cpp:2869).                                                     *)
BodyAsAnnounced ==
    \A c \in Conns : conn[c].at = "done" /\ conn[c].status = 200 =>
       /\ conn[c].file \in Dirs => conn[c].sent = <<>>
       /\ conn[c].file \notin Dirs =>
            /\ Len(conn[c].sent) >= conn[c].length
            /\ Len(disk[conn[c].file]) = conn[c].length =>
                  Len(conn[c].sent) = conn[c].length

(* Every response comes to an end, sent or broken off, while other clients *)
(* keep the one thread busy or do not read what they asked for.            *)
ResponsesEnd ==
    \A c \in Conns :
       (conn[c].at \notin {"idle", "done", "closed"}) ~>
          (conn[c].at \in {"done", "closed"})
===========================================================================
