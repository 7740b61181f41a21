------------------------------ MODULE Listener ------------------------------
(***************************************************************************)
(* The listener of QEMU's plugin, daemon.c: a thread that answers every    *)
(* TCP client with an XML report.  "listen start" creates the thread,      *)
(* "listen stop" cancels it, joins it and closes the listening socket,     *)
(* whose descriptor the thread left in the global listenfd.                *)
(*                                                                         *)
(* The module follows the process's descriptor table, which the listener   *)
(* shares with the rest of QEMU, and each client's connection.  The report *)
(* itself, gen_xml, matters for its two seconds of sleep (a cancellation   *)
(* point) and for the temporary file it saves and reads back.              *)
(***************************************************************************)
EXTENDS Integers, Sequences

CONSTANTS
  LastFd,       \* the process's descriptors are 0..LastFd
  Clients,      \* remote clients
  MaxBacklog    \* connections the kernel queues: the 128 of listen()

ASSUME ListenerAssumption ==
  /\ LastFd \in Nat
  /\ MaxBacklog \in Nat
  /\ Clients \cap {"free", "qemu", "ifreq", "socket", "listening", "xml"} = {}

VARIABLES
  fds,                  \* what each descriptor is: a client's connection, ...
  backlog,              \* clients connected and not accepted, oldest first
  is_listener_started,
  listenfd,
  mpc,                  \* where the monitor thread is
  lpc,                  \* where the listener thread is
  connfd,               \* its local connfd
  xmlfd,                \* the descriptor gen_xml has open, libxml's or its own
  cancelled             \* pthread_cancel(listen_tid) was called

vars == <<fds, backlog, is_listener_started, listenfd, mpc, lpc, connfd, xmlfd, cancelled>>

Fds   == 0..LastFd
Uses  == {"free", "qemu", "ifreq", "socket", "listening", "xml"} \cup Clients
NoFd  == -1

\* A call that opens a descriptor for use u gives fd: the lowest one that is
\* free, or -1 when there is none.
Opens(u, fd, table) ==
  \/ /\ fd \in Fds
     /\ table[fd] = "free"
     /\ \A f \in Fds : f < fd => table[f] # "free"
     /\ fds' = [table EXCEPT ![fd] = u]
  \/ /\ fd = NoFd
     /\ \A f \in Fds : table[f] # "free"
     /\ fds' = table

\* The descriptor table and the backlog after close(fd).  The kernel resets
\* the connections queued on a listening socket.
Closes(fd) ==
  /\ fds' = [f \in Fds |-> IF f = fd THEN "free" ELSE fds[f]]
  /\ backlog' = IF fd \in Fds /\ fds[fd] = "listening" THEN <<>> ELSE backlog

Connected(c) ==
  \/ \E i \in 1..Len(backlog) : backlog[i] = c
  \/ \E f \in Fds : fds[f] = c

Init ==
  /\ fds = [f \in Fds |-> IF f = 0 THEN "qemu" ELSE "free"]
  /\ backlog = <<>>
  /\ is_listener_started = 0
  /\ listenfd = 0
  /\ mpc = "idle"
  /\ lpc = "none"
  /\ connfd = NoFd
  /\ xmlfd = NoFd
  /\ cancelled = FALSE

Alive == lpc # "crashed"

-----------------------------------------------------------------------------
(* The rest of the world.                                                  *)

\* Another part of QEMU opens a file, or closes one of its own.
QemuOpen ==
  /\ Alive
  /\ \E fd \in Fds : Opens("qemu", fd, fds)
  /\ UNCHANGED <<backlog, is_listener_started, listenfd, mpc, lpc, connfd, xmlfd, cancelled>>

QemuClose ==
  /\ Alive
  /\ \E fd \in Fds : fds[fd] = "qemu" /\ Closes(fd)
  /\ UNCHANGED <<is_listener_started, listenfd, mpc, lpc, connfd, xmlfd, cancelled>>

Connect(c) ==
  /\ Alive
  /\ ~Connected(c)
  /\ \E f \in Fds : fds[f] = "listening"
  /\ Len(backlog) < MaxBacklog
  /\ backlog' = Append(backlog, c)
  /\ UNCHANGED <<fds, is_listener_started, listenfd, mpc, lpc, connfd, xmlfd, cancelled>>

-----------------------------------------------------------------------------
(* The monitor thread: listener_start and listener_stop.                   *)

\* "listener already started", "listener NOT started".
Refused ==
  /\ Alive
  /\ mpc = "idle"
  /\ UNCHANGED vars

\* Mutant: a second start is not refused and the flag counts.
StartCounting ==
  /\ Alive
  /\ mpc = "idle"
  /\ is_listener_started' = is_listener_started + 1
  /\ lpc' = "announce"
  /\ cancelled' = FALSE
  /\ UNCHANGED <<fds, backlog, listenfd, mpc, connfd, xmlfd>>

\* pthread_create; when it fails nothing has changed.
Start ==
  /\ Alive
  /\ mpc = "idle"
  /\ is_listener_started = 0
  /\ is_listener_started' = 1
  /\ lpc' = "announce"
  /\ cancelled' = FALSE
  /\ UNCHANGED <<fds, backlog, listenfd, mpc, connfd, xmlfd>>

\* pthread_cancel.  For a thread that has returned by itself and is not joined
\* it succeeds or fails, depending on the C library; when it fails the command
\* ends there, which changes nothing and is a Refused step.
StopCancel ==
  /\ Alive
  /\ mpc = "idle"
  /\ is_listener_started = 1
  /\ cancelled' = TRUE
  /\ mpc' = "join"
  /\ UNCHANGED <<fds, backlog, is_listener_started, listenfd, lpc, connfd, xmlfd>>

\* Mutant: the socket is not closed.
StopJoinNoClose ==
  /\ mpc = "join"
  /\ lpc = "exited"
  /\ lpc' = "none"
  /\ mpc' = "idle"
  /\ is_listener_started' = 0
  /\ UNCHANGED <<fds, backlog, listenfd, connfd, xmlfd, cancelled>>

\* pthread_join returns, close(listenfd), is_listener_started = 0.
StopJoin ==
  /\ mpc = "join"
  /\ lpc = "exited"
  /\ lpc' = "none"
  /\ mpc' = "idle"
  /\ Closes(listenfd)
  /\ is_listener_started' = 0
  /\ UNCHANGED <<listenfd, connfd, xmlfd, cancelled>>

MonitorNext == Refused \/ Start \/ StopCancel \/ StopJoin

-----------------------------------------------------------------------------
(* The listener thread: listener_service.                                  *)

\* A socket is opened to ask for eth0's address, and never closed.
Announce ==
  /\ lpc = "announce"
  /\ \E fd \in Fds \cup {NoFd} : Opens("ifreq", fd, fds)
  /\ lpc' = "print"
  /\ UNCHANGED <<backlog, is_listener_started, listenfd, mpc, connfd, xmlfd, cancelled>>

\* The address and the prompt go to the monitor.
PrintAddress ==
  /\ lpc = "print"
  /\ lpc' = "socket"
  /\ UNCHANGED <<fds, backlog, is_listener_started, listenfd, mpc, connfd, xmlfd, cancelled>>

MakeSocket ==
  /\ lpc = "socket"
  /\ \E fd \in Fds \cup {NoFd} :
       /\ Opens("socket", fd, fds)
       /\ listenfd' = fd
       /\ lpc' = IF fd = NoFd THEN "exited" ELSE "bind"
  /\ UNCHANGED <<backlog, is_listener_started, mpc, connfd, xmlfd, cancelled>>

\* bind fails when another process has the port; then the thread returns.
Bind ==
  /\ lpc = "bind"
  /\ \/ /\ fds' = [fds EXCEPT ![listenfd] = "listening"]
        /\ lpc' = "accept"
     \/ lpc' = "exited" /\ UNCHANGED fds
  /\ UNCHANGED <<backlog, is_listener_started, listenfd, mpc, connfd, xmlfd, cancelled>>

\* accept; without a free descriptor it fails at once, and the code goes on.
Accept ==
  /\ lpc = "accept"
  /\ ~cancelled
  /\ backlog # <<>>
  /\ \E fd \in Fds \cup {NoFd} :
       /\ Opens(Head(backlog), fd, fds)
       /\ connfd' = fd
       /\ backlog' = IF fd = NoFd THEN backlog ELSE Tail(backlog)
  /\ lpc' = "gen"
  /\ UNCHANGED <<is_listener_started, listenfd, mpc, xmlfd, cancelled>>

\* gen_xml takes its samples, with a sleep between those of the CPUs.
GenXml ==
  /\ lpc = "gen"
  /\ ~cancelled
  /\ lpc' = "save"
  /\ UNCHANGED <<fds, backlog, is_listener_started, listenfd, mpc, connfd, xmlfd, cancelled>>

\* xmlSaveFormatFileEnc opens the file; without a descriptor, or if the file
\* cannot be opened for another reason, it gives -1, the size of "reopen".
SaveXml ==
  /\ lpc = "save"
  /\ \/ \E fd \in Fds \cup {NoFd} :
          /\ Opens("xml", fd, fds)
          /\ xmlfd' = fd
          /\ lpc' = IF fd = NoFd THEN "reopen" ELSE "saving"
     \/ lpc' = "reopen" /\ UNCHANGED <<fds, xmlfd>>
  /\ UNCHANGED <<backlog, is_listener_started, listenfd, mpc, connfd, cancelled>>

\* It writes the document, which may fail, and closes the file.
CloseSaved ==
  /\ lpc = "saving"
  /\ lpc' \in {"open", "reopen"}
  /\ Closes(xmlfd)
  /\ xmlfd' = NoFd
  /\ UNCHANGED <<is_listener_started, listenfd, mpc, connfd, cancelled>>

\* open.  After a failed save the file is there or not.  Without the file, or a
\* descriptor, gen_xml returns NULL, and strlen(NULL) ends the process.
OpenXml ==
  /\ lpc \in {"open", "reopen"}
  /\ ~cancelled
  /\ \/ \E fd \in Fds \cup {NoFd} :
          /\ Opens("xml", fd, fds)
          /\ xmlfd' = fd
          /\ lpc' = CASE fd = NoFd -> "crashed"
                      [] fd # NoFd /\ lpc = "open" -> "read"
                      [] fd # NoFd /\ lpc = "reopen" -> "reread"
     \/ lpc = "reopen" /\ lpc' = "crashed" /\ UNCHANGED <<fds, xmlfd>>
  /\ UNCHANGED <<backlog, is_listener_started, listenfd, mpc, connfd, cancelled>>

\* Mutant: fd is not closed.
ReadXmlLeaking ==
  /\ lpc \in {"read", "reread"}
  /\ ~cancelled
  /\ \/ lpc' = "write"
     \/ lpc = "reread" /\ lpc' = "crashed"
  /\ xmlfd' = NoFd
  /\ UNCHANGED <<fds, backlog, is_listener_started, listenfd, mpc, connfd, cancelled>>

\* read into size + 1 bytes, close(fd).  After a failed save these are no bytes
\* at all, and strlen(buf) runs on behind them.
ReadXml ==
  /\ lpc \in {"read", "reread"}
  /\ ~cancelled
  /\ \/ lpc' = "write"
     \/ lpc = "reread" /\ lpc' = "crashed"
  /\ Closes(xmlfd)
  /\ xmlfd' = NoFd
  /\ UNCHANGED <<is_listener_started, listenfd, mpc, connfd, cancelled>>

\* Mutant: connfd is not closed.
WriteReplyLeaking ==
  /\ lpc = "write"
  /\ ~cancelled
  /\ lpc' = "accept"
  /\ connfd' = NoFd
  /\ UNCHANGED <<fds, backlog, is_listener_started, listenfd, mpc, xmlfd, cancelled>>

\* write, close(connfd), free.
WriteReply ==
  /\ lpc = "write"
  /\ ~cancelled
  /\ lpc' = "accept"
  /\ Closes(connfd)
  /\ connfd' = NoFd
  /\ UNCHANGED <<is_listener_started, listenfd, mpc, xmlfd, cancelled>>

\* Where a pending cancellation may take effect while a client is served.
Serving == {"gen", "save", "saving", "open", "reopen", "read", "reread", "write"}

\* Mutant: accept is no cancellation point.
CancelOnlyBusy ==
  /\ lpc \in {"print"} \cup Serving
  /\ cancelled
  /\ lpc' = "exited"
  /\ connfd' = NoFd
  /\ xmlfd' = NoFd
  /\ UNCHANGED <<fds, backlog, is_listener_started, listenfd, mpc, cancelled>>

\* A pending cancellation takes effect: in accept, in gen_xml's sleep, open or
\* read, or in write, none of which returns with one pending, or in the output
\* to the monitor, which writes only if the monitor's device takes output, or in
\* what libxml does to the file, which may be cancellation points or not.  The
\* thread's local variables are gone, and what they hold stays open.
Cancel ==
  /\ lpc \in {"print", "accept"} \cup Serving
  /\ cancelled
  /\ lpc' = "exited"
  /\ connfd' = NoFd
  /\ xmlfd' = NoFd
  /\ UNCHANGED <<fds, backlog, is_listener_started, listenfd, mpc, cancelled>>

ListenerNext ==
  \/ Announce \/ PrintAddress \/ MakeSocket \/ Bind
  \/ Accept \/ GenXml \/ SaveXml \/ CloseSaved \/ OpenXml \/ ReadXml
  \/ WriteReply \/ Cancel

\* After the crash nothing happens.
Crashed == lpc = "crashed" /\ UNCHANGED vars

-----------------------------------------------------------------------------
Next ==
  \/ QemuOpen \/ QemuClose
  \/ \E c \in Clients : Connect(c)
  \/ MonitorNext
  \/ ListenerNext
  \/ Crashed

\* The host schedules the thread and lets a command that has begun run on;
\* nothing forces commands, clients or the rest of QEMU.
Fairness == WF_vars(ListenerNext) /\ WF_vars(StopJoin)

Spec == Init /\ [][Next]_vars /\ Fairness

-----------------------------------------------------------------------------
(* Properties.                                                             *)

\* Every variable stays in its set.
TypeOK ==
  /\ fds \in [Fds -> Uses]
  /\ backlog \in Seq(Clients) /\ Len(backlog) <= MaxBacklog
  /\ is_listener_started \in {0, 1}
  /\ listenfd \in Fds \cup {NoFd}
  /\ mpc \in {"idle", "join"}
  /\ lpc \in {"none", "announce", "print", "socket", "bind", "accept", "exited",
              "crashed"} \cup Serving
  /\ connfd \in Fds \cup {NoFd}
  /\ xmlfd \in Fds \cup {NoFd}
  /\ cancelled \in BOOLEAN

\* Once the listener is stopped its socket is gone, so that the next start
\* finds the port free, whatever the thread was doing when it was cancelled.
PortFreeAfterStop ==
  is_listener_started = 0 => \A f \in Fds : fds[f] \notin {"socket", "listening"}

\* The running thread owes client c an answer.
Owed(c) ==
  /\ Alive
  /\ \/ \E i \in 1..Len(backlog) : backlog[i] = c
     \/ lpc \in Serving /\ connfd # NoFd /\ fds[connfd] = c

\* A client that has connected gets its answer and sees the connection close,
\* unless the listener is stopped, or QEMU runs out of descriptors, when accept
\* fails time and again or gen_xml takes the process down, or the report cannot
\* be saved, when it may too.
ClientAnswered ==
  \A c \in Clients :
    Owed(c) ~> \/ ~Connected(c)
               \/ cancelled
               \/ \A f \in Fds : fds[f] # "free"
               \/ lpc \in {"reopen", "reread"}

\* Connections and temporary files that are open and that no variable of the
\* thread holds any more.
Stranded ==
  {f \in Fds : fds[f] \in Clients \cup {"xml"} /\ f \notin {connfd, xmlfd}}

\* Serving a client leaves no descriptor open, whichever of accept, the save, the
\* open and the read fails: only a cancellation does.
OnlyStopStrands == [][Stranded' \subseteq Stranded \/ (cancelled /\ lpc' = "exited")]_vars

\* "listen stop" comes back: the thread cannot miss its cancellation.
StopReturns == mpc = "join" ~> (mpc = "idle" \/ ~Alive)

\* "stop the listener": close(listenfd) closes the listener's socket and never
\* a descriptor of another part of QEMU.
ClosesOwnSocket ==
  [][mpc = "join" /\ mpc' = "idle"
       => \A f \in Fds : fds[f] = "qemu" => fds'[f] = "qemu"]_vars

=============================================================================
