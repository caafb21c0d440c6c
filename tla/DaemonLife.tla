----------------------------- MODULE DaemonLife -----------------------------
(***************************************************************************)
(* The life of mcelog daemons that share one socket path and one pid file: *)
(* main() of mcelog.c from server_setup to the event loop, the ping that   *)
(* server.c sends to a server that may still be there, and the ways a      *)
(* daemon ends.  A daemon is one process here, although daemon() forks it. *)
(*                                                                         *)
(* What is on the file system is the work of any process: path is the      *)
(* daemon whose socket the file was bound by (a file outlives it), pidfile *)
(* the daemon whose pid was written last.                                  *)
(***************************************************************************)
EXTENDS Naturals, FiniteSets

CONSTANTS
  Daemons,        \* each is started at most once: a restart is another one
  Unprivileged,   \* those that run-credentials-user keeps from the directory
  Patient,        \* those with initial-ping-timeout = 0: no limit for the ping
  NoFile,         \* nothing at a path
  Gone            \* a daemon of an earlier time, killed without cleaning up

ASSUME DaemonLifeAssumption ==
  /\ Unprivileged \subseteq Daemons /\ Patient \subseteq Daemons
  /\ NoFile \notin Daemons /\ Gone \notin Daemons /\ NoFile # Gone

VARIABLES
  pc,        \* where each daemon is
  sock,      \* its server socket: none, bound, or listening
  path,      \* the file at socket-path
  pidfile,   \* the file at pidfile
  peer,      \* who the ping of a daemon is connected to
  ping,      \* the result of server_ping: TRUE for 0, a server is running
  armed,     \* alarm(initial_ping_timeout) is pending
  upsets,    \* history: what happened that server_setup does not expect
  overlap,   \* history: a file was pinged while another daemon made its own
  met        \* history: another daemon was alive while this one set up its server

vars == <<pc, sock, path, pidfile, peer, ping, armed, upsets, overlap, met>>

\* Inside server_ping; between access() and unlink(); from there to listen().
InPing  == {"connect", "write", "read", "restored"}
Pinging == InPing \cup {"unlink"}
Making  == {"socket", "bind", "listen"}
Setup   == {"access"} \cup Pinging \cup Making
\* yielded: exit(1) because of another; stopped: by signal_exit; the others
\* clean up less (--num-errors) or nothing.
Ended   == {"off", "yielded", "stopped", "finished", "killed"}
Points  == Setup \cup Ended \cup {"setup_done", "handlers", "loop", "exiting"}

Alive(p)   == pc[p] \notin Ended
Serving(p) == p \in Daemons /\ Alive(p) /\ sock[p] = "listening"

Init ==
  /\ pc = [p \in Daemons |-> "off"]
  /\ sock = [p \in Daemons |-> "none"]
  /\ path \in {NoFile, Gone}
  /\ pidfile = path
  /\ peer = [p \in Daemons |-> NoFile]
  /\ ping = [p \in Daemons |-> FALSE]
  /\ armed = [p \in Daemons |-> FALSE]
  /\ upsets = {}
  /\ overlap = FALSE
  /\ met = [p \in Daemons |-> FALSE]

Goto(p, from, to) == pc[p] = from /\ pc' = [pc EXCEPT ![p] = to]
files == <<path, pidfile>>
pinged == <<peer, ping, armed>>

\* alarm(0) and the end of server_ping's locals, or of the process.
Forget(p) ==
  /\ armed' = [armed EXCEPT ![p] = FALSE]
  /\ peer' = [peer EXCEPT ![p] = NoFile]
  /\ ping' = [ping EXCEPT ![p] = FALSE]

-----------------------------------------------------------------------------
(* server_ping: is the server of the socket file still running? *)

\* alarm(), which sets none for a timeout of 0, and connect(): refused by a
\* file nobody listens on.  A connect() that waits for room in the backlog is
\* part of "write".
PingConnect(p) ==
  /\ armed' = [armed EXCEPT ![p] = p \notin Patient]
  /\ \/ Serving(path) /\ Goto(p, "connect", "write")
        /\ peer' = [peer EXCEPT ![p] = path]
     \/ ~ Serving(path) /\ Goto(p, "connect", "restored") /\ UNCHANGED peer
  /\ UNCHANGED <<sock, files, ping, upsets>>

\* write() of "ping\n".  Nothing catches SIGPIPE: the peer's end is this one's.
PingWrite(p) ==
  /\ \/ Goto(p, "write", "read") /\ Alive(peer[p]) /\ UNCHANGED pinged
     \/ Goto(p, "write", "killed") /\ ~ Alive(peer[p]) /\ Forget(p)
  /\ UNCHANGED <<sock, files, upsets>>

\* read(): the event loop of the peer answers, or it has no room for another
\* connection ("mcelog server too busy") or hangs up ...
PingAnswer(p) ==
  /\ Goto(p, "read", "restored")
  /\ pc[peer[p]] = "loop"
  /\ \/ ping' = [ping EXCEPT ![p] = TRUE] /\ UNCHANGED upsets
     \/ upsets' = upsets \cup {"unanswered"} /\ UNCHANGED ping
  /\ UNCHANGED <<sock, files, peer, armed>>

\* ... or the peer has ended.
PingRead(p) ==
  /\ Goto(p, "read", "restored")
  /\ ~ Alive(peer[p])
  /\ UNCHANGED <<sock, files, pinged, upsets>>

\* Mutant: the handler does not leave the read.
PingTimeout_NoJump(p) ==
  /\ pc[p] \in {"write", "read"}
  /\ armed[p]
  /\ armed' = [armed EXCEPT ![p] = FALSE]
  /\ upsets' = upsets \cup {"unanswered"}
  /\ UNCHANGED <<pc, sock, files, peer, ping>>

\* SIGALRM before the answer: ping_timeout jumps out of the blocked call.
PingTimeout(p) ==
  /\ armed[p]
  /\ pc[p] \in {"write", "read"}
  /\ Goto(p, pc[p], "restored")
  /\ armed' = [armed EXCEPT ![p] = FALSE]
  /\ upsets' = upsets \cup {"unanswered"}
  /\ UNCHANGED <<sock, files, peer, ping>>

\* cleanup: the old disposition of SIGALRM is back before alarm(0).
AlarmKills(p) ==
  /\ armed[p]
  /\ Goto(p, "restored", "killed")
  /\ Forget(p)
  /\ UNCHANGED <<sock, files, upsets>>

\* Mutant: the result is tested the wrong way round.
PingReturn_Swapped(p) ==
  /\ Goto(p, "restored", IF ping[p] THEN "unlink" ELSE "yielded")
  /\ Forget(p)
  /\ UNCHANGED <<sock, files, upsets>>

\* alarm(0), and "mcelog server already running" with exit(1).
PingReturn(p) ==
  /\ Goto(p, "restored", IF ping[p] THEN "yielded" ELSE "unlink")
  /\ Forget(p)
  /\ UNCHANGED <<sock, files, upsets>>

\* No descriptor for the ping's socket: server_ping returns 0 all the same.
PingNoSocket(p) ==
  /\ Goto(p, "connect", "yielded")
  /\ upsets' = upsets \cup {"socket"}
  /\ UNCHANGED <<sock, files, pinged>>

-----------------------------------------------------------------------------
(* server_setup and the rest of main() *)

Start(p) ==
  /\ Goto(p, "off", "access")
  /\ UNCHANGED <<sock, files, pinged, upsets>>

AccessPath(p) ==
  /\ Goto(p, "access", IF path = NoFile THEN "socket" ELSE "connect")
  /\ UNCHANGED <<sock, files, pinged, upsets>>

\* Mutant: the stale file is left for bind().
UnlinkPath_Kept(p) ==
  /\ Goto(p, "unlink", "socket")
  /\ UNCHANGED <<sock, files, pinged, upsets>>

\* A failure of unlink() is not looked at.
UnlinkPath(p) ==
  /\ Goto(p, "unlink", "socket")
  /\ \/ path' = NoFile /\ UNCHANGED upsets
     \/ upsets' = upsets \cup {"unlink"} /\ UNCHANGED path
  /\ UNCHANGED <<sock, pidfile, pinged>>

\* Without a descriptor the daemon goes on without a server.
OpenSocket(p) ==
  /\ \/ Goto(p, "socket", "bind") /\ UNCHANGED upsets
     \/ Goto(p, "socket", "setup_done") /\ upsets' = upsets \cup {"socket"}
  /\ UNCHANGED <<sock, files, pinged>>

\* bind() creates the file or fails with EADDRINUSE, which ends the program.
Bind(p) ==
  /\ \/ /\ path = NoFile
        /\ Goto(p, "bind", "listen")
        /\ path' = p
        /\ sock' = [sock EXCEPT ![p] = "bound"]
     \/ /\ path # NoFile
        /\ Goto(p, "bind", "yielded")
        /\ UNCHANGED <<path, sock>>
  /\ UNCHANGED <<pidfile, pinged, upsets>>

\* A listen() that fails ends the program and leaves the file.
Listen(p) ==
  /\ \/ Goto(p, "listen", "setup_done")
        /\ sock' = [sock EXCEPT ![p] = "listening"]
        /\ UNCHANGED upsets
     \/ Goto(p, "listen", "yielded")
        /\ upsets' = upsets \cup {"socket"}
        /\ UNCHANGED sock
  /\ UNCHANGED <<files, pinged>>

\* page_setup, drop_cred, register_pollcb of the device, daemon(), and the
\* first half of write_pidfile: atexit() and the handlers of SIGTERM and others.
Daemonize(p) ==
  /\ Goto(p, "setup_done", "handlers")
  /\ UNCHANGED <<sock, files, pinged, upsets>>

\* The second half: the file.
WritePid(p) ==
  /\ Goto(p, "handlers", "loop")
  /\ pidfile' = IF p \in Unprivileged THEN pidfile ELSE p
  /\ UNCHANGED <<sock, path, pinged, upsets>>

-----------------------------------------------------------------------------
(* How a daemon ends *)

\* unlink() as p: it does not ask whose file it is.
Unlinked(p, file) == IF p \in Unprivileged THEN file ELSE NoFile

\* SIGKILL or a crash anywhere, SIGTERM before there is a handler.
Die(p) ==
  /\ Alive(p)
  /\ pc' = [pc EXCEPT ![p] = "killed"]
  /\ Forget(p)
  /\ UNCHANGED <<sock, files, upsets>>

\* signal_exit: remove_pidfile ...
SignalExit(p) ==
  /\ pc[p] \in {"handlers", "loop"}
  /\ Goto(p, pc[p], "exiting")
  /\ pidfile' = Unlinked(p, pidfile)
  /\ UNCHANGED <<sock, path, pinged, upsets>>

\* ... and client_cleanup, then _exit.
ClientCleanup(p) ==
  /\ Goto(p, "exiting", "stopped")
  /\ path' = Unlinked(p, path)
  /\ UNCHANGED <<sock, pidfile, pinged, upsets>>

\* exit(0) of process() after --num-errors: only atexit's remove_pidfile.
NumErrorsExit(p) ==
  /\ Goto(p, "loop", "finished")
  /\ pidfile' = Unlinked(p, pidfile)
  /\ UNCHANGED <<sock, path, pinged, upsets>>

-----------------------------------------------------------------------------
\* What a daemon does by itself, and what others do to it.
Own(p) ==
  \/ PingConnect(p) \/ PingWrite(p) \/ PingRead(p) \/ PingTimeout(p)
  \/ PingReturn(p)
  \/ AccessPath(p) \/ UnlinkPath(p) \/ OpenSocket(p) \/ Bind(p) \/ Listen(p)
  \/ Daemonize(p) \/ WritePid(p) \/ ClientCleanup(p)

Happens(p) ==
  \/ Start(p) \/ PingAnswer(p) \/ PingNoSocket(p) \/ AlarmKills(p)
  \/ Die(p) \/ SignalExit(p) \/ NumErrorsExit(p)

\* Two daemons at once in server_setup, one of them past access() of a file.
Overlap ==
  \E p, q \in Daemons : p # q /\ pc[p] \in Pinging /\ pc[q] \in Pinging \cup Making

Remember ==
  /\ overlap' = (overlap \/ Overlap')
  /\ met' = [p \in Daemons |->
               \/ pc'[p] \in Setup /\ (met[p] \/ \E q \in Daemons \ {p} : Alive(q)')
               \/ pc'[p] = "yielded" /\ met[p]]

Next == \E p \in Daemons : (Own(p) \/ Happens(p)) /\ Remember

\* A process goes on, and the alarm it has set rings.  Nothing is assumed of a peer, which
\* may be stopped or busy for ever and never answer.
Spec == Init /\ [][Next]_vars /\ \A p \in Daemons : WF_vars(Own(p) /\ Remember)

-----------------------------------------------------------------------------
\* The alarm is pending only within server_ping, and not after its alarm(0);
\* in "restored" it still may be, without its handler (AlarmKills).
TypeOK ==
  /\ pc \in [Daemons -> Points]
  /\ sock \in [Daemons -> {"none", "bound", "listening"}]
  /\ path \in Daemons \cup {NoFile, Gone}
  /\ pidfile \in Daemons \cup {NoFile, Gone}
  /\ peer \in [Daemons -> Daemons \cup {NoFile}]
  /\ ping \in [Daemons -> BOOLEAN]
  /\ armed \in [Daemons -> BOOLEAN]
  /\ \A p \in Daemons : armed[p] => pc[p] \in InPing
  /\ upsets \subseteq {"unanswered", "socket", "unlink"}
  /\ overlap \in BOOLEAN
  /\ met \in [Daemons -> BOOLEAN]

Quiet == upsets = {} /\ ~ overlap

(* As long as no ping was left unanswered and no two daemons set up their
   servers around the same old file, whoever serves can be reached: neither a
   second daemon that is started (and finds the first, or loses the race of
   bind() on an empty path) nor one that ends, in whatever way, takes the
   socket file of a daemon that listens.  server_setup and client_cleanup
   unlink the path without knowing whose it is.                            *)
ServerKept ==
  Quiet => \A p \in Daemons : (Serving(p) /\ pc[p] # "exiting") => path = p

(* Under the same condition the pid file names the daemon that runs, which is
   how logrotate finds it: a daemon that gives up or ends before it could
   write its own leaves it alone.                                          *)
PidFileKept ==
  Quiet => \A p \in Daemons \ Unprivileged : pc[p] = "loop" => pidfile = p

(* The files that lead to the running daemon are its own (TypeOK adds that
   the alarm of the ping never stays behind server_ping, where SIGALRM would
   end the daemon later; within it, between the two last calls of its
   cleanup, the code does leave such a moment: AlarmKills).                *)
FilesKept == TypeOK /\ ServerKept /\ PidFileKept

(* A daemon gives its start up ("already running", or EADDRINUSE) only when
   another one really was alive in the meantime: a socket file that a killed
   daemon left never keeps mcelog from starting.  Two failures of the system
   are excepted: without a descriptor for the ping server_ping returns 0, as
   if it had been answered, and an unlink() that fails leaves the old file
   for bind().                                                             *)
YieldsOnlyToLive ==
  \A p \in Daemons :
    (pc[p] = "yielded" /\ upsets \cap {"socket", "unlink"} = {}) => met[p]

(* A start comes to an end, in the event loop or with the end of the process,
   even when the server it pings is stopped or hangs: the alarm ends the
   ping.  With initial-ping-timeout = 0 there is no alarm, and such a server
   holds the start up for ever.                                            *)
StartEnds ==
  \A p \in Daemons \ Patient :
    (pc[p] = "access") ~> (pc[p] = "loop" \/ pc[p] \in Ended)
=============================================================================
