----------------------------- MODULE PollServer -----------------------------
(***************************************************************************)
(* The daemon's event loop (eventloop.c), the client connections it serves *)
(* (server.c) and the clients themselves (client.c).                       *)
(*                                                                         *)
(* The poll table is an array: unregistering moves the entries behind down *)
(* and leaves what was in the last slot; registering writes the slot after *)
(* the last one, except for its revents.  Callbacks run one after the      *)
(* other over the results of one ppoll; clients act between any two.       *)
(***************************************************************************)
EXTENDS Integers, Sequences, FiniteSets

CONSTANTS
  Conns,        \* connections clients make
  Pings,        \* those of "mcelog --ping"; the others ask for a dump
  Allowed,      \* those access_check accepts
  MAX_POLLFD,   \* slots of the poll table
  Chunks        \* a dump is sent in at most this many pieces

\* The two descriptors that are no connections.
Listen == "listen"
Mce == "mce"

ASSUME PollServerAssumption ==
  /\ Listen \notin Conns /\ Mce \notin Conns
  /\ Pings \subseteq Conns
  /\ Allowed \subseteq Conns
  /\ MAX_POLLFD \in Nat /\ MAX_POLLFD >= 2
  /\ Chunks \in Nat \ {0}

VARIABLES
  pollfds,      \* pollfds and pollcbs: fd, events and revents of every slot
  max_pollfd,
  k, n,         \* poll_callbacks: next slot, ready slots left; n = 0 in ppoll
  mce,          \* the kernel has machine check records
  backlog,      \* connections waiting for accept
  open,         \* connections the server has open
  inq,          \* bytes of the command the server has not read
  out,          \* pieces of outbuf not sent yet, NoBuf for NULL
  client,       \* what the client of the connection does
  failed        \* an assertion failed

vars == <<pollfds, max_pollfd, k, n, mce, backlog, open, inq, out, client, failed>>

NoBuf == 0 - 1

Empty == [fd |-> Listen, events |-> {}, revents |-> {}]

\* What register_pollcb writes; it leaves revents.
Watched(fd, revents) == [fd |-> fd, events |-> {"IN"}, revents |-> revents]

\* The listening socket is registered by server_setup, /dev/mcelog by main.
Init ==
  /\ pollfds = [i \in 1 .. MAX_POLLFD |->
                  CASE i = 1 -> Watched(Listen, {})
                    [] i = 2 -> Watched(Mce, {})
                    [] OTHER -> Empty]
  /\ max_pollfd = 2
  /\ k = 1 /\ n = 0
  /\ mce = FALSE
  /\ backlog = << >>
  /\ open = {}
  /\ inq = [c \in Conns |-> FALSE]
  /\ out = [c \in Conns |-> NoBuf]
  /\ client = [c \in Conns |-> "idle"]
  /\ failed = FALSE

-----------------------------------------------------------------------------
(* The clients, ask_server *)

\* The client end of the connection is closed.
Gone(c) == client[c] \in {"killed", "done", "refused", "error"}

clientEnd == <<backlog, inq, client>>
server == <<pollfds, max_pollfd, k, n, open, out, failed>>

Connect(c) ==
  /\ client[c] = "idle"
  /\ backlog' = Append(backlog, c)
  /\ client' = [client EXCEPT ![c] = "connected"]
  /\ UNCHANGED <<server, mce, inq>>

Send(c) ==
  /\ client[c] = "connected"
  /\ inq' = [inq EXCEPT ![c] = TRUE]
  /\ client' = [client EXCEPT ![c] = "waiting"]
  /\ UNCHANGED <<server, mce, backlog>>

\* The user interrupts the client.
Kill(c) ==
  /\ client[c] \in {"connected", "waiting", "pong"}
  /\ client' = [client EXCEPT ![c] = "killed"]
  /\ UNCHANGED <<server, mce, backlog, inq>>

\* fgets reads the line "done", or the answer in place of a dump; after
\* "pong" the client goes on reading, which ends only at end of file.
Receive(c) ==
  /\ client[c] \in {"all_sent", "hang_up"}
  /\ client' = [client EXCEPT ![c] =
       IF @ = "hang_up" THEN "error"
       ELSE IF c \in Pings THEN "pong" ELSE "done"]
  /\ UNCHANGED <<server, mce, backlog, inq>>

\* The kernel logs a machine check.
MachineCheck ==
  /\ ~ mce
  /\ mce' = TRUE
  /\ UNCHANGED <<server, clientEnd>>

-----------------------------------------------------------------------------
(* The event loop *)

Ready(e) ==
  CASE e.fd = Listen -> IF backlog # << >> THEN {"IN"} ELSE {}
    [] e.fd = Mce    -> IF mce THEN {"IN"} ELSE {}
    [] OTHER -> (IF inq[e.fd] \/ Gone(e.fd) THEN {"IN"} \cap e.events ELSE {})
                  \cup (e.events \cap {"OUT"})
                  \cup (IF Gone(e.fd) THEN {"HUP"} ELSE {})

Polled == [i \in 1 .. MAX_POLLFD |->
             IF i <= max_pollfd THEN [pollfds[i] EXCEPT !.revents = Ready(pollfds[i])]
                                ELSE pollfds[i]]

CountReady == Cardinality({i \in 1 .. max_pollfd : Ready(pollfds[i]) # {}})

ppoll ==
  /\ n = 0
  /\ CountReady > 0
  /\ pollfds' = Polled
  /\ n' = CountReady
  /\ k' = 1
  /\ UNCHANGED <<max_pollfd, mce, open, out, failed, clientEnd>>

\* The loop of poll_callbacks: the next slot, one callback less, the end.
AdvanceK(left) == IF left > 0 /\ k < max_pollfd' THEN k' = k + 1 /\ n' = left
                                                ELSE k' = 1 /\ n' = 0

SkipSlot ==
  /\ n > 0
  /\ pollfds[k].revents = {}
  /\ UNCHANGED <<pollfds, max_pollfd, mce, open, out, failed, clientEnd>>
  /\ AdvanceK(n)

\* Mutant: revents is not looked at.
At_Always(fd) == n > 0 /\ pollfds[k].fd = fd

\* poll_callbacks is at a slot with this descriptor and it has events.
At(fd) == n > 0 /\ pollfds[k].fd = fd /\ pollfds[k].revents # {}

\* The overflow check of register_pollcb.
HasRoom == max_pollfd < MAX_POLLFD

register_pollcb(c) ==
  /\ pollfds' = [pollfds EXCEPT ![max_pollfd + 1] = Watched(c, @.revents)]
  /\ max_pollfd' = max_pollfd + 1

\* Mutant: the entries behind do not move down.
unregister_pollcb_NoMove(i) ==
  /\ max_pollfd' = max_pollfd - 1
  /\ UNCHANGED pollfds

unregister_pollcb(i) ==
  /\ pollfds' = [j \in 1 .. MAX_POLLFD |->
                   IF j >= i /\ j < max_pollfd THEN pollfds[j + 1] ELSE pollfds[j]]
  /\ max_pollfd' = max_pollfd - 1

-----------------------------------------------------------------------------
(* The callbacks *)

\* Mutant: always wait for input.
NextEvents_Input(buf) == {"IN"}

\* pfd->events at the end of client_event.
NextEvents(buf) == IF buf = NoBuf THEN {"IN"} ELSE {"OUT"}

\* Mutant: process() always returns as after an error of read().
process_mcefd_Unread ==
  /\ At(Mce)
  /\ failed' = (failed \/ "IN" \notin pollfds[k].revents)
  /\ UNCHANGED <<pollfds, max_pollfd, open, out, mce, clientEnd>>
  /\ AdvanceK(n - 1)

\* read() returns an error: process() says so and returns.
ReadError ==
  /\ At(Mce)
  /\ failed' = (failed \/ "IN" \notin pollfds[k].revents)
  /\ UNCHANGED <<pollfds, max_pollfd, open, out, mce, clientEnd>>
  /\ AdvanceK(n - 1)

process_mcefd ==
  /\ At(Mce)
  /\ failed' = (failed \/ "IN" \notin pollfds[k].revents)
  /\ mce' = FALSE
  /\ UNCHANGED <<pollfds, max_pollfd, open, out, clientEnd>>
  /\ AdvanceK(n - 1)

\* A client sees the end of file once it has read what was sent.
HangUp(c) ==
  client' = [client EXCEPT ![c] =
    IF Gone(c) \/ (@ = "all_sent" /\ c \notin Pings) THEN @ ELSE "hang_up"]

client_accept ==
  /\ At(Listen)
  /\ backlog # << >>
  /\ backlog' = Tail(backlog)
  /\ IF HasRoom
       THEN /\ register_pollcb(Head(backlog))
            /\ open' = open \cup {Head(backlog)}
            /\ UNCHANGED client
       ELSE \* "mcelog server too busy"
            /\ client' = [client EXCEPT ![Head(backlog)] =
                            IF Gone(Head(backlog)) THEN @ ELSE "refused"]
            /\ UNCHANGED <<pollfds, max_pollfd, open>>
  /\ UNCHANGED <<mce, inq, out, failed>>
  /\ AdvanceK(n - 1)

\* The error exit of client_event.
CloseClient(c) ==
  /\ unregister_pollcb(k)
  /\ open' = open \ {c}
  /\ out' = [out EXCEPT ![c] = NoBuf]
  /\ inq' = [inq EXCEPT ![c] = FALSE]
  /\ failed' = (failed \/ k > max_pollfd)

\* POLLHUP or POLLERR, whatever else is set.
ClientHangup(c) ==
  /\ At(c)
  /\ "HUP" \in pollfds[k].revents
  /\ CloseClient(c)
  /\ HangUp(c)
  /\ UNCHANGED <<mce, backlog>>
  /\ AdvanceK(n - 1)

\* send of some of outbuf; the peer may have closed since ppoll.
ClientOutput(c) ==
  /\ At(c)
  /\ pollfds[k].revents \cap {"HUP", "OUT"} = {"OUT"}
  /\ "IN" \notin pollfds[k].revents
  /\ IF Gone(c) /\ out[c] > 0
       THEN CloseClient(c) /\ UNCHANGED client
       ELSE /\ \E left \in 0 .. Chunks :
                 /\ left = 0 \/ left < out[c]
                 /\ out' = [out EXCEPT ![c] = IF left = 0 THEN NoBuf ELSE left]
                 /\ pollfds' = [pollfds EXCEPT ![k].events = NextEvents(out'[c])]
                 /\ client' = [client EXCEPT ![c] =
                      IF left = 0 /\ out[c] > 0 /\ @ = "waiting" THEN "all_sent" ELSE @]
            /\ UNCHANGED <<max_pollfd, open, inq, failed>>
  /\ UNCHANGED <<mce, backlog>>
  /\ AdvanceK(n - 1)

\* client_input, process_cmd.  Without input the answer is empty.
ClientInput(c) ==
  /\ At(c)
  /\ pollfds[k].revents = {"IN"}
  /\ IF inq[c] /\ c \notin Allowed
       THEN \* "permission denied"
            /\ CloseClient(c)
            /\ client' = [client EXCEPT ![c] = IF Gone(c) THEN @ ELSE "refused"]
       ELSE /\ failed' = (failed \/ out[c] # NoBuf)
            /\ out' = [out EXCEPT ![c] = IF inq[c] THEN Chunks ELSE 0]
            /\ inq' = [inq EXCEPT ![c] = FALSE]
            /\ pollfds' = [pollfds EXCEPT ![k].events = NextEvents(out'[c])]
            /\ UNCHANGED <<max_pollfd, open, client>>
  /\ UNCHANGED <<mce, backlog>>
  /\ AdvanceK(n - 1)

Callback ==
  \/ process_mcefd \/ ReadError
  \/ client_accept
  \/ \E c \in Conns : ClientHangup(c) \/ ClientOutput(c) \/ ClientInput(c)

ServerStep == ppoll \/ SkipSlot \/ Callback

Next ==
  \/ \E c \in Conns : Connect(c) \/ Send(c) \/ Kill(c) \/ Receive(c)
  \/ MachineCheck
  \/ ServerStep

\* The daemon goes on, read() of the device does not fail every time, and a
\* client reads what it was sent.
Fairness ==
  /\ WF_vars(ServerStep)
  /\ SF_vars(process_mcefd)
  /\ \A c \in Conns : WF_vars(Receive(c))

Spec == Init /\ [][Next]_vars

FairSpec == Spec /\ Fairness

-----------------------------------------------------------------------------
TypeOK ==
  /\ pollfds \in [1 .. MAX_POLLFD -> [fd: Conns \cup {Listen, Mce},
                                     events: SUBSET {"IN", "OUT"},
                                     revents: SUBSET {"IN", "OUT", "HUP"}]]
  /\ max_pollfd \in 2 .. MAX_POLLFD
  /\ n \in 0 .. MAX_POLLFD /\ k \in 1 .. MAX_POLLFD
  /\ mce \in BOOLEAN /\ failed \in BOOLEAN
  /\ backlog \in Seq(Conns)
  /\ open \subseteq Conns
  /\ inq \in [Conns -> BOOLEAN]
  /\ out \in [Conns -> NoBuf .. Chunks]
  /\ client \in [Conns -> {"idle", "connected", "waiting", "all_sent", "pong",
                          "hang_up", "killed", "done", "refused", "error"}]

(* The assertions of process_mcefd (POLLIN is set), process_cmd (no answer
   is pending when a command is read) and unregister_pollcb hold, although
   callbacks move the slots of the table they are called from.             *)
NoAssertionFails == ~ failed

(* Each open connection has exactly one slot of the poll table, and behind
   the two fixed ones there is nothing else: no connection is leaked, polled
   after its clientcon was freed, or served twice.                         *)
TableMatchesOpen ==
  /\ pollfds[1].fd = Listen /\ pollfds[2].fd = Mce
  /\ {pollfds[i].fd : i \in 3 .. max_pollfd} = open
  /\ Cardinality(open) = max_pollfd - 2

(* A connection is polled for output exactly while it has an answer to send,
   else for input: it never waits for the wrong side.                      *)
PolledForRightEvent ==
  \A i \in 3 .. max_pollfd :
    pollfds[i].events = (IF out[pollfds[i].fd] = NoBuf THEN {"IN"} ELSE {"OUT"})

(* The poll table describes the connections, while register_pollcb and
   unregister_pollcb change it under poll_callbacks: which ones are open, and
   what each of them waits for.                                            *)
TableIsRight == TypeOK /\ TableMatchesOpen /\ PolledForRightEvent

(* Machine checks are processed, whatever clients do, although an error of
   read() puts them off to a later round of the event loop.                *)
MceProcessed == mce ~> ~ mce

(* A client that asked gets an answer, is refused or is closed, although
   poll_callbacks can pass over a slot that moved down.                    *)
Answered == \A c \in Conns : client[c] = "waiting" ~> client[c] # "waiting"

(* "error/close" (client_event): the daemon hangs up on a client only after
   an error, or when the client has closed.                                *)
OnlyClosedClientsDropped == \A c \in Conns : client[c] # "hang_up"
=============================================================================
