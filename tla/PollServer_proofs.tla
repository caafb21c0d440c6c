-------------------------- MODULE PollServer_proofs --------------------------
(***************************************************************************)
(* Proofs about PollServer: the poll table describes the connections and   *)
(* no assertion of the event loop fails, for any number of clients, any    *)
(* size of the table and any length of an answer.                          *)
(***************************************************************************)
EXTENDS PollServer, FiniteSetTheorems, SequenceTheorems, TLAPS

(* A connection has one slot at most.                                      *)
SlotsUnique ==
  \A i, j \in 3 .. max_pollfd : pollfds[i].fd = pollfds[j].fd => i = j

(* What a connection went through: nothing waits for one that is not open,
   and one that waits for accept() is not open, and waits only once.       *)
ConnsOnce ==
  /\ \A c \in Conns : c \notin open => out[c] = NoBuf
  /\ \A c \in open : client[c] # "idle"
  /\ \A i \in 1 .. Len(backlog) : client[backlog[i]] # "idle" /\ backlog[i] \notin open
  /\ \A i, j \in 1 .. Len(backlog) : backlog[i] = backlog[j] => i = j

(* The results of ppoll that poll_callbacks has not come to yet: the fixed
   slots are only ever readable, and a slot that is still to be visited is
   readable only while no answer is pending, although connections move down
   and a new one inherits the revents of an old one.                       *)
ResultsFresh ==
  /\ pollfds[1].revents \subseteq {"IN"} /\ pollfds[2].revents \subseteq {"IN"}
  /\ n > 0 => k <= max_pollfd
  /\ n > 0 => \A i \in 3 .. max_pollfd :
                i >= k /\ "IN" \in pollfds[i].revents => out[pollfds[i].fd] = NoBuf

(* The inductive invariant.                                                *)
IInv ==
  /\ TableIsRight
  /\ NoAssertionFails
  /\ IsFiniteSet(open)
  /\ SlotsUnique
  /\ ConnsOnce
  /\ ResultsFresh

(* A slot of the table.                                                    *)
Slot == [fd: Conns \cup {Listen, Mce}, events: SUBSET {"IN", "OUT"},
         revents: SUBSET {"IN", "OUT", "HUP"}]

(* The loop of poll_callbacks stays within the table.                      *)
LEMMA AdvanceStays ==
  ASSUME NEW left \in 0 .. MAX_POLLFD, AdvanceK(left), k \in 1 .. MAX_POLLFD,
         max_pollfd' \in 2 .. MAX_POLLFD
  PROVE  /\ n' \in 0 .. MAX_POLLFD /\ k' \in 1 .. MAX_POLLFD
         /\ n' > 0 => k' <= max_pollfd' /\ k' = k + 1
BY PollServerAssumption DEF AdvanceK

(* ppoll counts no more slots than there are.                              *)
LEMMA CountBounded ==
  ASSUME NEW max \in 0 .. MAX_POLLFD, NEW S, S \subseteq 1 .. max
  PROVE  Cardinality(S) \in 0 .. MAX_POLLFD
<1>1. IsFiniteSet(1 .. max) /\ Cardinality(1 .. max) = max
  BY FS_Interval
<1>2. IsFiniteSet(S) /\ Cardinality(S) <= Cardinality(1 .. max)
  BY <1>1, FS_Subset
<1>3. Cardinality(S) \in Nat
  BY <1>2, FS_CardinalityType
<1> QED
  BY <1>1, <1>2, <1>3, PollServerAssumption

(* The invariant holds before the first ppoll.                             *)
LEMMA InitIInv == ASSUME Init PROVE IInv
<1>0. /\ pollfds = [i \in 1 .. MAX_POLLFD |->
                      IF i = 1 THEN [fd |-> Listen, events |-> {"IN"}, revents |-> {}]
                      ELSE IF i = 2 THEN [fd |-> Mce, events |-> {"IN"}, revents |-> {}]
                      ELSE [fd |-> Listen, events |-> {}, revents |-> {}]]
      /\ max_pollfd = 2 /\ k = 1 /\ n = 0 /\ mce = FALSE /\ backlog = << >> /\ open = {}
      /\ inq = [c \in Conns |-> FALSE] /\ out = [c \in Conns |-> NoBuf]
      /\ client = [c \in Conns |-> "idle"] /\ failed = FALSE
  <2>2. pollfds = [i \in 1 .. MAX_POLLFD |->
                      IF i = 1 THEN [fd |-> Listen, events |-> {"IN"}, revents |-> {}]
                      ELSE IF i = 2 THEN [fd |-> Mce, events |-> {"IN"}, revents |-> {}]
                      ELSE [fd |-> Listen, events |-> {}, revents |-> {}]]
    BY DEF Init, Empty, Watched
  <2> QED
    BY <2>2 DEF Init
<1> USE <1>0, PollServerAssumption
<1>1. IsFiniteSet(open) /\ Cardinality(open) = 0
  BY FS_EmptySet
<1>2. /\ pollfds[1] = [fd |-> Listen, events |-> {"IN"}, revents |-> {}]
      /\ pollfds[2] = [fd |-> Mce, events |-> {"IN"}, revents |-> {}]
  <2>1. 1 \in 1 .. MAX_POLLFD /\ 2 \in 1 .. MAX_POLLFD
    OBVIOUS
  <2> QED
    BY <2>1
<1>3. TypeOK
  <2>1. pollfds \in [1 .. MAX_POLLFD -> Slot]
    BY DEF Slot
  <2>2. max_pollfd \in 2 .. MAX_POLLFD /\ n \in 0 .. MAX_POLLFD /\ k \in 1 .. MAX_POLLFD
    OBVIOUS
  <2>3. backlog \in Seq(Conns) /\ open \subseteq Conns
    OBVIOUS
  <2>4. NoBuf \in NoBuf .. Chunks
    BY DEF NoBuf
  <2>5. /\ inq \in [Conns -> BOOLEAN] /\ out \in [Conns -> NoBuf .. Chunks]
        /\ client \in [Conns -> {"idle", "connected", "waiting", "all_sent", "pong",
                                 "hang_up", "killed", "done", "refused", "error"}]
    BY <2>4
  <2> QED
    BY <2>1, <2>2, <2>3, <2>5 DEF TypeOK, Slot
<1>4. max_pollfd = 2 /\ 3 .. max_pollfd = {}
  OBVIOUS
<1>5. TableMatchesOpen
  BY <1>1, <1>2, <1>4 DEF TableMatchesOpen
<1>6. PolledForRightEvent /\ SlotsUnique
  BY <1>4 DEF PolledForRightEvent, SlotsUnique
<1>7. ConnsOnce
  BY DEF ConnsOnce
<1>8. ResultsFresh
  BY <1>2 DEF ResultsFresh
<1> QED
  BY <1>1, <1>3, <1>5, <1>6, <1>7, <1>8 DEF IInv, TableIsRight, NoAssertionFails

(* What the clients do changes nothing of the table; a client that connects
   is in the backlog for the first time.                                   *)
LEMMA ClientsKeepIInv ==
  ASSUME IInv, NEW c \in Conns, Connect(c) \/ Send(c) \/ Kill(c) \/ Receive(c)
  PROVE  IInv'
<1> USE DEF server
<1>1. TypeOK'
  <2> USE DEF TypeOK
  <2>0. TypeOK
    BY DEF IInv, TableIsRight
  <2>1. CASE Connect(c)
    BY <2>0, <2>1 DEF Connect
  <2>2. CASE Send(c)
    BY <2>0, <2>2 DEF Send
  <2>3. CASE Kill(c)
    BY <2>0, <2>3 DEF Kill
  <2>4. CASE Receive(c)
    BY <2>0, <2>4 DEF Receive
  <2> QED
    BY <2>1, <2>2, <2>3, <2>4
<1>2. UNCHANGED server
  BY DEF Connect, Send, Kill, Receive
<1>3. /\ TableMatchesOpen' /\ PolledForRightEvent' /\ NoAssertionFails'
      /\ IsFiniteSet(open)' /\ SlotsUnique' /\ ResultsFresh'
  BY <1>2 DEF IInv, TableIsRight, TableMatchesOpen, PolledForRightEvent, NoAssertionFails,
              SlotsUnique, ResultsFresh
<1>4. ConnsOnce'
  <2> USE DEF IInv, TableIsRight, TypeOK, ConnsOnce
  <2>1. CASE Connect(c)
    <3>1. /\ backlog \in Seq(Conns) /\ backlog' = Append(backlog, c)
          /\ client' = [client EXCEPT ![c] = "connected"] /\ client[c] = "idle"
      BY <2>1 DEF Connect
    <3>2. \A i \in 1 .. Len(backlog) : backlog[i] # c
      BY <3>1
    <3>3. /\ Len(backlog') = Len(backlog) + 1
          /\ \A i \in 1 .. Len(backlog) : backlog'[i] = backlog[i]
          /\ backlog'[Len(backlog) + 1] = c
      BY <3>1
    <3>4. c \notin open
      BY <3>1
    <3> QED
      BY <1>2, <3>1, <3>2, <3>3, <3>4
  <2>2. CASE Send(c)
    BY <1>2, <2>2 DEF Send
  <2>3. CASE Kill(c)
    BY <1>2, <2>3 DEF Kill
  <2>4. CASE Receive(c)
    BY <1>2, <2>4 DEF Receive
  <2> QED
    BY <2>1, <2>2, <2>3, <2>4
<1> QED
  BY <1>1, <1>3, <1>4 DEF IInv, TableIsRight

(* A machine check is in no one's way.                                     *)
LEMMA MachineCheckKeepsIInv == ASSUME IInv, MachineCheck PROVE IInv'
<1>1. UNCHANGED <<server, clientEnd>> /\ mce' = TRUE
  BY DEF MachineCheck
<1>2. TypeOK'
  BY <1>1 DEF IInv, TableIsRight, TypeOK, server, clientEnd
<1> QED
  BY <1>1, <1>2 DEF IInv, TableIsRight, TableMatchesOpen, PolledForRightEvent, NoAssertionFails,
                    SlotsUnique, ConnsOnce, ResultsFresh, server, clientEnd

(* What the invariant says of a slot.                                      *)
LEMMA SlotFacts ==
  ASSUME IInv, NEW i \in 1 .. max_pollfd
  PROVE  /\ i \in 1 .. MAX_POLLFD /\ pollfds[i] \in Slot
         /\ i >= 3 => pollfds[i].fd \in open /\ pollfds[i].fd \in Conns
         /\ pollfds[i].fd = Listen => i = 1
         /\ pollfds[i].fd = Mce => i = 2
         /\ pollfds[i].fd \in Conns => i >= 3
<1>1. max_pollfd \in 2 .. MAX_POLLFD /\ pollfds \in [1 .. MAX_POLLFD -> Slot] /\ open \subseteq Conns
  BY DEF IInv, TableIsRight, TypeOK, Slot
<1>2. i \in 1 .. MAX_POLLFD /\ pollfds[i] \in Slot
  BY <1>1, PollServerAssumption
<1>3. ASSUME i >= 3 PROVE pollfds[i].fd \in open
  <2>1. i \in 3 .. max_pollfd
    BY <1>1, <1>3, PollServerAssumption
  <2> QED
    BY <2>1 DEF IInv, TableIsRight, TableMatchesOpen
<1>4. i = 1 \/ i = 2 \/ i >= 3
  BY <1>2
<1>5. pollfds[1].fd = Listen /\ pollfds[2].fd = Mce /\ Listen # Mce
  BY DEF IInv, TableIsRight, TableMatchesOpen, Listen, Mce
<1> QED
  BY <1>1, <1>2, <1>3, <1>4, <1>5, PollServerAssumption

(* ppoll reports a connection readable only if it was polled for input, and
   the fixed descriptors never for anything but input.                     *)
LEMMA PpollKeepsIInv == ASSUME IInv, ppoll PROVE IInv'
<1>0. /\ max_pollfd \in 2 .. MAX_POLLFD /\ pollfds \in [1 .. MAX_POLLFD -> Slot]
      /\ open \subseteq Conns
  BY DEF IInv, TableIsRight, TypeOK, Slot
<1>1. UNCHANGED <<max_pollfd, mce, open, out, failed, backlog, inq, client>>
  BY DEF ppoll, clientEnd
<1>2. \A e \in Slot : Ready(e) \in SUBSET {"IN", "OUT", "HUP"}
  BY DEF Ready, Slot
<1>3. /\ pollfds' \in [1 .. MAX_POLLFD -> Slot]
      /\ \A i \in 1 .. MAX_POLLFD :
            pollfds'[i].fd = pollfds[i].fd /\ pollfds'[i].events = pollfds[i].events
      /\ \A i \in 1 .. max_pollfd : pollfds'[i].revents = Ready(pollfds[i])
  <2>1. pollfds' = [i \in 1 .. MAX_POLLFD |->
             IF i <= max_pollfd THEN [pollfds[i] EXCEPT !.revents = Ready(pollfds[i])]
                                ELSE pollfds[i]]
    BY DEF ppoll, Polled
  <2>2. ASSUME NEW e \in Slot
        PROVE  LET f == [e EXCEPT !.revents = Ready(e)]
               IN f \in Slot /\ f.fd = e.fd /\ f.events = e.events /\ f.revents = Ready(e)
    BY <1>2 DEF Slot
  <2> QED
    BY <1>0, <2>1, <2>2, PollServerAssumption
<1>4. n' = CountReady /\ n' > 0 /\ n' \in 0 .. MAX_POLLFD /\ k' = 1
  <2>1. CountReady \in 0 .. MAX_POLLFD
    <3>1. {i \in 1 .. max_pollfd : Ready(pollfds[i]) # {}} \subseteq 1 .. max_pollfd
      OBVIOUS
    <3>2. max_pollfd \in 0 .. MAX_POLLFD
      BY <1>0, PollServerAssumption
    <3> QED
      BY <3>1, <3>2, CountBounded DEF CountReady
  <2> QED
    BY <2>1 DEF ppoll
<1>5. TypeOK'
  BY <1>1, <1>3, <1>4, PollServerAssumption DEF IInv, TableIsRight, TypeOK, Slot
<1>6. \A i \in 3 .. max_pollfd : i \in 1 .. MAX_POLLFD /\ i \in 1 .. max_pollfd
  BY <1>0, PollServerAssumption
<1>7. 1 \in 1 .. max_pollfd /\ 2 \in 1 .. max_pollfd /\ 1 \in 1 .. MAX_POLLFD /\ 2 \in 1 .. MAX_POLLFD
  BY <1>0, PollServerAssumption
<1>8. TableMatchesOpen'
  BY <1>1, <1>3, <1>6, <1>7 DEF IInv, TableIsRight, TableMatchesOpen
<1>9. PolledForRightEvent' /\ SlotsUnique'
  BY <1>1, <1>3, <1>6 DEF IInv, TableIsRight, PolledForRightEvent, SlotsUnique
<1>10. ResultsFresh'
  <2>1. pollfds'[1].revents \subseteq {"IN"} /\ pollfds'[2].revents \subseteq {"IN"}
    <3>1. pollfds[1].fd = Listen /\ pollfds[2].fd = Mce
      BY DEF IInv, TableIsRight, TableMatchesOpen
    <3> QED
      BY <1>3, <1>7, <3>1 DEF Ready, Listen, Mce
  <2>2. ASSUME NEW i \in 3 .. max_pollfd, "IN" \in pollfds'[i].revents
        PROVE  out[pollfds[i].fd] = NoBuf
    <3>1. pollfds[i].fd \in Conns
      BY <1>6, SlotFacts, <1>0
    <3>2. pollfds[i].fd # Listen /\ pollfds[i].fd # Mce
      BY <3>1, PollServerAssumption
    <3>3. "IN" \in Ready(pollfds[i])
      BY <1>3, <1>6, <2>2
    <3>4. "IN" \in pollfds[i].events
      BY <3>2, <3>3 DEF Ready
    <3> QED
      BY <3>4 DEF IInv, TableIsRight, PolledForRightEvent
  <2> QED
    BY <1>0, <1>1, <1>3, <1>4, <1>6, <2>1, <2>2 DEF ResultsFresh
<1> QED
  BY <1>1, <1>5, <1>8, <1>9, <1>10 DEF IInv, TableIsRight, NoAssertionFails, ConnsOnce

(* poll_callbacks is at a slot of the table, and has n of at least 1 left. *)
LEMMA AtSlot ==
  ASSUME IInv, n > 0
  PROVE  /\ k \in 1 .. max_pollfd
         /\ n \in 0 .. MAX_POLLFD /\ n - 1 \in 0 .. MAX_POLLFD
         /\ max_pollfd \in 2 .. MAX_POLLFD
BY PollServerAssumption DEF IInv, TableIsRight, TypeOK, ResultsFresh

(* A step that leaves the table and the connections as they are.           *)
LEMMA TableUntouched ==
  ASSUME IInv, n > 0, NEW left \in 0 .. MAX_POLLFD, AdvanceK(left),
         UNCHANGED <<pollfds, max_pollfd, open, out, clientEnd>>,
         mce' \in BOOLEAN, failed' = FALSE
  PROVE  IInv'
<1>1. k \in 1 .. max_pollfd /\ max_pollfd \in 2 .. MAX_POLLFD /\ k \in 1 .. MAX_POLLFD
  BY AtSlot, PollServerAssumption
<1>2. /\ n' \in 0 .. MAX_POLLFD /\ k' \in 1 .. MAX_POLLFD
      /\ n' > 0 => k' <= max_pollfd' /\ k' = k + 1
  BY <1>1, AdvanceStays
<1>3. TypeOK'
  BY <1>2 DEF IInv, TableIsRight, TypeOK, clientEnd
<1>4. ResultsFresh'
  BY <1>1, <1>2 DEF IInv, ResultsFresh
<1> QED
  BY <1>3, <1>4 DEF IInv, TableIsRight, TableMatchesOpen, PolledForRightEvent,
                    NoAssertionFails, SlotsUnique, ConnsOnce, clientEnd

LEMMA SkipSlotKeepsIInv == ASSUME IInv, SkipSlot PROVE IInv'
<1>1. /\ n > 0 /\ AdvanceK(n) /\ UNCHANGED <<pollfds, max_pollfd, open, out, clientEnd>>
      /\ mce' = mce /\ failed' = failed
  BY DEF SkipSlot
<1>2. mce' \in BOOLEAN /\ failed' = FALSE
  BY <1>1 DEF IInv, TableIsRight, TypeOK, NoAssertionFails
<1> QED
  BY <1>1, <1>2, AtSlot, TableUntouched

(* Slot 2 alone is /dev/mcelog, which ppoll reports readable or not at all. *)
LEMMA ProcessMcefdKeepsIInv ==
  ASSUME IInv, process_mcefd \/ ReadError PROVE IInv'
<1>1. /\ n > 0 /\ pollfds[k].fd = Mce /\ pollfds[k].revents # {}
      /\ failed' = (failed \/ "IN" \notin pollfds[k].revents) /\ mce' \in BOOLEAN
      /\ UNCHANGED <<pollfds, max_pollfd, open, out, clientEnd>> /\ AdvanceK(n - 1)
  BY DEF process_mcefd, ReadError, At, IInv, TableIsRight, TypeOK
<1>2. k = 2
  BY <1>1, AtSlot, SlotFacts
<1>3. "IN" \in pollfds[k].revents
  BY <1>1, <1>2 DEF IInv, ResultsFresh
<1>4. failed' = FALSE
  BY <1>1, <1>3 DEF IInv, TableIsRight, TypeOK, NoAssertionFails
<1> QED
  BY <1>1, <1>4, AtSlot, TableUntouched

(* accept takes the first connection of the backlog.                       *)
LEMMA BacklogTail ==
  ASSUME IInv, backlog # << >>
  PROVE  /\ Head(backlog) \in Conns /\ Head(backlog) \notin open
         /\ client[Head(backlog)] # "idle" /\ out[Head(backlog)] = NoBuf
         /\ Tail(backlog) \in Seq(Conns)
         /\ \A i \in 1 .. Len(Tail(backlog)) :
              /\ client[Tail(backlog)[i]] # "idle" /\ Tail(backlog)[i] \notin open
              /\ Tail(backlog)[i] # Head(backlog)
         /\ \A i, j \in 1 .. Len(Tail(backlog)) : Tail(backlog)[i] = Tail(backlog)[j] => i = j
<1>1. backlog \in Seq(Conns)
  BY DEF IInv, TableIsRight, TypeOK
<1>2. /\ Head(backlog) = backlog[1] /\ 1 \in 1 .. Len(backlog) /\ Head(backlog) \in Conns
      /\ Tail(backlog) \in Seq(Conns)
      /\ \A i \in 1 .. Len(Tail(backlog)) : i + 1 \in 1 .. Len(backlog) /\ i + 1 # 1
                                            /\ Tail(backlog)[i] = backlog[i + 1]
  BY <1>1
<1>3. /\ \A i \in 1 .. Len(backlog) : client[backlog[i]] # "idle" /\ backlog[i] \notin open
      /\ \A i, j \in 1 .. Len(backlog) : backlog[i] = backlog[j] => i = j
      /\ \A c \in Conns : c \notin open => out[c] = NoBuf
  BY DEF IInv, ConnsOnce
<1>4. \A i, j \in 1 .. Len(Tail(backlog)) : Tail(backlog)[i] = Tail(backlog)[j] => i = j
  <2> TAKE i, j \in 1 .. Len(Tail(backlog))
  <2> HAVE Tail(backlog)[i] = Tail(backlog)[j]
  <2>1. i + 1 = j + 1
    BY <1>2, <1>3
  <2> QED
    BY <2>1
<1> QED
  BY <1>2, <1>3, <1>4

(* A client is turned away: the table stays as it is.                      *)
LEMMA RefuseKeepsIInv == ASSUME IInv, client_accept, ~ HasRoom PROVE IInv'
<1>1. /\ n > 0 /\ backlog # << >> /\ backlog' = Tail(backlog)
      /\ client' = [client EXCEPT ![Head(backlog)] =
                      IF Gone(Head(backlog)) THEN @ ELSE "refused"]
      /\ UNCHANGED <<pollfds, max_pollfd, open, mce, inq, out, failed>> /\ AdvanceK(n - 1)
  BY DEF client_accept, At
<1>2. k \in 1 .. max_pollfd /\ max_pollfd \in 2 .. MAX_POLLFD /\ k \in 1 .. MAX_POLLFD
  BY <1>1, AtSlot, PollServerAssumption
<1>3. /\ n' \in 0 .. MAX_POLLFD /\ k' \in 1 .. MAX_POLLFD
      /\ n' > 0 => k' <= max_pollfd' /\ k' = k + 1
  BY <1>1, <1>2, AdvanceStays, AtSlot
<1>4. TypeOK'
  BY <1>1, <1>3, BacklogTail DEF IInv, TableIsRight, TypeOK
<1>5. ResultsFresh'
  BY <1>1, <1>2, <1>3 DEF IInv, ResultsFresh
<1>6. ConnsOnce'
  <2>1. \A c \in Conns : client[c] # "idle" => client'[c] # "idle"
    BY <1>1 DEF IInv, TableIsRight, TypeOK
  <2>2. \A i \in 1 .. Len(backlog') : backlog'[i] \in Conns
    BY <1>4 DEF TypeOK
  <2> QED
    BY <1>1, <2>1, <2>2, BacklogTail DEF IInv, TableIsRight, TypeOK, ConnsOnce
<1> QED
  BY <1>1, <1>4, <1>5, <1>6 DEF IInv, TableIsRight, TableMatchesOpen, PolledForRightEvent,
                                NoAssertionFails, SlotsUnique

(* A connection is registered behind the last slot.  Whatever revents it
   inherits, it has no answer pending.                                     *)
LEMMA RegisterKeepsIInv == ASSUME IInv, client_accept, HasRoom PROVE IInv'
<1> DEFINE c == Head(backlog)
           m == max_pollfd + 1
<1>1. /\ n > 0 /\ backlog # << >> /\ backlog' = Tail(backlog)
      /\ pollfds' = [pollfds EXCEPT ![m] = Watched(c, @.revents)]
      /\ max_pollfd' = m /\ open' = open \cup {c}
      /\ UNCHANGED <<client, mce, inq, out, failed>> /\ AdvanceK(n - 1)
  BY DEF client_accept, At, register_pollcb
<1>2. k \in 1 .. max_pollfd /\ max_pollfd \in 2 .. MAX_POLLFD /\ k \in 1 .. MAX_POLLFD
  BY <1>1, AtSlot, PollServerAssumption
<1>3. m \in 3 .. MAX_POLLFD /\ max_pollfd' \in 2 .. MAX_POLLFD /\ 3 .. m = (3 .. max_pollfd) \cup {m}
  BY <1>1, <1>2, PollServerAssumption DEF HasRoom
<1>4. /\ n' \in 0 .. MAX_POLLFD /\ k' \in 1 .. MAX_POLLFD
      /\ n' > 0 => k' <= max_pollfd' /\ k' = k + 1
  BY <1>1, <1>2, <1>3, AdvanceStays, AtSlot
<1>5. /\ c \in Conns /\ c \notin open /\ client[c] # "idle" /\ out[c] = NoBuf
      /\ Tail(backlog) \in Seq(Conns)
  BY <1>1, BacklogTail
<1>6. pollfds \in [1 .. MAX_POLLFD -> Slot] /\ open \subseteq Conns
  BY DEF IInv, TableIsRight, TypeOK, Slot
<1>7. /\ pollfds' \in [1 .. MAX_POLLFD -> Slot]
      /\ pollfds'[m] = Watched(c, pollfds[m].revents)
      /\ \A i \in 1 .. max_pollfd : pollfds'[i] = pollfds[i]
  <2>1. m \in 1 .. MAX_POLLFD /\ \A i \in 1 .. max_pollfd : i # m /\ i \in 1 .. MAX_POLLFD
    BY <1>2, <1>3, PollServerAssumption
  <2>2. Watched(c, pollfds[m].revents) \in Slot
    BY <1>5, <1>6, <2>1 DEF Watched, Slot
  <2> QED
    BY <1>1, <1>6, <2>1, <2>2
<1>8. pollfds'[m].fd = c /\ pollfds'[m].events = {"IN"}
  BY <1>7 DEF Watched
<1>9. TypeOK'
  BY <1>1, <1>3, <1>4, <1>5, <1>6, <1>7 DEF IInv, TableIsRight, TypeOK, Slot
<1>10. \A i \in 3 .. max_pollfd : i \in 1 .. max_pollfd /\ i # m /\ pollfds'[i] = pollfds[i]
                                  /\ pollfds[i].fd \in open /\ pollfds[i].fd # c
  BY <1>2, <1>3, <1>5, <1>7, SlotFacts
<1>11. TableMatchesOpen' /\ IsFiniteSet(open)'
  <2>1. pollfds'[1].fd = Listen /\ pollfds'[2].fd = Mce
    BY <1>2, <1>7 DEF IInv, TableIsRight, TableMatchesOpen
  <2>2. {pollfds'[i].fd : i \in 3 .. m} = open \cup {c}
    BY <1>3, <1>8, <1>10 DEF IInv, TableIsRight, TableMatchesOpen
  <2>3. IsFiniteSet(open \cup {c}) /\ Cardinality(open \cup {c}) = Cardinality(open) + 1
    BY <1>5, FS_AddElement DEF IInv
  <2>4. Cardinality(open \cup {c}) = m - 2
    BY <1>2, <2>3 DEF IInv, TableIsRight, TableMatchesOpen
  <2> QED
    BY <1>1, <2>1, <2>2, <2>3, <2>4 DEF TableMatchesOpen
<1>12. PolledForRightEvent'
  BY <1>1, <1>3, <1>5, <1>8, <1>10, ZenonT(40) DEF IInv, TableIsRight, PolledForRightEvent
<1>13. SlotsUnique'
  BY <1>1, <1>3, <1>8, <1>10 DEF IInv, SlotsUnique
<1>14. ConnsOnce'
  BY <1>1, <1>5, BacklogTail DEF IInv, ConnsOnce
<1>15. ResultsFresh'
  <2>1. pollfds'[1] = pollfds[1] /\ pollfds'[2] = pollfds[2]
    BY <1>2, <1>7
  <2>2. ASSUME n' > 0, NEW i \in 3 .. m, i >= k', "IN" \in pollfds'[i].revents
        PROVE  out'[pollfds'[i].fd] = NoBuf
    <3>1. CASE i = m
      BY <1>1, <1>5, <1>8, <3>1
    <3>2. CASE i \in 3 .. max_pollfd
      <4>1. n > 0 /\ i >= k /\ pollfds'[i] = pollfds[i] /\ out' = out
        BY <1>1, <1>2, <1>4, <1>10, <2>2, <3>2
      <4> QED
        BY <2>2, <3>2, <4>1 DEF IInv, ResultsFresh
    <3> QED
      BY <1>3, <3>1, <3>2
  <2> QED
    BY <1>1, <1>4, <2>1, <2>2 DEF IInv, ResultsFresh
<1> QED
  BY <1>1, <1>9, <1>11, <1>12, <1>13, <1>14, <1>15 DEF IInv, TableIsRight, NoAssertionFails

(* The error exit of client_event: the slots behind move down by one.      *)
LEMMA CloseKeepsIInv ==
  ASSUME IInv, NEW c \in Conns, At(c), CloseClient(c), AdvanceK(n - 1),
         UNCHANGED <<mce, backlog>>,
         client' \in [Conns -> {"idle", "connected", "waiting", "all_sent", "pong",
                                "hang_up", "killed", "done", "refused", "error"}],
         \A d \in Conns : client[d] # "idle" => client'[d] # "idle"
  PROVE  IInv'
<1> DEFINE m == max_pollfd - 1
           To(j) == IF j >= k THEN j + 1 ELSE j
<1>1. /\ n > 0 /\ pollfds[k].fd = c
      /\ pollfds' = [j \in 1 .. MAX_POLLFD |->
                       IF j >= k /\ j < max_pollfd THEN pollfds[j + 1] ELSE pollfds[j]]
      /\ max_pollfd' = m /\ open' = open \ {c}
      /\ out' = [out EXCEPT ![c] = NoBuf] /\ inq' = [inq EXCEPT ![c] = FALSE]
      /\ failed' = (failed \/ k > max_pollfd)
  BY DEF At, CloseClient, unregister_pollcb
<1>2. /\ k \in 1 .. max_pollfd /\ max_pollfd \in 2 .. MAX_POLLFD /\ k \in 1 .. MAX_POLLFD
      /\ n - 1 \in 0 .. MAX_POLLFD
  BY <1>1, AtSlot, PollServerAssumption
<1>3. k >= 3 /\ k \in 3 .. max_pollfd /\ c \in open
  BY <1>1, <1>2, SlotFacts
<1>4. max_pollfd' \in 2 .. MAX_POLLFD /\ m \in 2 .. MAX_POLLFD /\ max_pollfd = m + 1
  BY <1>1, <1>2, <1>3, PollServerAssumption
<1>5. /\ n' \in 0 .. MAX_POLLFD /\ k' \in 1 .. MAX_POLLFD
      /\ n' > 0 => k' <= max_pollfd' /\ k' = k + 1
  BY <1>1, <1>2, <1>4, AdvanceStays
<1>6. pollfds \in [1 .. MAX_POLLFD -> Slot] /\ open \subseteq Conns
  BY DEF IInv, TableIsRight, TypeOK, Slot
<1>7. pollfds' \in [1 .. MAX_POLLFD -> Slot]
  <2>1. \A j \in 1 .. MAX_POLLFD : j < max_pollfd => j + 1 \in 1 .. MAX_POLLFD
    BY <1>2, PollServerAssumption
  <2> QED
    BY <1>1, <1>6, <2>1
<1>8. \A j \in 1 .. m : pollfds'[j] = pollfds[To(j)] /\ To(j) \in 1 .. max_pollfd /\ To(j) # k
  BY <1>1, <1>2, <1>4, PollServerAssumption
<1>9. /\ \A j \in 3 .. m : j \in 1 .. m /\ To(j) \in 3 .. max_pollfd /\ To(j) # k
      /\ \A i, j \in 3 .. m : To(i) = To(j) => i = j
      /\ \A i \in 3 .. max_pollfd : i # k => \E j \in 3 .. m : To(j) = i
  <2>1. \A j \in 3 .. m : j \in 1 .. m /\ To(j) \in 3 .. max_pollfd /\ To(j) # k
    BY <1>2, <1>3, <1>4
  <2>2. \A i, j \in 3 .. m : To(i) = To(j) => i = j
    BY <1>2, <1>3, <1>4
  <2>3. ASSUME NEW i \in 3 .. max_pollfd, i # k PROVE \E j \in 3 .. m : To(j) = i
    <3>1. CASE i < k
      <4>1. i \in 3 .. m /\ To(i) = i
        BY <1>2, <1>3, <1>4, <3>1
      <4> QED
        BY <4>1
    <3>2. CASE i > k
      <4>1. i - 1 \in 3 .. m /\ To(i - 1) = i
        BY <1>2, <1>3, <1>4, <3>2
      <4> QED
        BY <4>1
    <3> QED
      BY <1>2, <2>3, <3>1, <3>2
  <2> QED
    BY <2>1, <2>2, <2>3
<1>10. \A i \in 3 .. max_pollfd : /\ pollfds[i].fd \in open
                                  /\ i # k => pollfds[i].fd # c
  <2>1. \A i \in 3 .. max_pollfd : i \in 1 .. max_pollfd /\ i >= 3
    BY <1>2
  <2> QED
    BY <1>1, <1>3, <2>1, SlotFacts DEF IInv, SlotsUnique
<1> HIDE DEF To
<1>11. TypeOK'
  <2>1. out' \in [Conns -> NoBuf .. Chunks] /\ inq' \in [Conns -> BOOLEAN]
    BY <1>1, PollServerAssumption DEF IInv, TableIsRight, TypeOK, NoBuf
  <2>2. failed' \in BOOLEAN
    BY <1>1 DEF IInv, TableIsRight, TypeOK
  <2> QED
    BY <1>1, <1>4, <1>5, <1>6, <1>7, <2>1, <2>2 DEF IInv, TableIsRight, TypeOK, Slot
<1>12. TableMatchesOpen' /\ IsFiniteSet(open)'
  <2>1. pollfds'[1].fd = Listen /\ pollfds'[2].fd = Mce
    <3>1. 1 \in 1 .. m /\ 2 \in 1 .. m /\ To(1) = 1 /\ To(2) = 2
      BY <1>3, <1>4, <1>2 DEF To
    <3> QED
      BY <1>8, <3>1 DEF IInv, TableIsRight, TableMatchesOpen
  <2>2. {pollfds'[j].fd : j \in 3 .. m} = open \ {c}
    <3>1. {pollfds[i].fd : i \in 3 .. max_pollfd} = open
      BY DEF IInv, TableIsRight, TableMatchesOpen
    <3>2. \A j \in 3 .. m : pollfds'[j].fd \in open \ {c}
      BY <1>8, <1>9, <1>10
    <3>3. ASSUME NEW d \in open \ {c} PROVE \E j \in 3 .. m : pollfds'[j].fd = d
      <4>1. PICK i \in 3 .. max_pollfd : pollfds[i].fd = d
        BY <3>1
      <4>2. i # k
        BY <1>1, <4>1
      <4>3. PICK j \in 3 .. m : To(j) = i
        BY <1>9, <4>2
      <4> QED
        BY <1>8, <1>9, <4>1, <4>3
    <3> QED
      BY <3>2, <3>3
  <2>3. IsFiniteSet(open \ {c}) /\ Cardinality(open \ {c}) = Cardinality(open) - 1
    BY <1>3, FS_RemoveElement DEF IInv
  <2>4. Cardinality(open \ {c}) = m - 2
    BY <1>2, <2>3 DEF IInv, TableIsRight, TableMatchesOpen
  <2> QED
    BY <1>1, <2>1, <2>2, <2>3, <2>4 DEF TableMatchesOpen
<1>13. \A d \in Conns : d # c => out'[d] = out[d]
  BY <1>1 DEF IInv, TableIsRight, TypeOK
<1>14. out'[c] = NoBuf
  BY <1>1 DEF IInv, TableIsRight, TypeOK
<1>15. PolledForRightEvent'
  <2> SUFFICES ASSUME NEW j \in 3 .. m
               PROVE  pollfds'[j].events = (IF out'[pollfds'[j].fd] = NoBuf THEN {"IN"} ELSE {"OUT"})
    BY <1>1 DEF PolledForRightEvent
  <2>1. pollfds'[j] = pollfds[To(j)] /\ To(j) \in 3 .. max_pollfd /\ To(j) # k
    BY <1>8, <1>9
  <2>2. pollfds[To(j)].fd \in Conns /\ pollfds[To(j)].fd # c
    BY <1>6, <1>10, <2>1
  <2> QED
    BY <1>13, <2>1, <2>2 DEF IInv, TableIsRight, PolledForRightEvent
<1>16. SlotsUnique'
  <2> SUFFICES ASSUME NEW i \in 3 .. m, NEW j \in 3 .. m, pollfds'[i].fd = pollfds'[j].fd
               PROVE  i = j
    BY <1>1 DEF SlotsUnique
  <2>1. pollfds[To(i)].fd = pollfds[To(j)].fd /\ To(i) \in 3 .. max_pollfd /\ To(j) \in 3 .. max_pollfd
    BY <1>8, <1>9
  <2>2. To(i) = To(j)
    BY <2>1 DEF IInv, SlotsUnique
  <2> QED
    BY <1>9, <2>2
<1>17. ConnsOnce'
  BY <1>1, <1>6, <1>13, <1>14 DEF IInv, TableIsRight, TypeOK, ConnsOnce
<1>18. ResultsFresh'
  <2>1. pollfds'[1].revents \subseteq {"IN"} /\ pollfds'[2].revents \subseteq {"IN"}
    <3>1. 1 \in 1 .. m /\ 2 \in 1 .. m /\ To(1) = 1 /\ To(2) = 2
      BY <1>3, <1>4, <1>2 DEF To
    <3> QED
      BY <1>8, <3>1 DEF IInv, ResultsFresh
  <2>2. ASSUME n' > 0, NEW j \in 3 .. m, j >= k', "IN" \in pollfds'[j].revents
        PROVE  out'[pollfds'[j].fd] = NoBuf
    <3>1. pollfds'[j] = pollfds[To(j)] /\ To(j) \in 3 .. max_pollfd /\ To(j) # k
      BY <1>8, <1>9
    <3>2. To(j) >= k
      BY <1>2, <1>5, <2>2 DEF To
    <3>3. out[pollfds[To(j)].fd] = NoBuf
      BY <1>1, <2>2, <3>1, <3>2 DEF IInv, ResultsFresh
    <3>4. pollfds[To(j)].fd \in Conns /\ pollfds[To(j)].fd # c
      BY <1>6, <1>10, <3>1
    <3> QED
      BY <1>13, <3>1, <3>3, <3>4
  <2> QED
    BY <1>1, <1>5, <2>1, <2>2 DEF ResultsFresh
<1>19. NoAssertionFails'
  BY <1>1, <1>2 DEF IInv, TableIsRight, TypeOK, NoAssertionFails
<1> QED
  BY <1>11, <1>12, <1>15, <1>16, <1>17, <1>18, <1>19 DEF IInv, TableIsRight

(* A connection whose client hung up is closed.                            *)
LEMMA HangupKeepsIInv == ASSUME IInv, NEW c \in Conns, ClientHangup(c) PROVE IInv'
<1>1. /\ At(c) /\ CloseClient(c) /\ AdvanceK(n - 1) /\ UNCHANGED <<mce, backlog>>
      /\ client' = [client EXCEPT ![c] =
           IF Gone(c) \/ (@ = "all_sent" /\ c \notin Pings) THEN @ ELSE "hang_up"]
  BY DEF ClientHangup, HangUp
<1>2. /\ client' \in [Conns -> {"idle", "connected", "waiting", "all_sent", "pong",
                                "hang_up", "killed", "done", "refused", "error"}]
      /\ \A d \in Conns : client[d] # "idle" => client'[d] # "idle"
  BY <1>1 DEF IInv, TableIsRight, TypeOK
<1> QED
  BY <1>1, <1>2, CloseKeepsIInv

(* A callback that keeps its connection: it sets the answer that is pending
   and polls for the side that has to act next.                            *)
LEMMA AnswerKeepsIInv ==
  ASSUME IInv, NEW c \in Conns, At(c), AdvanceK(n - 1), NEW buf \in NoBuf .. Chunks,
         out' = [out EXCEPT ![c] = buf],
         pollfds' = [pollfds EXCEPT ![k].events = NextEvents(buf)],
         UNCHANGED <<max_pollfd, open, mce, backlog>>,
         inq' \in [Conns -> BOOLEAN], failed' = FALSE,
         client' \in [Conns -> {"idle", "connected", "waiting", "all_sent", "pong",
                                "hang_up", "killed", "done", "refused", "error"}],
         \A d \in Conns : client[d] # "idle" => client'[d] # "idle"
  PROVE  IInv'
<1>1. n > 0 /\ pollfds[k].fd = c
  BY DEF At
<1>2. /\ k \in 1 .. max_pollfd /\ max_pollfd \in 2 .. MAX_POLLFD /\ k \in 1 .. MAX_POLLFD
      /\ n - 1 \in 0 .. MAX_POLLFD
  BY <1>1, AtSlot, PollServerAssumption
<1>3. k >= 3 /\ k \in 3 .. max_pollfd /\ c \in open
  BY <1>1, <1>2, SlotFacts
<1>4. /\ n' \in 0 .. MAX_POLLFD /\ k' \in 1 .. MAX_POLLFD
      /\ n' > 0 => k' <= max_pollfd' /\ k' = k + 1
  BY <1>2, AdvanceStays
<1>5. pollfds \in [1 .. MAX_POLLFD -> Slot] /\ open \subseteq Conns /\ out \in [Conns -> NoBuf .. Chunks]
  BY DEF IInv, TableIsRight, TypeOK, Slot
<1>6. NextEvents(buf) \in SUBSET {"IN", "OUT"}
  BY DEF NextEvents
<1>7. /\ pollfds' \in [1 .. MAX_POLLFD -> Slot]
      /\ pollfds'[k].fd = c /\ pollfds'[k].events = NextEvents(buf)
      /\ pollfds'[k].revents = pollfds[k].revents
      /\ \A i \in 1 .. MAX_POLLFD : i # k => pollfds'[i] = pollfds[i]
  BY <1>1, <1>2, <1>5, <1>6, ZenonT(40) DEF Slot
<1>8. /\ out' \in [Conns -> NoBuf .. Chunks] /\ out'[c] = buf
      /\ \A d \in Conns : d # c => out'[d] = out[d]
  BY <1>5
<1>9. TypeOK'
  BY <1>4, <1>7, <1>8 DEF IInv, TableIsRight, TypeOK, Slot
<1>10. \A i \in 3 .. max_pollfd : /\ i \in 1 .. MAX_POLLFD
                                  /\ pollfds[i].fd \in Conns /\ pollfds'[i].fd = pollfds[i].fd
                                  /\ i # k => pollfds'[i] = pollfds[i] /\ pollfds[i].fd # c
  <2>1. \A i \in 3 .. max_pollfd : i \in 1 .. max_pollfd /\ i >= 3 /\ i \in 1 .. MAX_POLLFD
    BY <1>2, PollServerAssumption
  <2> QED
    BY <1>1, <1>3, <1>7, <2>1, SlotFacts DEF IInv, SlotsUnique
<1>11. pollfds'[1] = pollfds[1] /\ pollfds'[2] = pollfds[2]
  <2>1. 1 \in 1 .. MAX_POLLFD /\ 2 \in 1 .. MAX_POLLFD /\ 1 # k /\ 2 # k
    BY <1>3, PollServerAssumption
  <2> QED
    BY <1>7, <2>1
<1>12. TableMatchesOpen'
  <2>1. {pollfds'[i].fd : i \in 3 .. max_pollfd} = {pollfds[i].fd : i \in 3 .. max_pollfd}
    BY <1>10
  <2> QED
    BY <1>11, <2>1 DEF IInv, TableIsRight, TableMatchesOpen
<1>13. PolledForRightEvent'
  <2> SUFFICES ASSUME NEW i \in 3 .. max_pollfd
               PROVE  pollfds'[i].events = (IF out'[pollfds'[i].fd] = NoBuf THEN {"IN"} ELSE {"OUT"})
    BY DEF PolledForRightEvent
  <2>1. CASE i = k
    BY <1>7, <1>8, <2>1 DEF NextEvents
  <2>2. CASE i # k
    BY <1>8, <1>10, <2>2 DEF IInv, TableIsRight, PolledForRightEvent
  <2> QED
    BY <2>1, <2>2
<1>14. SlotsUnique'
  BY <1>10 DEF IInv, SlotsUnique
<1>15. ConnsOnce'
  BY <1>3, <1>5, <1>8 DEF IInv, TableIsRight, TypeOK, ConnsOnce
<1>16. ResultsFresh'
  <2>1. ASSUME n' > 0, NEW i \in 3 .. max_pollfd, i >= k', "IN" \in pollfds'[i].revents
        PROVE  out'[pollfds'[i].fd] = NoBuf
    <3>1. i > k
      BY <1>2, <1>4, <2>1
    <3>2. i # k /\ i >= k
      BY <1>2, <3>1
    <3>3. out[pollfds[i].fd] = NoBuf
      BY <1>1, <1>10, <2>1, <3>2 DEF IInv, ResultsFresh
    <3> QED
      BY <1>8, <1>10, <3>2, <3>3
  <2> QED
    BY <1>4, <1>11, <2>1 DEF IInv, ResultsFresh
<1> QED
  BY <1>9, <1>12, <1>13, <1>14, <1>15, <1>16 DEF IInv, TableIsRight, NoAssertionFails

LEMMA OutputKeepsIInv == ASSUME IInv, NEW c \in Conns, ClientOutput(c) PROVE IInv'
<1> USE DEF IInv, TableIsRight, TypeOK
<1>1. At(c) /\ AdvanceK(n - 1) /\ UNCHANGED <<mce, backlog>>
  BY DEF ClientOutput
<1>2. CASE Gone(c) /\ out[c] > 0
  <2>1. CloseClient(c) /\ client' = client
    BY <1>2 DEF ClientOutput
  <2> QED
    BY <1>1, <2>1, CloseKeepsIInv
<1>3. CASE ~ (Gone(c) /\ out[c] > 0)
  <2>1. PICK left \in 0 .. Chunks :
          /\ out' = [out EXCEPT ![c] = IF left = 0 THEN NoBuf ELSE left]
          /\ pollfds' = [pollfds EXCEPT ![k].events = NextEvents(out'[c])]
          /\ client' = [client EXCEPT ![c] =
                 IF left = 0 /\ out[c] > 0 /\ @ = "waiting" THEN "all_sent" ELSE @]
    BY <1>3 DEF ClientOutput
  <2>2. UNCHANGED <<max_pollfd, open, inq, failed>>
    BY <1>3 DEF ClientOutput
  <2> DEFINE buf == IF left = 0 THEN NoBuf ELSE left
  <2>3. buf \in NoBuf .. Chunks
    BY PollServerAssumption DEF NoBuf
  <2>4. out'[c] = buf
    BY <2>1
  <2>5. /\ client' \in [Conns -> {"idle", "connected", "waiting", "all_sent", "pong",
                                  "hang_up", "killed", "done", "refused", "error"}]
        /\ \A d \in Conns : client[d] # "idle" => client'[d] # "idle"
    BY <2>1
  <2>6. inq' \in [Conns -> BOOLEAN] /\ failed' = FALSE
    BY <2>2 DEF NoAssertionFails
  <2>7. out' = [out EXCEPT ![c] = buf] /\ pollfds' = [pollfds EXCEPT ![k].events = NextEvents(buf)]
    BY <2>1, <2>4
  <2> HIDE DEF buf, IInv
  <2> QED
    BY <1>1, <2>2, <2>3, <2>5, <2>6, <2>7, AnswerKeepsIInv
<1> QED
  BY <1>2, <1>3

(* A command is read from a slot that is to be visited and readable: no
   answer is pending.                                                      *)
LEMMA InputKeepsIInv == ASSUME IInv, NEW c \in Conns, ClientInput(c) PROVE IInv'
<1> USE DEF IInv, TableIsRight, TypeOK
<1>1. /\ At(c) /\ AdvanceK(n - 1) /\ UNCHANGED <<mce, backlog>>
      /\ n > 0 /\ pollfds[k].fd = c /\ "IN" \in pollfds[k].revents
  BY DEF ClientInput, At
<1>2. k \in 3 .. max_pollfd
  BY <1>1, AtSlot, SlotFacts
<1>3. out[c] = NoBuf
  BY <1>1, <1>2 DEF ResultsFresh
<1>4. CASE inq[c] /\ c \notin Allowed
  <2>1. CloseClient(c) /\ client' = [client EXCEPT ![c] = IF Gone(c) THEN @ ELSE "refused"]
    BY <1>4 DEF ClientInput
  <2>2. /\ client' \in [Conns -> {"idle", "connected", "waiting", "all_sent", "pong",
                                  "hang_up", "killed", "done", "refused", "error"}]
        /\ \A d \in Conns : client[d] # "idle" => client'[d] # "idle"
    BY <2>1
  <2> HIDE DEF IInv
  <2> QED
    BY <1>1, <2>1, <2>2, CloseKeepsIInv
<1>5. CASE ~ (inq[c] /\ c \notin Allowed)
  <2> DEFINE buf == IF inq[c] THEN Chunks ELSE 0
  <2>1. /\ failed' = (failed \/ out[c] # NoBuf)
        /\ out' = [out EXCEPT ![c] = buf]
        /\ inq' = [inq EXCEPT ![c] = FALSE]
        /\ pollfds' = [pollfds EXCEPT ![k].events = NextEvents(out'[c])]
        /\ UNCHANGED <<max_pollfd, open, client>>
    BY <1>5 DEF ClientInput
  <2>2. buf \in NoBuf .. Chunks
    BY PollServerAssumption DEF NoBuf
  <2>3. pollfds' = [pollfds EXCEPT ![k].events = NextEvents(buf)]
    BY <2>1
  <2>4. inq' \in [Conns -> BOOLEAN]
    BY <2>1
  <2>5. failed' = FALSE
    BY <1>3, <2>1 DEF NoAssertionFails
  <2>6. client' \in [Conns -> {"idle", "connected", "waiting", "all_sent", "pong",
                                  "hang_up", "killed", "done", "refused", "error"}]
    BY <2>1
  <2> HIDE DEF buf, IInv
  <2> QED
    BY <1>1, <2>1, <2>2, <2>3, <2>4, <2>5, <2>6, AnswerKeepsIInv
<1> QED
  BY <1>4, <1>5

(* Every step keeps the invariant.                                         *)
LEMMA NextIInv == ASSUME IInv, [Next]_vars PROVE IInv'
<1>1. CASE UNCHANGED vars
  BY <1>1 DEF IInv, TableIsRight, TypeOK, TableMatchesOpen, PolledForRightEvent, NoAssertionFails,
              SlotsUnique, ConnsOnce, ResultsFresh, vars
<1>2. CASE \E c \in Conns : Connect(c) \/ Send(c) \/ Kill(c) \/ Receive(c)
  BY <1>2, ClientsKeepIInv
<1>3. CASE MachineCheck
  BY <1>3, MachineCheckKeepsIInv
<1>4. CASE ppoll \/ SkipSlot \/ process_mcefd \/ ReadError
  BY <1>4, PpollKeepsIInv, SkipSlotKeepsIInv, ProcessMcefdKeepsIInv
<1>5. CASE client_accept
  BY <1>5, RefuseKeepsIInv, RegisterKeepsIInv
<1>6. CASE \E c \in Conns : ClientHangup(c) \/ ClientOutput(c) \/ ClientInput(c)
  BY <1>6, HangupKeepsIInv, OutputKeepsIInv, InputKeepsIInv
<1> QED
  BY <1>1, <1>2, <1>3, <1>4, <1>5, <1>6 DEF Next, ServerStep, Callback

LEMMA InvariantHolds == Spec => []IInv
<1>1. Init => IInv
  BY InitIInv
<1>2. IInv /\ [Next]_vars => IInv'
  BY NextIInv
<1> QED
  BY <1>1, <1>2, PTL DEF Spec

(* The assertions of process_mcefd, process_cmd and unregister_pollcb hold,
   for any number of clients and any size of the table.                    *)
THEOREM AssertionsHold == Spec => []NoAssertionFails
<1>1. IInv => NoAssertionFails
  BY DEF IInv
<1> QED
  BY <1>1, InvariantHolds, PTL

(* The poll table has one slot for each open connection and none for any
   other, polled for the side that has to act, while callbacks register and
   unregister slots of the table they are called from.                     *)
THEOREM TableAlwaysRight == Spec => []TableIsRight
<1>1. IInv => TableIsRight
  BY DEF IInv
<1> QED
  BY <1>1, InvariantHolds, PTL
=============================================================================
