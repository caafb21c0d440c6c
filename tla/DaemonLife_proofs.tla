-------------------------- MODULE DaemonLife_proofs --------------------------
(***************************************************************************)
(* Proofs about DaemonLife: who gives up and whose files are on the path,  *)
(* for any number of daemons, privileged or not.                           *)
(***************************************************************************)
EXTENDS DaemonLife, TLAPS

(* A daemon that has made the socket file and has not ended.               *)
Owner(p) == Alive(p) /\ sock[p] # "none"

(* The alarm is not set before connect().                                  *)
AlarmSet == \A p \in Daemons : armed[p] => pc[p] \in {"write", "read", "restored"}

(* An answered ping, and a file met at bind(), come from another daemon
   that lived at the time.                                                 *)
MetOthers ==
  \A p \in Daemons :
    /\ pc[p] \in {"write", "read"} => peer[p] \in Daemons
    /\ ping[p] => pc[p] = "restored" /\ met[p]
    /\ (pc[p] \in {"socket", "bind"} /\ "unlink" \notin upsets /\ ~ met[p]) => path = NoFile
    /\ (pc[p] = "yielded" /\ upsets \cap {"socket", "unlink"} = {}) => met[p]

(* How far the server socket is at each point of main().                   *)
SocketMade ==
  \A p \in Daemons :
    /\ pc[p] \in {"off", "access", "socket", "bind"} \cup Pinging => sock[p] = "none"
    /\ pc[p] = "listen" => sock[p] = "bound"
    /\ pc[p] \in {"setup_done", "handlers", "loop", "exiting"} => sock[p] = "listening"

(* The file at the path is the one of the only daemon that owns one, a ping
   is with that daemon, and one that failed met no daemon.                 *)
OneOwner ==
  /\ \A p \in Daemons : Owner(p) => path = p
  /\ \A p, q \in Daemons : pc[q] \in {"write", "read"} /\ Owner(p) => peer[q] = p
  /\ \A p, q \in Daemons : (pc[q] = "unlink" \/ (pc[q] = "restored" /\ ~ ping[q])) => ~ Owner(p)
  /\ \A p \in Daemons \ Unprivileged : pc[p] = "loop" => pidfile = p

(* The inductive invariant.                                                *)
IInv ==
  /\ TypeOK
  /\ AlarmSet
  /\ MetOthers
  /\ Quiet => ~ Overlap /\ SocketMade /\ OneOwner

(* Every step is type correct; the alarm is cancelled where server_ping ends. *)
LEMMA StepTypeOK ==
  ASSUME TypeOK, AlarmSet,
         NEW p \in Daemons, Own(p) \/ Happens(p), Remember
  PROVE  TypeOK' /\ AlarmSet'
<1> USE DaemonLifeAssumption DEF TypeOK, AlarmSet, Goto, files, pinged, Points, Setup,
      Ended, Pinging, InPing, Making, Remember
<1>1. CASE PingConnect(p)
  BY <1>1 DEF PingConnect, Serving
<1>2. CASE PingWrite(p)
  <2>1. CASE Alive(peer[p])
    BY <1>2, <2>1 DEF PingWrite, Forget
  <2>2. CASE ~ Alive(peer[p])
    <3>1. /\ pc' = [pc EXCEPT ![p] = "killed"] /\ Forget(p)
          /\ UNCHANGED <<sock, files, upsets>>
      BY <1>2, <2>2 DEF PingWrite
    <3> QED
      BY <3>1 DEF Forget
  <2> QED
    BY <2>1, <2>2
<1>3. CASE PingRead(p)
  BY <1>3 DEF PingRead
<1>4. CASE PingTimeout(p)
  BY <1>4 DEF PingTimeout
<1>5. CASE PingReturn(p)
  BY <1>5 DEF PingReturn, Forget
<1>6. CASE AccessPath(p)
  BY <1>6 DEF AccessPath
<1>7. CASE UnlinkPath(p)
  BY <1>7 DEF UnlinkPath
<1>8. CASE OpenSocket(p)
  BY <1>8, ZenonT(40) DEF OpenSocket
<1>9. CASE Bind(p)
  BY <1>9 DEF Bind
<1>10. CASE Listen(p)
  BY <1>10, ZenonT(40) DEF Listen
<1>11. CASE Daemonize(p)
  BY <1>11 DEF Daemonize
<1>12. CASE WritePid(p)
  BY <1>12 DEF WritePid
<1>13. CASE ClientCleanup(p)
  BY <1>13 DEF ClientCleanup, Unlinked
<1>14. CASE Start(p)
  BY <1>14 DEF Start
<1>15. CASE PingAnswer(p)
  BY <1>15, ZenonT(40) DEF PingAnswer
<1>16. CASE PingNoSocket(p)
  BY <1>16 DEF PingNoSocket
<1>17. CASE AlarmKills(p)
  BY <1>17 DEF AlarmKills, Forget
<1>18. CASE Die(p)
  BY <1>18 DEF Die, Forget
<1>19. CASE SignalExit(p)
  BY <1>19 DEF SignalExit, Unlinked
<1>20. CASE NumErrorsExit(p)
  BY <1>20 DEF NumErrorsExit, Unlinked
<1> QED
  BY <1>1, <1>2, <1>3, <1>4, <1>5, <1>6, <1>7, <1>8, <1>9, <1>10, <1>11, <1>12, <1>13,
     <1>14, <1>15, <1>16, <1>17, <1>18, <1>19, <1>20 DEF Own, Happens

(* Who gives up has met a live daemon: one that answered, or one that made the
   file after access() or unlink() had found or left none.                 *)
LEMMA StepMetOthers ==
  ASSUME TypeOK, MetOthers,
         NEW p \in Daemons, Own(p) \/ Happens(p), Remember
  PROVE  MetOthers'
<1> USE DaemonLifeAssumption DEF TypeOK, MetOthers, Goto, files, pinged, Setup, Pinging,
      InPing, Making, Remember, Alive
<1>1. CASE PingConnect(p)
  BY <1>1 DEF PingConnect, Serving
<1>2. CASE PingWrite(p)
  <2>1. CASE Alive(peer[p])
    BY <1>2, <2>1 DEF PingWrite, Forget
  <2>2. CASE ~ Alive(peer[p])
    <3>1. /\ pc' = [pc EXCEPT ![p] = "killed"] /\ Forget(p)
          /\ UNCHANGED <<sock, files, upsets>>
      BY <1>2, <2>2 DEF PingWrite
    <3> QED
      BY <3>1 DEF Forget
  <2> QED
    BY <2>1, <2>2
<1>3. CASE PingRead(p)
  BY <1>3 DEF PingRead
<1>4. CASE PingTimeout(p)
  BY <1>4 DEF PingTimeout
<1>5. CASE PingReturn(p)
  BY <1>5 DEF PingReturn, Forget
<1>6. CASE AccessPath(p)
  BY <1>6 DEF AccessPath
<1>7. CASE UnlinkPath(p)
  BY <1>7 DEF UnlinkPath
<1>8. CASE OpenSocket(p)
  BY <1>8 DEF OpenSocket
<1>9. CASE Bind(p)
  BY <1>9 DEF Bind, Ended
<1>10. CASE Listen(p)
  BY <1>10 DEF Listen
<1>11. CASE Daemonize(p)
  BY <1>11 DEF Daemonize
<1>12. CASE WritePid(p)
  BY <1>12 DEF WritePid
<1>13. CASE ClientCleanup(p)
  BY <1>13 DEF ClientCleanup, Unlinked
<1>14. CASE Start(p)
  BY <1>14 DEF Start
<1>15. CASE PingAnswer(p)
  <2>1. peer[p] \in Daemons \ {p} /\ Alive(peer[p])'
    BY <1>15 DEF PingAnswer, Ended
  <2>2. met'[p]
    BY <1>15, <2>1 DEF PingAnswer
  <2> QED
    BY <1>15, <2>2 DEF PingAnswer
<1>16. CASE PingNoSocket(p)
  BY <1>16 DEF PingNoSocket
<1>17. CASE AlarmKills(p)
  BY <1>17 DEF AlarmKills, Forget
<1>18. CASE Die(p)
  BY <1>18 DEF Die, Forget
<1>19. CASE SignalExit(p)
  BY <1>19 DEF SignalExit, Unlinked
<1>20. CASE NumErrorsExit(p)
  BY <1>20 DEF NumErrorsExit, Unlinked
<1> QED
  BY <1>1, <1>2, <1>3, <1>4, <1>5, <1>6, <1>7, <1>8, <1>9, <1>10, <1>11, <1>12, <1>13,
     <1>14, <1>15, <1>16, <1>17, <1>18, <1>19, <1>20 DEF Own, Happens

(* What upset the setup is remembered.                                     *)
LEMMA StepUpsets ==
  ASSUME TypeOK,
         NEW p \in Daemons, Own(p) \/ Happens(p), Remember
  PROVE  upsets \subseteq upsets'
<1>1. CASE PingConnect(p)
  BY <1>1 DEF PingConnect
<1>2. CASE PingWrite(p)
  BY <1>2 DEF PingWrite
<1>3. CASE PingRead(p)
  BY <1>3 DEF PingRead
<1>4. CASE PingTimeout(p)
  BY <1>4 DEF PingTimeout
<1>5. CASE PingReturn(p)
  BY <1>5 DEF PingReturn
<1>6. CASE AccessPath(p)
  BY <1>6 DEF AccessPath
<1>7. CASE UnlinkPath(p)
  BY <1>7 DEF UnlinkPath
<1>8. CASE OpenSocket(p)
  BY <1>8 DEF OpenSocket
<1>9. CASE Bind(p)
  BY <1>9 DEF Bind
<1>10. CASE Listen(p)
  BY <1>10 DEF Listen
<1>11. CASE Daemonize(p)
  BY <1>11 DEF Daemonize
<1>12. CASE WritePid(p)
  BY <1>12 DEF WritePid
<1>13. CASE ClientCleanup(p)
  BY <1>13 DEF ClientCleanup
<1>14. CASE Start(p)
  BY <1>14 DEF Start
<1>15. CASE PingAnswer(p)
  BY <1>15 DEF PingAnswer
<1>16. CASE PingNoSocket(p)
  BY <1>16 DEF PingNoSocket
<1>17. CASE AlarmKills(p)
  BY <1>17 DEF AlarmKills
<1>18. CASE Die(p)
  BY <1>18 DEF Die
<1>19. CASE SignalExit(p)
  BY <1>19 DEF SignalExit
<1>20. CASE NumErrorsExit(p)
  BY <1>20 DEF NumErrorsExit
<1> QED
  BY <1>1, <1>2, <1>3, <1>4, <1>5, <1>6, <1>7, <1>8, <1>9, <1>10, <1>11, <1>12, <1>13,
     <1>14, <1>15, <1>16, <1>17, <1>18, <1>19, <1>20 DEF Own, Happens

(* Without a failure of socket() or listen() a daemon that got past server_setup
   listens.                                                                *)
LEMMA StepSocketMade ==
  ASSUME TypeOK, SocketMade, upsets' = {},
         NEW p \in Daemons, Own(p) \/ Happens(p), Remember
  PROVE  SocketMade'
<1> USE DaemonLifeAssumption DEF TypeOK, SocketMade, Goto, files, pinged, Pinging,
      InPing
<1>1. CASE PingConnect(p)
  BY <1>1 DEF PingConnect
<1>2. CASE PingWrite(p)
  BY <1>2 DEF PingWrite
<1>3. CASE PingRead(p)
  BY <1>3 DEF PingRead
<1>4. CASE PingTimeout(p)
  BY <1>4 DEF PingTimeout
<1>5. CASE PingReturn(p)
  BY <1>5 DEF PingReturn
<1>6. CASE AccessPath(p)
  BY <1>6 DEF AccessPath
<1>7. CASE UnlinkPath(p)
  BY <1>7 DEF UnlinkPath
<1>8. CASE OpenSocket(p)
  BY <1>8 DEF OpenSocket
<1>9. CASE Bind(p)
  BY <1>9 DEF Bind
<1>10. CASE Listen(p)
  BY <1>10 DEF Listen
<1>11. CASE Daemonize(p)
  BY <1>11 DEF Daemonize
<1>12. CASE WritePid(p)
  BY <1>12 DEF WritePid
<1>13. CASE ClientCleanup(p)
  BY <1>13 DEF ClientCleanup
<1>14. CASE Start(p)
  BY <1>14 DEF Start
<1>15. CASE PingAnswer(p)
  BY <1>15 DEF PingAnswer
<1>16. CASE PingNoSocket(p)
  BY <1>16 DEF PingNoSocket
<1>17. CASE AlarmKills(p)
  BY <1>17 DEF AlarmKills
<1>18. CASE Die(p)
  BY <1>18 DEF Die
<1>19. CASE SignalExit(p)
  BY <1>19 DEF SignalExit
<1>20. CASE NumErrorsExit(p)
  BY <1>20 DEF NumErrorsExit
<1> QED
  BY <1>1, <1>2, <1>3, <1>4, <1>5, <1>6, <1>7, <1>8, <1>9, <1>10, <1>11, <1>12, <1>13,
     <1>14, <1>15, <1>16, <1>17, <1>18, <1>19, <1>20 DEF Own, Happens

(* The path changes only when no daemon owns a file at it.                 *)
LEMMA StepOneOwner ==
  ASSUME TypeOK, MetOthers, SocketMade, OneOwner, ~ Overlap, upsets' = {},
         NEW p \in Daemons, Own(p) \/ Happens(p), Remember
  PROVE  OneOwner'
<1> USE DaemonLifeAssumption DEF TypeOK, MetOthers, OneOwner, Owner, Alive, SocketMade,
      Overlap, Goto, files, pinged, Points, Setup, Ended, Pinging, InPing, Making
<1>1. CASE PingConnect(p)
  BY <1>1 DEF PingConnect, Serving
<1>2. CASE PingWrite(p)
  <2>1. CASE Alive(peer[p])
    BY <1>2, <2>1 DEF PingWrite, Forget
  <2>2. CASE ~ Alive(peer[p])
    <3>1. /\ pc' = [pc EXCEPT ![p] = "killed"] /\ Forget(p)
          /\ UNCHANGED <<sock, files, upsets>>
      BY <1>2, <2>2 DEF PingWrite
    <3> QED
      BY <3>1 DEF Forget
  <2> QED
    BY <2>1, <2>2
<1>3. CASE PingRead(p)
  BY <1>3 DEF PingRead
<1>4. CASE PingTimeout(p)
  BY <1>4 DEF PingTimeout
<1>5. CASE PingReturn(p)
  BY <1>5 DEF PingReturn, Forget
<1>6. CASE AccessPath(p)
  BY <1>6 DEF AccessPath
<1>7. CASE UnlinkPath(p)
  BY <1>7 DEF UnlinkPath
<1>8. CASE OpenSocket(p)
  BY <1>8 DEF OpenSocket
<1>9. CASE Bind(p)
  BY <1>9 DEF Bind
<1>10. CASE Listen(p)
  BY <1>10 DEF Listen
<1>11. CASE Daemonize(p)
  BY <1>11 DEF Daemonize
<1>12. CASE WritePid(p)
  BY <1>12 DEF WritePid
<1>13. CASE ClientCleanup(p)
  BY <1>13 DEF ClientCleanup, Unlinked
<1>14. CASE Start(p)
  BY <1>14 DEF Start
<1>15. CASE PingAnswer(p)
  BY <1>15 DEF PingAnswer
<1>16. CASE PingNoSocket(p)
  BY <1>16 DEF PingNoSocket
<1>17. CASE AlarmKills(p)
  BY <1>17 DEF AlarmKills, Forget
<1>18. CASE Die(p)
  BY <1>18 DEF Die, Forget
<1>19. CASE SignalExit(p)
  BY <1>19 DEF SignalExit, Unlinked
<1>20. CASE NumErrorsExit(p)
  BY <1>20 DEF NumErrorsExit, Unlinked
<1> QED
  BY <1>1, <1>2, <1>3, <1>4, <1>5, <1>6, <1>7, <1>8, <1>9, <1>10, <1>11, <1>12, <1>13,
     <1>14, <1>15, <1>16, <1>17, <1>18, <1>19, <1>20 DEF Own, Happens

LEMMA InitIInv == ASSUME Init PROVE IInv
<1> USE DaemonLifeAssumption DEF Init, Points, Setup, Ended, Pinging, InPing, Making
<1>1. TypeOK /\ AlarmSet
  BY DEF TypeOK, AlarmSet
<1>2. MetOthers /\ SocketMade /\ ~ Overlap
  BY DEF MetOthers, SocketMade, Overlap
<1>3. OneOwner
  BY DEF OneOwner, Owner
<1> QED
  BY <1>1, <1>2, <1>3 DEF IInv

(* Every step keeps the invariant.                                         *)
LEMMA NextIInv == ASSUME IInv, [Next]_vars PROVE IInv'
<1>1. CASE UNCHANGED vars
  BY <1>1 DEF IInv, TypeOK, AlarmSet, MetOthers, Quiet, Overlap, SocketMade, OneOwner, Owner,
              Alive, vars
<1>2. CASE Next
  <2>1. PICK p \in Daemons : (Own(p) \/ Happens(p)) /\ Remember
    BY <1>2 DEF Next
  <2>2. TypeOK' /\ AlarmSet'
    BY <2>1, StepTypeOK DEF IInv
  <2>3. MetOthers'
    BY <2>1, StepMetOthers DEF IInv
  <2>4. ASSUME Quiet' PROVE ~ Overlap' /\ SocketMade' /\ OneOwner'
    <3>1. Quiet
      BY <2>1, <2>4, StepUpsets DEF IInv, Quiet, Remember
    <3>2. upsets' = {} /\ ~ Overlap'
      BY <2>1, <2>4 DEF Quiet, Remember
    <3> QED
      BY <2>1, <3>1, <3>2, StepSocketMade, StepOneOwner DEF IInv
  <2> QED
    BY <2>2, <2>3, <2>4 DEF IInv
<1> QED
  BY <1>1, <1>2

LEMMA InvariantHolds == Spec => []IInv
<1>1. Init => IInv
  BY InitIInv
<1>2. IInv /\ [Next]_vars => IInv'
  BY NextIInv
<1> QED
  BY <1>1, <1>2, PTL DEF Spec

(* As long as no ping is left unanswered and no two daemons set up servers
   around one old file, the socket file is the one of the daemon that listens
   and the pid file names the one that runs; the alarm of the ping never stays
   behind server_ping.  For any number of daemons, started and ended in any
   order.                                                                  *)
THEOREM FilesAlwaysKept == Spec => []FilesKept
<1>1. ASSUME IInv PROVE FilesKept
  <2>1. ASSUME Quiet, NEW p \in Daemons, Serving(p) PROVE path = p
    BY <1>1, <2>1 DEF IInv, OneOwner, Owner, Serving
  <2>2. ASSUME Quiet, NEW p \in Daemons \ Unprivileged, pc[p] = "loop" PROVE pidfile = p
    BY <1>1, <2>2 DEF IInv, OneOwner
  <2> QED
    BY <1>1, <2>1, <2>2 DEF IInv, FilesKept, ServerKept, PidFileKept
<1> QED
  BY <1>1, InvariantHolds, PTL

(* A daemon that gives up its start has met another live one, unless there
   was no descriptor for its ping or the old file could not be removed.    *)
THEOREM YieldsAlwaysToLive == Spec => []YieldsOnlyToLive
<1>1. IInv => YieldsOnlyToLive
  BY DEF IInv, MetOthers, YieldsOnlyToLive
<1> QED
  BY <1>1, InvariantHolds, PTL
=============================================================================
