------------------------------ MODULE Triggers ------------------------------
(***************************************************************************)
(* The trigger scripts of trigger.c: forking them, the limit on how many   *)
(* run at the same time, and collecting them, by the SIGCHLD handler of    *)
(* the daemon or by trigger_wait of a process that runs once.              *)
(*                                                                         *)
(* Two actors.  The main thread is in ppoll, in the callbacks ppoll's      *)
(* ready descriptors lead to, or in child_handler.  The children exit at   *)
(* any moment.  SIGCHLD is blocked outside ppoll (event_signal), it is a   *)
(* standard signal (at most one is pending, with the si_pid of the first   *)
(* child that raised it), and a ppoll that finds ready descriptors returns *)
(* them without delivering it.                                             *)
(***************************************************************************)
EXTENDS Naturals, FiniteSets

CONSTANTS
  Pids,           \* process ids of the children
  NoPid,          \* no signal is pending
  children_max,   \* "children-max" of [trigger], 0 for no limit
  PidWrap         \* may a pid come back while a signal still names it?

ASSUME TriggersAssumption ==
  /\ NoPid \notin Pids
  /\ children_max \in Nat
  /\ PidWrap \in BOOLEAN

VARIABLES
  pc,             \* what the main thread does
  proc,           \* kernel: the process each pid names
  pending,        \* kernel: si_pid of the pending SIGCHLD, or NoPid
  si_pid,         \* the argument of child_handler
  childlist,      \* pids of the struct child on childlist
  num_children

vars == <<pc, proc, pending, si_pid, childlist, num_children>>

\* "once" and "trigger_wait" are the process that runs once, which ends in
\* "exited"; "left" is the end of either process by an exit() that does not
\* pass trigger_wait; the others but "aborted" are the daemon.
PCs == {"ppoll", "callbacks", "child_handler", "reap_others",
        "once", "trigger_wait", "exited", "left", "aborted"}

Children == {p \in Pids : proc[p] # "free"}

Init ==
  /\ pc \in {"ppoll", "once"}
  /\ proc = [p \in Pids |-> "free"]
  /\ pending = NoPid
  /\ si_pid = NoPid
  /\ childlist = {}
  /\ num_children = 0

-----------------------------------------------------------------------------
\* A child exits or dies and raises SIGCHLD.
ChildExit(p) ==
  /\ proc[p] = "running"
  /\ pc \notin {"exited", "left", "aborted"}
  /\ proc' = [proc EXCEPT ![p] = "zombie"]
  /\ pending' = IF pending = NoPid THEN p ELSE pending
  /\ UNCHANGED <<pc, si_pid, childlist, num_children>>

\* ppoll returns ready descriptors; a pending signal stays pending.
PpollReady ==
  /\ pc = "ppoll"
  /\ pc' = "callbacks"
  /\ UNCHANGED <<proc, pending, si_pid, childlist, num_children>>

\* ppoll finds nothing ready and delivers SIGCHLD.
PpollSignal ==
  /\ pc = "ppoll"
  /\ pending # NoPid
  /\ pc' = "child_handler"
  /\ si_pid' = pending
  /\ pending' = NoPid
  /\ UNCHANGED <<proc, childlist, num_children>>

\* The callbacks of this round are done.
CallbacksDone ==
  /\ pc = "callbacks"
  /\ pc' = "ppoll"
  /\ UNCHANGED <<proc, pending, si_pid, childlist, num_children>>

\* The kernel does not hand out a pid twice in a short time, unless the pid
\* space is exhausted and wraps around.
FreshPid(p) == proc[p] = "free" /\ (p # pending \/ PidWrap)

\* Mutant: the child is not put on the list.
mcelog_fork_Unlisted(p) ==
  /\ FreshPid(p)
  /\ proc' = [proc EXCEPT ![p] = "running"]
  /\ num_children' = num_children + 1
  /\ UNCHANGED childlist

mcelog_fork(p) ==
  /\ FreshPid(p)
  /\ proc' = [proc EXCEPT ![p] = "running"]
  /\ num_children' = num_children + 1
  /\ childlist' = childlist \cup {p}

\* Mutant: > for >=.
run_trigger_OneMore(p) ==
  /\ pc \in {"callbacks", "once"}
  /\ ~ (children_max > 0 /\ num_children > children_max)
  /\ mcelog_fork(p)
  /\ UNCHANGED <<pc, pending, si_pid>>

\* Nothing changes when there are too many children, or when fork fails.
run_trigger(p) ==
  /\ pc \in {"callbacks", "once"}
  /\ ~ (children_max > 0 /\ num_children >= children_max)
  /\ mcelog_fork(p)
  /\ UNCHANGED <<pc, pending, si_pid>>

\* finish_child of a pid on the list, else its abort(); npc is where the
\* caller goes on.
finish_child(p, npc) ==
  /\ childlist' = childlist \ {p}
  /\ num_children' = IF p \in childlist THEN num_children - 1 ELSE num_children
  /\ pc' = IF p \in childlist THEN npc ELSE "aborted"

\* A successful waitpid removes the zombie.
Reap(p) == proc' = [proc EXCEPT ![p] = "free"]

\* waitpid(si->si_pid, WNOHANG) fails: no such child (any more).
HandlerNoChild ==
  /\ pc = "child_handler"
  /\ proc[si_pid] = "free"
  /\ pc' = "ppoll"
  /\ UNCHANGED <<proc, pending, si_pid, childlist, num_children>>

\* Mutant: no loop for the other children.
HandlerFinish_One ==
  /\ pc = "child_handler"
  /\ proc[si_pid] # "free"
  /\ IF proc[si_pid] = "zombie" THEN Reap(si_pid) ELSE UNCHANGED proc
  /\ finish_child(si_pid, "ppoll")
  /\ UNCHANGED <<pending, si_pid>>

\* It returns the pid of a zombie, or 0 for a child that still runs: the
\* result is not told apart.
HandlerFinish ==
  /\ pc = "child_handler"
  /\ proc[si_pid] # "free"
  /\ IF proc[si_pid] = "zombie" THEN Reap(si_pid) ELSE UNCHANGED proc
  /\ finish_child(si_pid, "reap_others")
  /\ UNCHANGED <<pending, si_pid>>

\* Mutant: the loop collects the others without finish_child.
HandlerReapOther_Unfinished(p) ==
  /\ pc = "reap_others"
  /\ proc[p] = "zombie"
  /\ Reap(p)
  /\ UNCHANGED <<pc, pending, si_pid, childlist, num_children>>

\* while ((pid = waitpid(-1, WNOHANG)) > 0)
HandlerReapOther(p) ==
  /\ pc = "reap_others"
  /\ proc[p] = "zombie"
  /\ Reap(p)
  /\ finish_child(p, "reap_others")
  /\ UNCHANGED <<pending, si_pid>>

HandlerReturn ==
  /\ pc = "reap_others"
  /\ \A p \in Pids : proc[p] # "zombie"
  /\ pc' = "ppoll"
  /\ UNCHANGED <<proc, pending, si_pid, childlist, num_children>>

\* exit(0) behind trigger_wait's back: of process() after --num-errors
\* records, in the daemon and in the process that runs once, and of main()
\* after --ascii.  The children run on without a parent.
ExitEarly ==
  /\ pc \in {"callbacks", "once"}
  /\ pc' = "left"
  /\ UNCHANGED <<proc, pending, si_pid, childlist, num_children>>

\* The process that runs once has decoded the records of the device.
OnceDone ==
  /\ pc = "once"
  /\ pc' = "trigger_wait"
  /\ UNCHANGED <<proc, pending, si_pid, childlist, num_children>>

\* while ((pid = waitpid(-1, 0)) > 0): waits for any child.
trigger_wait(p) ==
  /\ pc = "trigger_wait"
  /\ proc[p] = "zombie"
  /\ Reap(p)
  /\ finish_child(p, "trigger_wait")
  /\ UNCHANGED <<pending, si_pid>>

\* Mutant: WNOHANG, children that still run are left behind.
WaitReturn_NoHang ==
  /\ pc = "trigger_wait"
  /\ \A p \in Pids : proc[p] # "zombie"
  /\ pc' = "exited"
  /\ UNCHANGED <<proc, pending, si_pid, childlist, num_children>>

\* Mutant: waits for SIGCHLD, which is blocked, to be handled too.
WaitReturn_Signal ==
  /\ pc = "trigger_wait"
  /\ Children = {} /\ pending = NoPid
  /\ pc' = "exited"
  /\ UNCHANGED <<proc, pending, si_pid, childlist, num_children>>

WaitReturn ==
  /\ pc = "trigger_wait"
  /\ Children = {}
  /\ pc' = "exited"
  /\ UNCHANGED <<proc, pending, si_pid, childlist, num_children>>

MainStep ==
  \/ CallbacksDone
  \/ HandlerNoChild
  \/ HandlerFinish
  \/ \E p \in Pids : HandlerReapOther(p)
  \/ HandlerReturn
  \/ OnceDone
  \/ \E p \in Pids : trigger_wait(p)
  \/ WaitReturn

Next ==
  \/ \E p \in Pids : ChildExit(p)
  \/ PpollReady
  \/ PpollSignal
  \/ \E p \in Pids : run_trigger(p)
  \/ ExitEarly
  \/ MainStep

\* The main thread goes on, trigger scripts end, and the descriptors are not
\* ready at every single ppoll (else SIGCHLD is never delivered).
Fairness ==
  /\ WF_vars(MainStep)
  /\ SF_vars(PpollSignal)
  /\ \A p \in Pids : WF_vars(ChildExit(p))

Spec == Init /\ [][Next]_vars

FairSpec == Spec /\ Fairness

-----------------------------------------------------------------------------
TypeOK ==
  /\ pc \in PCs
  /\ proc \in [Pids -> {"free", "running", "zombie"}]
  /\ pending \in Pids \cup {NoPid}
  /\ si_pid \in Pids \cup {NoPid}
  /\ childlist \subseteq Pids
  /\ num_children \in Nat

(* finish_child finds every child waitpid reports, so its abort() is never
   reached, whatever order children exit in and signals are merged in.     *)
NoAbort == pc # "aborted"

(* childlist holds exactly the children the kernel still keeps for the
   process, and num_children is their number: none is forgotten or counted
   twice, whichever of the three waitpid calls collects it.                *)
ChildListExact ==
  /\ childlist = Children
  /\ num_children = Cardinality(childlist)

(* "children-max" bounds the processes that exist, zombies included, and
   not only the counter.                                                   *)
LimitRespected == children_max > 0 => Cardinality(Children) <= children_max

(* A process that runs once and ends at the end of main() leaves no trigger
   behind: trigger_wait returns only after the last child was collected.
   (The exits that do not pass trigger_wait, after --num-errors records and
   after --ascii, are "left" and do leave children behind.)                *)
AllCollectedAtExit == pc = "exited" => Children = {} /\ num_children = 0

(* trigger_wait ends, although it waits for children without a time limit
   and SIGCHLD is never delivered to it.                                   *)
WaitEnds == pc = "trigger_wait" ~> pc = "exited"

(* SIGCHLD of several children may be merged into one: when it names a
   child that was not collected yet, child_handler collects every zombie
   there is, unless the process exits before.                              *)
MergedSignalsCollectAll ==
  \A p \in Pids :
    (/\ proc[p] = "zombie"
     /\ pending # NoPid
     /\ proc[pending] = "zombie") ~> (proc[p] = "free" \/ pc = "left")

(* "Check other child(ren)'s status to avoid zombie process" (trigger.c):
   children that exited do not keep every place below children-max, so
   triggers can run again.                                                 *)
SlotsFreed ==
  []<>(num_children < children_max \/ pc \in {"once", "exited", "left"})
=============================================================================
