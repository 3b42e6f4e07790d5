------------------------------ MODULE EventLoop ------------------------------
(***************************************************************************)
(* The parent of a mahimahi shell and its children: EventLoop              *)
(* (src/src/util/event_loop.cc) on ChildProcess (child_process.cc) and     *)
(* SignalFD (signalfd.cc).                                                 *)
(*                                                                         *)
(* The kernel's side is what the code uses of it: a child has at most one  *)
(* change of state to report (the latest), reporting it takes a waitid,    *)
(* and SIGCHLD is pending or not, however many children have sent it.      *)
(* Children change state between any two system calls of the parent.       *)
(***************************************************************************)
EXTENDS Integers

CONSTANTS
  N,               \* number of children, in the order they were added
  ContinueStatus,  \* per child: the status on which the parent goes on, or -1
  ExitStatuses,    \* statuses children may exit with
  MaxStops         \* bound: times a child is suspended

ASSUME EventLoopAssumption ==
  /\ N \in Nat \ {0}
  /\ ContinueStatus \in [1..N -> Int]
  /\ ExitStatuses \subseteq Nat
  /\ MaxStops \in Nat

Children == 1..N

VARIABLES
  kstate,          \* kernel: "running", "stopped", "zombie" or "reaped"
  change,          \* kernel: the change of state to report, or "none"
  status,          \* kernel: the status a zombie has left
  hangup,          \* kernel: is the termination signal pending in the child?
  signals,         \* kernel: signals pending in the signalfd
  stopped,         \* kernel: is the parent suspended?
  stops,           \* history: suspensions so far
  running, terminated, exit_status,    \* of the ChildProcess objects
  pc, i,           \* where the parent is; index of the loops over children
  threw            \* has the parent left its loop by an exception?

kernelVars == <<kstate, change, status, hangup, stops>>
childVars == <<running, terminated, exit_status>>
vars == <<kernelVars, signals, stopped, childVars, pc, i, threw>>

Init ==
  /\ kstate = [c \in Children |-> "running"]
  /\ change = [c \in Children |-> "none"]
  /\ status = [c \in Children |-> 0]
  /\ hangup = [c \in Children |-> FALSE]
  /\ signals = {} /\ stopped = FALSE /\ stops = 0
  /\ running = [c \in Children |-> TRUE]
  /\ terminated = [c \in Children |-> FALSE]
  /\ exit_status = [c \in Children |-> 0]
  /\ pc = "poll" /\ i = 1 /\ threw = FALSE
------------------------------------------------------------------------------
(* The children, and the user at the terminal.                              *)

Die(c, s) ==
  /\ kstate[c] = "running"
  /\ kstate' = [kstate EXCEPT ![c] = "zombie"]
  /\ change' = [change EXCEPT ![c] = "exited"]
  /\ status' = [status EXCEPT ![c] = s]
  /\ signals' = signals \cup {"SIGCHLD"}
  /\ UNCHANGED <<hangup, stops, stopped, childVars, pc, i, threw>>

ChildExits(c) == \E s \in ExitStatuses : Die(c, s)

\* The termination signal ends a child that is not suspended.
ChildHangsUp(c) == hangup[c] /\ Die(c, 1)

ChildStops(c) ==
  /\ kstate[c] = "running" /\ stops < MaxStops
  /\ kstate' = [kstate EXCEPT ![c] = "stopped"]
  /\ change' = [change EXCEPT ![c] = "stopped"]
  /\ signals' = signals \cup {"SIGCHLD"}
  /\ stops' = stops + 1
  /\ UNCHANGED <<status, hangup, stopped, childVars, pc, i, threw>>

\* Someone other than the parent (the terminal) resumes a child.
ChildContinues(c) ==
  /\ kstate[c] = "stopped"
  /\ kstate' = [kstate EXCEPT ![c] = "running"]
  /\ change' = [change EXCEPT ![c] = "continued"]
  /\ signals' = signals \cup {"SIGCHLD"}
  /\ UNCHANGED <<status, hangup, stops, stopped, childVars, pc, i, threw>>

\* SIGTSTP is not in the mask of the event loop.
UserSuspends ==
  /\ ~stopped /\ pc # "exited" /\ stops < MaxStops
  /\ stopped' = TRUE /\ signals' = signals \ {"SIGCONT"}
  /\ stops' = stops + 1
  /\ UNCHANGED <<kstate, change, status, hangup, childVars, pc, i, threw>>

UserContinues ==
  /\ stopped
  /\ stopped' = FALSE /\ signals' = signals \cup {"SIGCONT"}
  /\ UNCHANGED <<kernelVars, childVars, pc, i, threw>>

UserTerminates ==
  /\ pc # "exited" /\ signals' = signals \cup {"SIGTERM"}
  /\ UNCHANGED <<kernelVars, stopped, childVars, pc, i, threw>>
------------------------------------------------------------------------------
(* handle_signal.                                                           *)

\* SIGCONT sent to the children in S.
Resumed(S) ==
  LET woken == {c \in S : kstate[c] = "stopped"} IN
  /\ kstate' = [c \in Children |-> IF c \in woken THEN "running" ELSE kstate[c]]
  /\ change' = [c \in Children |-> IF c \in woken THEN "continued" ELSE change[c]]
  /\ signals' = (signals \ {"SIGCONT"})
                \cup (IF woken # {} THEN {"SIGCHLD"} ELSE {})

\* mutant: only children that the parent takes to be running are resumed
SuspendedInverted(c) == running[c]
\* The condition of resume().
Suspended(c) == ~running[c]

\* resume() and signal(): the children that get a SIGCONT
ToResume == {c \in Children : Suspended(c) /\ ~terminated[c]}

handle_SIGCONT ==
  /\ pc = "poll" /\ ~stopped /\ "SIGCONT" \in signals
  /\ Resumed(ToResume)
  /\ UNCHANGED <<status, hangup, stops, stopped, childVars, pc, i, threw>>

handle_SIGTERM ==
  /\ pc = "poll" /\ ~stopped /\ "SIGTERM" \in signals
  /\ signals' = signals \ {"SIGTERM"}
  /\ pc' = "destroy" /\ i' = 1
  /\ UNCHANGED <<kernelVars, stopped, childVars, threw>>

handle_SIGCHLD ==
  /\ pc = "poll" /\ ~stopped /\ "SIGCHLD" \in signals
  /\ signals' = signals \ {"SIGCHLD"}
  /\ pc' = "search" /\ i' = 1
  /\ UNCHANGED <<kernelVars, stopped, childVars, threw>>

Following == i + 1

waitable(c) == change[c] # "none"

search ==
  /\ pc = "search" /\ ~stopped
  /\ IF i > N THEN pc' = "poll" /\ i' = 1
     ELSE IF terminated[i] \/ ~waitable(i) THEN i' = Following /\ UNCHANGED pc
     ELSE pc' = "wait" /\ UNCHANGED i
  /\ UNCHANGED <<kernelVars, signals, stopped, childVars, threw>>

\* mutant: a child that runs again is not noticed
RunningOnlyCleared(c) == running[c] /\ change[c] # "stopped"
\* running_ once the change of child c has been taken.
RunningAfter(c) ==
  CASE change[c] = "stopped" -> FALSE
    [] change[c] = "continued" -> TRUE
    [] OTHER -> running[c]

\* ChildProcess::wait of child c: take its change of state.
wait(c) ==
  /\ change' = [change EXCEPT ![c] = "none"]
  /\ kstate' = [kstate EXCEPT ![c] = IF change[c] = "exited" THEN "reaped" ELSE @]
  /\ terminated' = [terminated EXCEPT ![c] = (change[c] = "exited")]
  /\ exit_status' = [exit_status EXCEPT ![c] =
                       IF change[c] = "exited" THEN status[c] ELSE @]
  /\ running' = [running EXCEPT ![c] = RunningAfter(c)]
  /\ UNCHANGED <<status, hangup, stops>>

\* mutant: after one child has ended the parent never looks at the others
StopSearching(c) == "poll"
\* What handle_signal does once child c has terminated.
AfterExit(c) ==
  LET s == status[c] IN
  IF s # 0 /\ s # ContinueStatus[c] THEN "throw"
  ELSE IF \A d \in Children : terminated'[d] THEN "destroy"
  ELSE IF s = ContinueStatus[c] THEN "poll" ELSE "destroy"

wait_terminated ==
  /\ pc = "wait" /\ ~stopped /\ change[i] = "exited"
  /\ wait(i)
  /\ threw' = (AfterExit(i) = "throw")
  /\ pc' = IF AfterExit(i) = "throw" THEN "destroy" ELSE AfterExit(i)
  /\ i' = 1
  /\ UNCHANGED <<signals, stopped>>

\* The parent suspends itself along with a child; a stop discards SIGCONT.
wait_stopped ==
  /\ pc = "wait" /\ ~stopped /\ change[i] = "stopped"
  /\ wait(i)
  /\ stopped' = TRUE /\ signals' = signals \ {"SIGCONT"}
  /\ pc' = "search" /\ i' = Following
  /\ UNCHANGED threw

\* mutant: the search is over after one child that runs again
LeaveSearch == "poll"
\* The search goes on.
GoOn == "search"

wait_continued ==
  /\ pc = "wait" /\ ~stopped /\ change[i] = "continued"
  /\ wait(i)
  /\ pc' = GoOn /\ i' = Following
  /\ UNCHANGED <<signals, stopped, threw>>
------------------------------------------------------------------------------
(* ~ChildProcess, for every child in turn, when the loop is left.           *)

destroy ==
  /\ pc = "destroy" /\ ~stopped /\ i <= N
  /\ IF terminated[i]
     THEN /\ i' = i + 1
          /\ UNCHANGED <<kernelVars, signals, pc>>
     ELSE /\ IF Suspended(i) THEN Resumed({i})
             ELSE UNCHANGED <<kstate, change, signals>>
          /\ hangup' = [hangup EXCEPT ![i] = TRUE]
          /\ pc' = "reap"
          /\ UNCHANGED <<status, stops, i>>
  /\ UNCHANGED <<stopped, childVars, threw>>

\* mutant: one change of state is taken for the end of the child
NextChild == i + 1
\* The loop looks at the same child again.
SameChild == i

\* wait() blocks until the child has something to report.
reap ==
  /\ pc = "reap" /\ ~stopped /\ waitable(i)
  /\ wait(i)
  /\ pc' = "destroy" /\ i' = SameChild
  /\ UNCHANGED <<signals, stopped, threw>>

all_destroyed ==
  /\ pc = "destroy" /\ ~stopped /\ i > N
  /\ pc' = "exited"
  /\ UNCHANGED <<kernelVars, signals, stopped, childVars, i, threw>>
------------------------------------------------------------------------------
Parent ==
  \/ handle_SIGCONT \/ handle_SIGTERM \/ handle_SIGCHLD
  \/ search \/ wait_terminated \/ wait_stopped \/ wait_continued
  \/ destroy \/ reap \/ all_destroyed

Next ==
  \/ Parent \/ UserSuspends \/ UserContinues \/ UserTerminates
  \/ \E c \in Children : \/ ChildExits(c) \/ ChildHangsUp(c)
                          \/ ChildStops(c) \/ ChildContinues(c)

Spec == Init /\ [][Next]_vars

\* The parent runs unless it waits or is suspended, and a child that has
\* been told to hang up does so if it gets to run.
Fairness ==
  /\ WF_vars(Parent)
  /\ \A c \in Children : WF_vars(ChildHangsUp(c))

FairSpec == Spec /\ Fairness
------------------------------------------------------------------------------
(* Properties.                                                              *)

\* Every variable has its type: in particular the index of the loops over the
\* children stays within the vector.
TypeOK ==
  /\ kstate \in [Children -> {"running", "stopped", "zombie", "reaped"}]
  /\ change \in [Children -> {"none", "exited", "stopped", "continued"}]
  /\ status \in [Children -> Nat] /\ exit_status \in [Children -> Nat]
  /\ hangup \in [Children -> BOOLEAN]
  /\ signals \subseteq {"SIGCHLD", "SIGCONT", "SIGTERM"}
  /\ stopped \in BOOLEAN /\ stops \in 0..MaxStops
  /\ running \in [Children -> BOOLEAN] /\ terminated \in [Children -> BOOLEAN]
  /\ pc \in {"poll", "search", "wait", "destroy", "reap", "exited"}
  /\ i \in 1..(N + 1) /\ threw \in BOOLEAN

\* No change of state is missed, although several children share one pending
\* SIGCHLD: a parent that sleeps in poll with no signal pending has taken
\* every child's latest change.
NoMissedEvent ==
  pc = "poll" /\ signals = {} => \A c \in Children : change[c] = "none"

\* No child has left with its continue status so far.
Attentive ==
  \A c \in Children : terminated[c] => exit_status[c] # ContinueStatus[c]

\* The only changes the parent can miss are those it has not looked for when
\* a child left with its continue status: until one has, a parent that sleeps
\* in poll has taken every change, however many came behind one SIGCHLD.
MissedOnlyBehindFerry == Attentive => NoMissedEvent

\* Suspended together, resumed together: a parent that is not suspended and
\* has nothing left to handle has no suspended child.
ResumedTogether ==
  Attentive /\ pc = "poll" /\ signals = {} /\ ~stopped =>
    \A c \in Children : running[c] /\ kstate[c] # "stopped"

\* What a ChildProcess object remembers is true or about to be corrected.
RemembersTheTruth ==
  \A c \in Children :
    /\ terminated[c] <=> kstate[c] = "reaped"
    /\ change[c] = "none" /\ ~terminated[c] =>
         (running[c] <=> kstate[c] = "running")

\* The parent leaves no child behind, whichever way it ends.
NoOrphans == pc = "exited" => \A c \in Children : kstate[c] = "reaped"

\* The end of an ordinary child ends the shell, unless it is suspended or a
\* child has left with its continue status.
ChildExitEndsShell ==
  \A c \in Children :
    (kstate[c] = "zombie" /\ ContinueStatus[c] = -1)
      ~> (pc = "exited" \/ stopped \/ ~Attentive)

\* The destructors come to their end, even if children are suspended, known
\* to the parent or not; only a suspension of the parent itself holds them up.
DestructionEnds == (pc = "destroy") ~> (pc = "exited" \/ stopped)
==============================================================================
