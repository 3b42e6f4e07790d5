--------------------------- MODULE EventLoopProofs ---------------------------
(***************************************************************************)
(* Proofs about EventLoop, for any number of children.                     *)
(***************************************************************************)
EXTENDS EventLoop, TLAPS

\* The children already destroyed, when the destructors have come to child i.
DestroyedInv ==
  /\ pc \in {"destroy", "reap"} => \A c \in Children : c < i => terminated[c]
  /\ pc \in {"wait", "reap"} => i \in Children /\ ~terminated[i]
  /\ pc = "exited" => \A c \in Children : terminated[c]

\* The parent is in wait only when there is something to take.
WaitInv == pc = "wait" => change[i] # "none"

\* A child that has been reaped has nothing to report any more, one that has
\* a last change to report is a zombie, and no other child is.
KernelInv ==
  \A c \in Children :
    /\ change[c] = "exited" <=> kstate[c] = "zombie"
    /\ change[c] = "stopped" => kstate[c] = "stopped"
    /\ change[c] = "continued" => kstate[c] = "running"
    /\ kstate[c] = "reaped" => change[c] = "none"

\* The inductive invariant.
IInv == TypeOK /\ RemembersTheTruth /\ KernelInv /\ DestroyedInv /\ WaitInv

\* The constants, in the form the proofs use them.
LEMMA Constants ==
  /\ N \in Nat /\ N > 0 /\ \A s \in ExitStatuses : s \in Nat
  /\ Children = 1..N /\ MaxStops \in Nat
BY EventLoopAssumption DEF Children

\* The parent starts with all its children running.
LEMMA InitIInv == Init => IInv
<1> SUFFICES ASSUME Init PROVE IInv
  OBVIOUS
<1>1. /\ kstate \in [Children -> {"running", "stopped", "zombie", "reaped"}]
      /\ change \in [Children -> {"none", "exited", "stopped", "continued"}]
  BY DEF Init
<1>2. /\ status \in [Children -> Nat] /\ exit_status \in [Children -> Nat]
      /\ hangup \in [Children -> BOOLEAN]
      /\ running \in [Children -> BOOLEAN]
      /\ terminated \in [Children -> BOOLEAN]
  BY DEF Init
<1>3. /\ signals \subseteq {"SIGCHLD", "SIGCONT", "SIGTERM"}
      /\ stopped \in BOOLEAN /\ stops \in 0..MaxStops
      /\ i \in 1..(N + 1) /\ threw \in BOOLEAN
  <2>1. stopped \in BOOLEAN /\ threw \in BOOLEAN /\ signals = {}
    BY DEF Init
  <2>2. stops \in 0..MaxStops /\ i \in 1..(N + 1)
    BY Constants DEF Init
  <2> QED
    BY <2>1, <2>2
<1>4. TypeOK
  BY <1>1, <1>2, <1>3 DEF Init, TypeOK
<1>5. RemembersTheTruth /\ KernelInv
  BY DEF Init, RemembersTheTruth, KernelInv
<1>6. DestroyedInv /\ WaitInv
  BY DEF Init, DestroyedInv, WaitInv
<1> QED
  BY <1>4, <1>5, <1>6 DEF IInv

\* Steps of the children and the user.
LEMMA OutsideIInv ==
  ASSUME IInv,
         \/ UserSuspends \/ UserContinues \/ UserTerminates
         \/ \E c \in Children : \/ ChildExits(c) \/ ChildHangsUp(c)
                                \/ ChildStops(c) \/ ChildContinues(c)
  PROVE  IInv'
<1> USE Constants DEF IInv, TypeOK, RemembersTheTruth, KernelInv,
        DestroyedInv, WaitInv, kernelVars, childVars
<1>1. CASE UserSuspends
  BY <1>1 DEF UserSuspends
<1>2. CASE UserContinues
  BY <1>2 DEF UserContinues
<1>3. CASE UserTerminates
  BY <1>3 DEF UserTerminates
<1>4. ASSUME NEW c \in Children, NEW s \in Nat, Die(c, s) PROVE IInv'
  BY <1>4, SMTT(30) DEF Die
<1>5. ASSUME NEW c \in Children, ChildStops(c) PROVE IInv'
  BY <1>5, SMTT(30) DEF ChildStops
<1>6. ASSUME NEW c \in Children, ChildContinues(c) PROVE IInv'
  BY <1>6, SMTT(30) DEF ChildContinues
<1>7. ASSUME NEW c \in Children, ChildExits(c) \/ ChildHangsUp(c) PROVE IInv'
  BY <1>7, <1>4 DEF ChildExits, ChildHangsUp
<1> QED
  BY <1>1, <1>2, <1>3, <1>5, <1>6, <1>7

\* Taking a child's change of state.
LEMMA WaitKeeps ==
  ASSUME IInv, NEW c \in Children, change[c] # "none", wait(c)
  PROVE  /\ kstate' \in [Children -> {"running", "stopped", "zombie", "reaped"}]
         /\ change' \in [Children -> {"none", "exited", "stopped", "continued"}]
         /\ exit_status' \in [Children -> Nat]
         /\ running' \in [Children -> BOOLEAN]
         /\ terminated' \in [Children -> BOOLEAN]
         /\ UNCHANGED <<status, hangup, stops>>
         /\ RemembersTheTruth' /\ KernelInv'
         /\ \A d \in Children : terminated[d] => terminated'[d]
         /\ \A d \in Children : d # c =>
              terminated'[d] = terminated[d] /\ change'[d] = change[d]
<1>1. /\ kstate' \in [Children -> {"running", "stopped", "zombie", "reaped"}]
      /\ change' \in [Children -> {"none", "exited", "stopped", "continued"}]
      /\ exit_status' \in [Children -> Nat]
      /\ terminated' \in [Children -> BOOLEAN]
      /\ UNCHANGED <<status, hangup, stops>>
  BY DEF IInv, TypeOK, wait, RunningAfter
<1>2. running' \in [Children -> BOOLEAN]
  BY DEF IInv, TypeOK, wait, RunningAfter
<1>3. ~terminated[c]
  BY DEF IInv, RemembersTheTruth, KernelInv
<1>4. RemembersTheTruth'
  BY <1>3, ZenonT(30) DEF IInv, TypeOK, RemembersTheTruth, KernelInv, wait, RunningAfter
<1>5. KernelInv'
  BY DEF IInv, TypeOK, KernelInv, wait, RunningAfter
<1>6. \A d \in Children : terminated[d] => terminated'[d]
  BY <1>3 DEF IInv, TypeOK, wait, RunningAfter
<1>7. \A d \in Children : d # c =>
        terminated'[d] = terminated[d] /\ change'[d] = change[d]
  BY DEF IInv, TypeOK, wait, RunningAfter
<1> QED
  BY <1>1, <1>2, <1>4, <1>5, <1>6, <1>7

\* Sending SIGCONT to some children.
LEMMA ResumedKeeps ==
  ASSUME IInv, NEW S \in SUBSET Children, Resumed(S),
         UNCHANGED <<running, terminated>>
  PROVE  /\ kstate' \in [Children -> {"running", "stopped", "zombie", "reaped"}]
         /\ change' \in [Children -> {"none", "exited", "stopped", "continued"}]
         /\ signals' \subseteq {"SIGCHLD", "SIGCONT", "SIGTERM"}
         /\ RemembersTheTruth' /\ KernelInv'
         /\ \A c \in Children : change'[c] # change[c] => "SIGCHLD" \in signals'
<1>1. /\ kstate' \in [Children -> {"running", "stopped", "zombie", "reaped"}]
      /\ change' \in [Children -> {"none", "exited", "stopped", "continued"}]
      /\ signals' \subseteq {"SIGCHLD", "SIGCONT", "SIGTERM"}
  BY DEF IInv, TypeOK, Resumed
<1>2. RemembersTheTruth' /\ KernelInv'
  BY DEF IInv, TypeOK, RemembersTheTruth, KernelInv, Resumed
<1>3. \A c \in Children : change'[c] # change[c] => "SIGCHLD" \in signals'
  BY DEF IInv, TypeOK, Resumed
<1> QED
  BY <1>1, <1>2, <1>3

\* Steps of the parent.
LEMMA ParentIInv == ASSUME IInv, Parent PROVE IInv'
<1> USE Constants
<1>t. TypeOK /\ RemembersTheTruth /\ KernelInv /\ DestroyedInv /\ WaitInv
  BY DEF IInv
<1>1. CASE handle_SIGCONT
  <2>1. ToResume \in SUBSET Children
    BY DEF ToResume, Suspended
  <2>2. /\ Resumed(ToResume)
        /\ UNCHANGED <<status, hangup, stops, stopped, running, terminated,
                       exit_status, pc, i, threw>>
        /\ pc = "poll"
    BY <1>1 DEF handle_SIGCONT, childVars
  <2>3. RemembersTheTruth' /\ KernelInv' /\ TypeOK'
    BY <1>t, <2>1, <2>2, ResumedKeeps DEF TypeOK
  <2>4. DestroyedInv' /\ WaitInv'
    BY <1>t, <2>2 DEF DestroyedInv, WaitInv
  <2> QED
    BY <2>3, <2>4 DEF IInv
<1>2. CASE handle_SIGTERM \/ handle_SIGCHLD
  <2>1. /\ pc = "poll" /\ pc' \in {"search", "destroy"} /\ i' = 1
        /\ signals' \subseteq signals
        /\ UNCHANGED <<kstate, change, status, hangup, stops, stopped,
                       running, terminated, exit_status, threw>>
    BY <1>2 DEF handle_SIGTERM, handle_SIGCHLD, kernelVars, childVars
  <2>2. TypeOK'
    BY <1>t, <2>1 DEF TypeOK
  <2>3. RemembersTheTruth' /\ KernelInv'
    BY <1>t, <2>1 DEF RemembersTheTruth, KernelInv
  <2>4. DestroyedInv' /\ WaitInv'
    BY <2>1 DEF DestroyedInv, WaitInv
  <2> QED
    BY <2>2, <2>3, <2>4 DEF IInv
<1>3. CASE search
  <2>1. /\ pc = "search"
        /\ UNCHANGED <<kstate, change, status, hangup, stops, signals, stopped,
                       running, terminated, exit_status, threw>>
    BY <1>3 DEF search, Following, kernelVars, childVars
  <2>2. \/ pc' = "poll" /\ i' = 1
        \/ i \in Children /\ i' = i + 1 /\ pc' = pc
        \/ /\ i \in Children /\ ~terminated[i] /\ change[i] # "none"
           /\ pc' = "wait" /\ i' = i
    BY <1>t, <1>3 DEF search, Following, waitable, TypeOK
  <2>3. TypeOK'
    BY <1>t, <2>1, <2>2, SMTT(30) DEF TypeOK
  <2>4. RemembersTheTruth' /\ KernelInv'
    BY <1>t, <2>1 DEF RemembersTheTruth, KernelInv
  <2>5. DestroyedInv' /\ WaitInv'
    BY <2>1, <2>2 DEF DestroyedInv, WaitInv
  <2> QED
    BY <2>3, <2>4, <2>5 DEF IInv
<1>4. CASE wait_terminated \/ wait_stopped \/ wait_continued \/ reap
  <2>1. i \in Children /\ change[i] # "none" /\ ~terminated[i] /\ wait(i)
    BY <1>t, <1>4 DEF wait_terminated, wait_stopped, wait_continued, reap,
       waitable, DestroyedInv, WaitInv
  <2>2. /\ kstate' \in [Children -> {"running", "stopped", "zombie", "reaped"}]
        /\ change' \in [Children -> {"none", "exited", "stopped", "continued"}]
        /\ exit_status' \in [Children -> Nat]
        /\ running' \in [Children -> BOOLEAN]
        /\ terminated' \in [Children -> BOOLEAN]
        /\ UNCHANGED <<status, hangup, stops>>
        /\ RemembersTheTruth' /\ KernelInv'
        /\ \A d \in Children : terminated[d] => terminated'[d]
        /\ \A d \in Children : d # i =>
             terminated'[d] = terminated[d] /\ change'[d] = change[d]
    BY <2>1, WaitKeeps
  <2>3. CASE wait_terminated
    <3>1. /\ pc' \in {"poll", "destroy"} /\ i' = 1
          /\ threw' \in BOOLEAN /\ UNCHANGED <<signals, stopped>>
      BY <2>3 DEF wait_terminated, AfterExit
    <3> QED
      BY <1>t, <2>2, <3>1 DEF IInv, TypeOK, DestroyedInv, WaitInv
  <2>4. CASE wait_stopped \/ wait_continued
    <3>1. /\ pc' = "search" /\ i' = i + 1 /\ UNCHANGED threw
          /\ stopped' \in BOOLEAN /\ signals' \subseteq signals
      BY <1>t, <2>4 DEF wait_stopped, wait_continued, GoOn, Following, TypeOK
    <3> QED
      BY <1>t, <2>1, <2>2, <3>1 DEF IInv, TypeOK, DestroyedInv, WaitInv
  <2>5. CASE reap
    <3>1. /\ pc = "reap" /\ pc' = "destroy" /\ i' = i
          /\ UNCHANGED <<signals, stopped, threw>>
      BY <2>5 DEF reap, SameChild
    <3> QED
      BY <1>t, <2>2, <3>1 DEF IInv, TypeOK, DestroyedInv, WaitInv
  <2> QED
    BY <1>4, <2>3, <2>4, <2>5
<1>5. CASE destroy
  <2>1. /\ pc = "destroy" /\ i \in Children
        /\ UNCHANGED <<running, terminated, exit_status, stopped, threw>>
    BY <1>t, <1>5 DEF destroy, Suspended, childVars, TypeOK
  <2>2. CASE terminated[i]
    <3>1. /\ i' = i + 1 /\ pc' = pc
          /\ UNCHANGED <<kstate, change, status, hangup, stops, signals>>
      BY <1>5, <2>2 DEF destroy, Suspended, kernelVars
    <3> QED
      BY <1>t, <2>1, <2>2, <3>1 DEF IInv, TypeOK, RemembersTheTruth,
         KernelInv, DestroyedInv, WaitInv
  <2>3. CASE ~terminated[i]
    <3>1. /\ hangup' = [hangup EXCEPT ![i] = TRUE] /\ pc' = "reap"
          /\ UNCHANGED <<status, stops, i>>
          /\ UNCHANGED <<kstate, change, signals>> \/ Resumed({i})
      BY <1>5, <2>3 DEF destroy, Suspended
    <3>2. /\ kstate' \in
               [Children -> {"running", "stopped", "zombie", "reaped"}]
          /\ change' \in
               [Children -> {"none", "exited", "stopped", "continued"}]
          /\ signals' \subseteq {"SIGCHLD", "SIGCONT", "SIGTERM"}
          /\ RemembersTheTruth' /\ KernelInv'
      <4>1. CASE UNCHANGED <<kstate, change, signals>>
        BY <1>t, <2>1, <4>1 DEF TypeOK, RemembersTheTruth, KernelInv
      <4>2. CASE Resumed({i})
        BY <2>1, <4>2, ResumedKeeps
      <4> QED
        BY <3>1, <4>1, <4>2
    <3>3. TypeOK'
      BY <1>t, <2>1, <3>1, <3>2 DEF TypeOK
    <3>4. DestroyedInv' /\ WaitInv'
      BY <1>t, <2>1, <2>3, <3>1 DEF DestroyedInv, WaitInv
    <3> QED
      BY <3>2, <3>3, <3>4 DEF IInv
  <2> QED
    BY <2>2, <2>3
<1>6. CASE all_destroyed
  BY <1>t, <1>6 DEF all_destroyed, IInv, TypeOK,
     RemembersTheTruth, KernelInv, DestroyedInv, WaitInv, kernelVars, childVars
<1> QED
  BY <1>1, <1>2, <1>3, <1>4, <1>5, <1>6 DEF Parent

\* Every step keeps the invariant.
LEMMA NextIInv == IInv /\ [Next]_vars => IInv'
<1> SUFFICES ASSUME IInv, [Next]_vars PROVE IInv'
  OBVIOUS
<1>1. CASE Next
  BY <1>1, OutsideIInv, ParentIInv DEF Next
<1>2. CASE UNCHANGED vars
  BY <1>2 DEF vars, kernelVars, childVars, IInv, TypeOK, RemembersTheTruth,
     KernelInv, DestroyedInv, WaitInv
<1> QED
  BY <1>1, <1>2
------------------------------------------------------------------------------
\* The inductive invariant holds in every reachable state.
THEOREM Invariance == Spec => []IInv
<1> QED
  BY InitIInv, NextIInv, PTL DEF Spec

\* A ChildProcess object never takes a dead child for a live one, nor a
\* suspended one for a running one, except while the child's report waits
\* to be taken; for any number of children and any continue statuses.
THEOREM ObjectsRememberTheTruth == Spec => []RemembersTheTruth
<1>1. IInv => RemembersTheTruth
  BY DEF IInv
<1> QED
  BY <1>1, Invariance, PTL

\* When the parent has ended, by a signal, an exception or the end of a
\* child, ~ChildProcess has reaped every child.
THEOREM ParentLeavesNoOrphans == Spec => []NoOrphans
<1>1. IInv => NoOrphans
  BY DEF IInv, DestroyedInv, RemembersTheTruth, NoOrphans
<1> QED
  BY <1>1, Invariance, PTL
------------------------------------------------------------------------------
(* No missed event, while no child has left with its continue status: a     *)
(* child with something to report has SIGCHLD pending, or the search that   *)
(* is under way has not come to it yet.                                     *)

SearchInv ==
  /\ pc = "poll" =>
       \A c \in Children : change[c] # "none" => "SIGCHLD" \in signals
  /\ pc \in {"search", "wait"} =>
       \A c \in Children :
         change[c] # "none" /\ c < i => "SIGCHLD" \in signals

\* A child that has left with its continue status stays so.
LEMMA AttentionIsLost ==
  ASSUME IInv, [Next]_vars, Attentive' PROVE Attentive
<1>t. TypeOK /\ KernelInv /\ DestroyedInv /\ WaitInv /\ RemembersTheTruth
  BY DEF IInv
<1>1. CASE UNCHANGED <<terminated, exit_status>>
  BY <1>1 DEF Attentive
<1>2. ASSUME NEW c \in Children, wait(c), change[c] # "none" PROVE Attentive
  <2>1. ~terminated[c]
    BY <1>t, <1>2 DEF KernelInv, RemembersTheTruth
  <2>2. \A d \in Children :
          d # c => terminated'[d] = terminated[d]
                   /\ exit_status'[d] = exit_status[d]
    BY <1>t, <1>2 DEF wait, TypeOK
  <2> QED
    BY <2>1, <2>2 DEF Attentive
<1>3. CASE wait_terminated \/ wait_stopped \/ wait_continued \/ reap
  <2>1. i \in Children /\ wait(i) /\ change[i] # "none"
    BY <1>t, <1>3
    DEF wait_terminated, wait_stopped, wait_continued, reap, waitable,
        DestroyedInv
  <2> QED
    BY <1>2, <2>1
<1>4. CASE \/ handle_SIGCONT \/ handle_SIGTERM \/ handle_SIGCHLD \/ search
           \/ destroy \/ all_destroyed
  BY <1>1, <1>4 DEF handle_SIGCONT, handle_SIGTERM, handle_SIGCHLD, search,
     destroy, all_destroyed, childVars
<1>5. CASE UserSuspends \/ UserContinues \/ UserTerminates
  BY <1>1, <1>5 DEF UserSuspends, UserContinues, UserTerminates, childVars
<1>6. ASSUME NEW c \in Children,
             \/ ChildExits(c) \/ ChildHangsUp(c)
             \/ ChildStops(c) \/ ChildContinues(c)
      PROVE  Attentive
  BY <1>1, <1>6 DEF ChildExits, ChildHangsUp, Die, ChildStops, ChildContinues,
     childVars
<1>7. CASE UNCHANGED vars
  BY <1>1, <1>7 DEF vars, childVars
<1> QED
  BY <1>3, <1>4, <1>5, <1>6, <1>7 DEF Next, Parent

\* With the invariant above it is inductive as long as no such child has left.
LEMMA SearchStep ==
  ASSUME IInv, SearchInv, [Next]_vars, Attentive'
  PROVE  SearchInv'
<1> USE Constants
<1>t. TypeOK /\ KernelInv /\ DestroyedInv /\ WaitInv /\ RemembersTheTruth
  BY DEF IInv
<1>1. ASSUME NEW c \in Children, NEW s \in ExitStatuses \cup {1}, Die(c, s)
      PROVE  SearchInv'
  BY <1>t, <1>1 DEF Die, TypeOK, SearchInv
<1>2. ASSUME NEW c \in Children, ChildStops(c) \/ ChildContinues(c)
      PROVE  SearchInv'
  BY <1>t, <1>2 DEF ChildStops, ChildContinues, TypeOK, SearchInv
<1>3. CASE UserSuspends \/ UserContinues \/ UserTerminates
  BY <1>t, <1>3 DEF UserSuspends, UserContinues, UserTerminates, kernelVars,
     SearchInv
<1>4. CASE handle_SIGCONT
  <2>1. ToResume \in SUBSET Children /\ Resumed(ToResume)
        /\ UNCHANGED <<running, terminated, pc, i>> /\ pc = "poll"
    BY <1>4 DEF handle_SIGCONT, ToResume, childVars
  <2>2. \A c \in Children : change'[c] # change[c] => "SIGCHLD" \in signals'
    BY <2>1, ResumedKeeps
  <2>3. "SIGCHLD" \in signals => "SIGCHLD" \in signals'
    BY <2>1 DEF Resumed
  <2> QED
    BY <2>1, <2>2, <2>3 DEF SearchInv
<1>5. CASE handle_SIGTERM
  BY <1>5 DEF handle_SIGTERM, kernelVars, SearchInv
<1>6. CASE handle_SIGCHLD
  BY <1>6 DEF handle_SIGCHLD, kernelVars, SearchInv
<1>7. CASE search
  <2>1. UNCHANGED <<change, signals>> /\ pc = "search"
    BY <1>7 DEF search, Following, kernelVars
  <2>2. \/ i > N /\ pc' = "poll"
        \/ /\ i \in Children /\ (terminated[i] \/ change[i] = "none")
           /\ i' = i + 1 /\ pc' = pc
        \/ pc' = "wait" /\ i' = i
    BY <1>t, <1>7 DEF search, Following, waitable, TypeOK
  <2>3. i \in Nat /\ (i \in Children /\ terminated[i] => change[i] = "none")
    BY <1>t DEF TypeOK, KernelInv, RemembersTheTruth
  <2> QED
    BY <2>1, <2>2, <2>3 DEF SearchInv
<1>8. CASE wait_terminated
  <2>1. i \in Children /\ change[i] = "exited" /\ wait(i)
    BY <1>t, <1>8 DEF wait_terminated, DestroyedInv
  <2>2. terminated'[i] /\ exit_status'[i] = status[i]
    BY <1>t, <2>1 DEF wait, TypeOK
  <2>3. status[i] # ContinueStatus[i]
    BY <2>1, <2>2 DEF Attentive
  <2>4. pc' = "destroy"
    BY <1>8, <2>3 DEF wait_terminated, AfterExit
  <2> QED
    BY <2>4 DEF SearchInv
<1>9. CASE wait_stopped \/ wait_continued
  <2>1. /\ i \in Children /\ change[i] # "none" /\ wait(i)
        /\ pc = "wait" /\ pc' = "search" /\ i' = i + 1
        /\ "SIGCHLD" \in signals => "SIGCHLD" \in signals'
    BY <1>t, <1>9 DEF wait_stopped, wait_continued, GoOn, Following, DestroyedInv
  <2>2. /\ change'[i] = "none"
        /\ \A c \in Children : c # i => change'[c] = change[c]
    BY <1>t, <2>1 DEF wait, TypeOK
  <2> QED
    BY <2>1, <2>2 DEF SearchInv
<1>10. CASE destroy \/ reap \/ all_destroyed
  <2>1. pc' \in {"destroy", "reap", "exited"}
    BY <1>10 DEF destroy, reap, all_destroyed
  <2> QED
    BY <2>1 DEF SearchInv
<1>11. CASE UNCHANGED vars
  BY <1>11 DEF vars, kernelVars, SearchInv
<1> QED
  BY <1>1, <1>2, <1>3, <1>4, <1>5, <1>6, <1>7, <1>8, <1>9, <1>10, <1>11
  DEF Next, Parent, ChildExits, ChildHangsUp

\* Until a child has left with its continue status the parent never sleeps on
\* a change of state it has not taken, although one SIGCHLD may stand for
\* many; for any number of children.
THEOREM ParentMissesOnlyBehindFerry == Spec => []MissedOnlyBehindFerry
<1>1. Init => (Attentive => SearchInv)
  BY DEF Init, SearchInv
<1>2. IInv /\ (Attentive => SearchInv) /\ [Next]_vars
        => (Attentive => SearchInv)'
  BY AttentionIsLost, SearchStep
<1>3. (Attentive => SearchInv) => MissedOnlyBehindFerry
  BY DEF SearchInv, MissedOnlyBehindFerry, NoMissedEvent
<1> QED
  BY <1>1, <1>2, <1>3, Invariance, PTL DEF Spec
------------------------------------------------------------------------------
(* Suspended together, resumed together.                                    *)

\* A child that the parent remembers as suspended, and rightly so, is still to
\* be resumed: the parent is suspended with it, or its SIGCONT is pending.
ContInv ==
  pc \in {"poll", "search", "wait"} =>
    \A c \in Children :
      ~terminated[c] /\ ~running[c] /\ change[c] = "none" =>
        stopped \/ "SIGCONT" \in signals

\* The end of a child whose status is not its continue status ends the loop.
AllAlive ==
  pc \in {"poll", "search", "wait"} => \A c \in Children : ~terminated[c]

\* A SIGCONT is spent only by resuming every child that waits for one.
LEMMA ContStep ==
  ASSUME IInv, ContInv, [Next]_vars PROVE ContInv'
<1> USE Constants
<1>t. TypeOK /\ KernelInv /\ DestroyedInv /\ WaitInv /\ RemembersTheTruth
  BY DEF IInv
<1>1. ASSUME NEW c \in Children, NEW s \in ExitStatuses \cup {1}, Die(c, s)
      PROVE  ContInv'
  BY <1>t, <1>1 DEF Die, TypeOK, ContInv, childVars
<1>2. ASSUME NEW c \in Children, ChildStops(c) \/ ChildContinues(c)
      PROVE  ContInv'
  BY <1>t, <1>2, ZenonT(30) DEF ChildStops, ChildContinues, TypeOK, ContInv, childVars
<1>3. CASE UserSuspends \/ UserContinues \/ UserTerminates
  BY <1>t, <1>3 DEF UserSuspends, UserContinues, UserTerminates, kernelVars,
     childVars, ContInv
<1>4. CASE handle_SIGCONT
  <2>1. /\ Resumed(ToResume) /\ UNCHANGED <<running, terminated>>
    BY <1>4 DEF handle_SIGCONT, childVars
  <2>2. ASSUME NEW c \in Children, ~terminated[c], ~running[c],
               change[c] = "none"
        PROVE  change'[c] = "continued"
    <3>1. kstate[c] = "stopped"
      BY <1>t, <2>2 DEF TypeOK, KernelInv, RemembersTheTruth
    <3>2. c \in {d \in ToResume : kstate[d] = "stopped"}
      BY <2>2, <3>1 DEF ToResume, Suspended
    <3> QED
      BY <2>1, <3>2 DEF Resumed
  <2>3. \A c \in Children : change'[c] = "none" => change[c] = "none"
    BY <2>1 DEF Resumed
  <2> QED
    BY <2>1, <2>2, <2>3 DEF ContInv
<1>5. CASE handle_SIGTERM \/ handle_SIGCHLD \/ search
  <2>1. /\ UNCHANGED <<change, stopped, running, terminated>>
        /\ pc \in {"poll", "search", "wait"}
        /\ "SIGCONT" \in signals => "SIGCONT" \in signals'
    BY <1>5 DEF handle_SIGTERM, handle_SIGCHLD, search, kernelVars, childVars
  <2> QED
    BY <2>1 DEF ContInv
<1>6. CASE wait_terminated \/ wait_stopped \/ wait_continued
  <2>1. i \in Children /\ change[i] # "none" /\ wait(i) /\ pc = "wait"
    BY <1>t, <1>6 DEF wait_terminated, wait_stopped, wait_continued,
       DestroyedInv, WaitInv
  <2>2. \A c \in Children : c # i =>
          /\ terminated'[c] = terminated[c] /\ change'[c] = change[c]
          /\ running'[c] = running[c]
    BY <1>t, <2>1 DEF wait, TypeOK
  <2>3. \/ stopped' \/ terminated'[i] \/ running'[i]
    BY <1>t, <1>6, <2>1
    DEF wait_terminated, wait_stopped, wait_continued, wait, RunningAfter, TypeOK
  <2>4. stopped' \/ UNCHANGED <<signals, stopped>>
    BY <1>6 DEF wait_terminated, wait_stopped, wait_continued
  <2> QED
    BY <2>1, <2>2, <2>3, <2>4 DEF ContInv
<1>7. CASE destroy \/ reap \/ all_destroyed
  <2>1. pc' \in {"destroy", "reap", "exited"}
    BY <1>7 DEF destroy, reap, all_destroyed
  <2> QED
    BY <2>1 DEF ContInv
<1>8. CASE UNCHANGED vars
  BY <1>8 DEF vars, kernelVars, childVars, ContInv
<1> QED
  BY <1>1, <1>2, <1>3, <1>4, <1>5, <1>6, <1>7, <1>8
  DEF Next, Parent, ChildExits, ChildHangsUp

\* A step that ends the loop is the only one that follows an ordinary end.
LEMMA AliveStep ==
  ASSUME IInv, AllAlive, [Next]_vars, Attentive' PROVE AllAlive'
<1>t. TypeOK /\ DestroyedInv
  BY DEF IInv
<1>1. CASE wait_terminated
  <2>1. i \in Children /\ change[i] = "exited" /\ wait(i)
    BY <1>t, <1>1 DEF wait_terminated, DestroyedInv
  <2>2. terminated'[i] /\ exit_status'[i] = status[i]
    BY <1>t, <2>1 DEF wait, TypeOK
  <2>3. status[i] # ContinueStatus[i]
    BY <2>1, <2>2 DEF Attentive
  <2>4. pc' = "destroy"
    BY <1>1, <2>3 DEF wait_terminated, AfterExit
  <2> QED
    BY <2>4 DEF AllAlive
<1>2. CASE wait_stopped \/ wait_continued
  <2>1. i \in Children /\ wait(i) /\ change[i] # "exited" /\ pc = "wait"
    BY <1>t, <1>2 DEF wait_stopped, wait_continued, DestroyedInv
  <2>2. terminated' = [terminated EXCEPT ![i] = FALSE]
    BY <2>1 DEF wait
  <2> QED
    BY <1>t, <2>1, <2>2 DEF AllAlive, TypeOK
<1>3. CASE handle_SIGCONT \/ handle_SIGTERM \/ handle_SIGCHLD \/ search
  <2>1. UNCHANGED terminated /\ pc \in {"poll", "search", "wait"}
    BY <1>3 DEF handle_SIGCONT, handle_SIGTERM, handle_SIGCHLD, search,
       childVars
  <2> QED
    BY <2>1 DEF AllAlive
<1>4. CASE destroy \/ reap \/ all_destroyed
  <2>1. pc' \in {"destroy", "reap", "exited"}
    BY <1>4 DEF destroy, reap, all_destroyed
  <2> QED
    BY <2>1 DEF AllAlive
<1>5. CASE UserSuspends \/ UserContinues \/ UserTerminates
  BY <1>5 DEF UserSuspends, UserContinues, UserTerminates, childVars, AllAlive
<1>6. ASSUME NEW c \in Children,
             \/ ChildExits(c) \/ ChildHangsUp(c)
             \/ ChildStops(c) \/ ChildContinues(c)
      PROVE  AllAlive'
  BY <1>6 DEF ChildExits, ChildHangsUp, Die, ChildStops, ChildContinues,
     childVars, AllAlive
<1>7. CASE UNCHANGED vars
  BY <1>7 DEF vars, childVars, AllAlive
<1> QED
  BY <1>1, <1>2, <1>3, <1>4, <1>5, <1>6, <1>7 DEF Next, Parent

\* Until a child has left with its continue status, a parent that is not
\* suspended and has no signal to handle has no suspended child, in whatever
\* order the parent and its children were stopped and continued; for any
\* number of children.
THEOREM SuspendedAndResumedTogether == Spec => []ResumedTogether
<1>1. Init => ContInv /\ (Attentive => SearchInv /\ AllAlive)
  BY DEF Init, ContInv, SearchInv, AllAlive
<1>2. IInv /\ ContInv /\ [Next]_vars => ContInv'
  BY ContStep
<1>3. IInv /\ (Attentive => SearchInv /\ AllAlive) /\ [Next]_vars
        => (Attentive => SearchInv /\ AllAlive)'
  BY AttentionIsLost, SearchStep, AliveStep
<1>4. ASSUME IInv, ContInv, Attentive => SearchInv /\ AllAlive
      PROVE  ResumedTogether
  <2> SUFFICES ASSUME Attentive, pc = "poll", signals = {}, ~stopped,
                      NEW c \in Children
               PROVE  running[c] /\ kstate[c] # "stopped"
    BY DEF ResumedTogether
  <2>1. change[c] = "none" /\ ~terminated[c]
    BY <1>4 DEF SearchInv, AllAlive
  <2>2. running[c]
    BY <1>4, <2>1 DEF ContInv
  <2> QED
    BY <1>4, <2>1, <2>2 DEF IInv, RemembersTheTruth
<1> QED
  BY <1>1, <1>2, <1>3, <1>4, Invariance, PTL DEF Spec
==============================================================================
