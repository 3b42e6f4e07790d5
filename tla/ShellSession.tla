---------------------------- MODULE ShellSession ----------------------------
(***************************************************************************)
(* A mahimahi shell from its first line to its last: the set-up that the   *)
(* programs under src/src/frontend do as root, the processes they fork,    *)
(* and the clean-up that C++ does by running destructors backwards.        *)
(*                                                                         *)
(* Each process runs a program, a sequence of steps in the order of the    *)
(* code.  Every step makes system calls and may therefore throw; then the  *)
(* process unwinds: it undoes what it holds, last thing first, and ends.   *)
(* A signal that is not blocked yet ends a process without unwinding.      *)
(*                                                                         *)
(* What the kernel closes with the process (sockets, TUN devices, pipes)   *)
(* is not part of the state.  How an event loop follows a child that is    *)
(* suspended is the subject of EventLoop; here children only end.          *)
(***************************************************************************)
EXTENDS Integers, SequencesExt

CONSTANTS
  Shells,          \* the programs that may be run
  MaxFailures,     \* bound: steps that throw, removals that fail
  MaxSignals       \* bound: signals from outside

Processes == {"main", "uplink", "downlink", "container", "recorder",
              "dnsmasq", "command"}

\* What outlives the process that has made it.
Persistent == {"nat_pre", "nat_post", "dnat", "veth", "hosts",
               "config_1", "config_2", "apache_1", "apache_2"}
------------------------------------------------------------------------------
(* The programs.  A step named after a process forks it; one named after a  *)
(* persistent thing makes it.                                               *)

check_requirements == <<"standard_fds", "setuid_root", "not_run_by_root",
                        "environment_cleared", "ip_forwarding">>

\* The user's environment is only looked at without privileges.
get_mahimahi_base ==
  <<"enter_unprivileged", "enter_environment", "read_base",
    "leave_environment", "leave_unprivileged">>

two_unassigned_addresses == <<"read_interfaces", "one", "two">>

assign_address == <<"address", "destination", "netmask", "interface_up">>

TunDevice == <<"open_tun", "tun_set_iff">> \o assign_address

DNSProxy == <<"bind_udp", "bind_tcp", "listen">>

VirtualEthernetPair == <<"name_check", "veth">>

NAT == <<"nat_pre", "nat_post">>

DNAT == <<"dnat">>

HTTPProxy == <<"bind_proxy", "listen_proxy">>

\* A configuration file is removed with its server, after it has been stopped.
WebServer(config, apache) == <<config, "write_config", apache>>

\* The file that dnsmasq reads.
TempFile == <<"hosts", "write_hosts">>

add_dummy_interface == <<"link_add", "interface_up", "address">>

start_dnsmasq == <<"dnsmasq", "dnsmasq_answers">>

PacketShell ==
  get_mahimahi_base \o two_unassigned_addresses \o <<"first_nameserver">>
    \o TunDevice \o DNSProxy \o NAT
    \o <<"make_pair", "event_loop", "environment_cleared">>

\* mutant: the ferry is made before the device has been received
DownlinkFerryFirst ==
  <<"drop_privileges", "restore_environment", "event_loop", "recv_fd",
    "make_queue", "loop">>
start_downlink ==
  <<"drop_privileges", "restore_environment", "recv_fd", "event_loop",
    "make_queue", "loop">>

start_uplink ==
  <<"network", "event_loop", "dns_inside">> \o start_dnsmasq
    \o <<"drop_privileges", "restore_environment", "command", "send_fd",
         "make_queue", "loop">>

\* Four frontends differ in the arguments they check, each of which may be
\* refused, and in the queue they hand to the ferries.
FerryShell == check_requirements \o <<"arguments">> \o PacketShell
                \o <<"uplink", "downlink", "loop">>
delayshell == FerryShell
lossshell == FerryShell
onoffshell == FerryShell
meter == FerryShell

\* The disciplines are made by the parent, right before each fork.
linkshell == check_requirements \o <<"arguments">> \o PacketShell
               \o <<"get_packet_queue", "uplink", "get_packet_queue",
                    "downlink", "loop">>

RecordSetUp ==
  check_requirements \o <<"arguments", "first_nameserver">>
    \o two_unassigned_addresses \o VirtualEthernetPair \o assign_address
    \o DNSProxy \o NAT \o HTTPProxy \o DNAT \o <<"event_loop", "make_pair">>

\* mutant: the go signal is given before the device is handed over
RecordGoesEarly ==
  RecordSetUp \o <<"container", "go", "give_ingress", "recorder", "loop">>
recordshell ==
  RecordSetUp \o <<"container", "give_ingress", "go", "recorder", "loop">>

RecordContainer ==
  <<"wait_go", "ingress_address", "route", "drop_privileges", "event_loop",
    "command", "register_dns", "loop">>

Recorder == <<"drop_privileges", "make_directory", "event_loop",
              "register_handlers", "loop">>

\* Two servers stand for the set of addresses found in the recordings.
ReplayServe ==
  add_dummy_interface \o WebServer("config_1", "apache_1")
    \o WebServer("config_2", "apache_2") \o TempFile \o <<"event_loop">>
    \o add_dummy_interface \o start_dnsmasq \o <<"command", "loop">>

replayshell ==
  check_requirements
    \o <<"arguments", "unshare", "lo_up", "enter_unprivileged",
         "read_recordings", "leave_unprivileged">>
    \o ReplayServe

\* What the user's command does between fork and exec.
Prologue(sh) ==
  CASE sh = "mm_webreplay" -> <<"drop_privileges", "restore_environment">>
    [] sh = "mm_webrecord" -> <<"restore_environment">>
    [] OTHER -> <<>>

MainProgram ==
  [mm_delay |-> delayshell, mm_loss |-> lossshell, mm_onoff |-> onoffshell,
   mm_meter |-> meter, mm_link |-> linkshell, mm_webrecord |-> recordshell,
   mm_webreplay |-> replayshell]

Program ==
  [sh \in DOMAIN MainProgram |->
     [main |-> MainProgram[sh], uplink |-> start_uplink,
      downlink |-> start_downlink, container |-> RecordContainer,
      recorder |-> Recorder, dnsmasq |-> <<"exec">>,
      command |-> Prologue(sh) \o <<"exec">>]]

ASSUME SessionAssumption ==
  Shells \subseteq DOMAIN MainProgram /\ MaxFailures \in Nat /\ MaxSignals \in Nat
------------------------------------------------------------------------------
VARIABLES
  shell,           \* the program that was started, mm-link with --once
  proc,            \* per process, a record:
                   \*   status   none, run, loop, exec, unwind or dead
                   \*   pc       the next step of its program
                   \*   held     what unwinding will undo, last thing last
                   \*   kids     the children of its event loop, in order
                   \*   noticed  has the parent's loop seen it end?
                   \*   root     is the effective user root?
                   \*   dropped  has it dropped its privileges for good?
                   \*   environ  "none" or "user"
                   \*   pending  is a blocked signal waiting?
                   \*   code     exit status, Killed for death by a signal
  exists,          \* the persistent things that exist
  messages,        \* what has been handed over: "fd", "go" and "ingress"
  sigchld,         \* the processes that have a SIGCHLD to read
  failures, signals,  \* history: failures and outside signals so far
  spoiled          \* history: has the removal of something failed?

world == <<exists, messages, sigchld>>
history == <<failures, signals, spoiled>>
vars == <<shell, proc, world, history>>

Killed == 9        \* any status but 0 and 77
ContinueStatus(p) == IF p \in {"uplink", "downlink"} THEN 77 ELSE -1

\* A shell starts setuid root; its first statement clears environ.
Newborn == [status |-> "none", pc |-> 1, held |-> <<>>, kids |-> <<>>,
            noticed |-> FALSE, root |-> TRUE, dropped |-> FALSE,
            environ |-> "none", pending |-> FALSE, code |-> 0]
\* Of a process that has ended, its exit status is left.
Zombie(exit) == [Newborn EXCEPT !.status = "dead", !.code = exit]

Init ==
  /\ shell \in Shells
  /\ proc = [p \in Processes |-> IF p = "main"
                THEN [Newborn EXCEPT !.status = "run"] ELSE Newborn]
  /\ exists = {} /\ messages = {} /\ sigchld = {}
  /\ failures = 0 /\ signals = 0 /\ spoiled = FALSE

\* The next step of p.
Step(p) == Program[shell][p][proc[p].pc]

\* Are the signals of an event loop blocked in p?  They stay so from its
\* construction on; a child starts with an empty mask.
Blocked(p) ==
  \E i \in 1..(proc[p].pc - 1) : Program[shell][p][i] = "event_loop"

\* Steps that check that privileges have been dropped; of the queues, only
\* those of mm-link and mm-meter do.
MustBeUnprivileged ==
  {"read_recordings", "make_directory"}
    \cup (IF shell \in {"mm_link", "mm_meter"} THEN {"make_queue"} ELSE {})

\* ezexec: root must not have an environment, nor search the user's PATH.
MayExec(p) == proc[p].root => proc[p].environ = "none" /\ p = "dnsmasq"

\* The steps that a check of the code refuses.
Refused(p) ==
  \/ Step(p) \in MustBeUnprivileged /\ proc[p].root
  \/ Step(p) = "exec" /\ ~MayExec(p)
  \/ Step(p) \in {"environment_cleared", "enter_environment"}
     /\ proc[p].environ # "none"

\* The steps that cannot succeed in this state.
Hopeless(p) ==
  \/ Refused(p)
  \/ Step(p) = "dnsmasq_answers" /\ proc["dnsmasq"].status = "dead"
  \/ Step(p) = "give_ingress" /\ proc["container"].status = "dead"
  \/ Step(p) = "ingress_address" /\ "ingress" \notin messages

\* recv_fd and the read of the go signal block; a datagram socket has no end
\* of file.
Waits(p) ==
  \/ Step(p) = "recv_fd" /\ "fd" \notin messages
  \/ Step(p) = "wait_go" /\ "go" \notin messages
------------------------------------------------------------------------------
(* Running.                                                                 *)

TakesStep(p) == proc[p].status = "run" /\ ~Waits(p) /\ ~Hopeless(p)

Scopes == {"enter_unprivileged", "enter_environment"}
ScopeEnds == {"leave_environment", "leave_unprivileged"}
Handed == [give_ingress |-> "ingress", send_fd |-> "fd", go |-> "go"]

drop_privileges(r) == [r EXCEPT !.root = FALSE, !.dropped = TRUE]
TemporarilyUnprivileged(r) ==
  [r EXCEPT !.root = FALSE, !.held = Append(@, "enter_unprivileged")]
TemporaryEnvironment(r) ==
  [r EXCEPT !.environ = "user", !.held = Append(@, "enter_environment")]

\* What a step does to the process itself.
Changed(r, step) ==
  CASE step = "drop_privileges" -> drop_privileges(r)
    [] step = "restore_environment" -> [r EXCEPT !.environ = "user"]
    [] step = "enter_unprivileged" -> TemporarilyUnprivileged(r)
    [] step = "enter_environment" -> TemporaryEnvironment(r)
    [] step \in Persistent \cup {"event_loop"} ->
         [r EXCEPT !.held = Append(@, step)]
    [] OTHER -> r

Advanced(r) == [r EXCEPT !.pc = @ + 1]

\* A step that makes system calls: what it makes will be undone, what it hands
\* over is there for the process that waits for it.
Call(p) ==
  /\ TakesStep(p) /\ Step(p) \notin Processes \cup ScopeEnds \cup {"loop", "exec"}
  /\ proc' = [proc EXCEPT ![p] = Advanced(Changed(@, Step(p)))]
  /\ exists' = exists \cup ({Step(p)} \cap Persistent)
  /\ messages' = messages \cup
       {Handed[h] : h \in {Step(p)} \cap DOMAIN Handed}
  /\ UNCHANGED <<shell, sigchld, history>>

\* A child starts with its parent's user and environment.
Fork(p) ==
  /\ TakesStep(p) /\ Step(p) \in Processes
  /\ proc' = [proc EXCEPT
       ![p].pc = @ + 1, ![p].kids = Append(@, Step(p)),
       ![Step(p)] = [@ EXCEPT !.status = "run", !.root = proc[p].root,
                       !.dropped = proc[p].dropped,
                       !.environ = proc[p].environ]]
  /\ UNCHANGED <<shell, world, history>>

\* mutant: privileges are not taken back
NotRestored(r, x) ==
  IF x = "enter_environment" THEN [r EXCEPT !.environ = "none"] ELSE r
\* What the destructors of TemporarilyUnprivileged and TemporaryEnvironment
\* give back.
Restored(r, x) ==
  IF x = "enter_unprivileged" THEN [r EXCEPT !.root = ~r.dropped]
                              ELSE [r EXCEPT !.environ = "none"]

Popped(r) == [r EXCEPT !.held = Front(@)]

LeaveScope(p) ==
  /\ TakesStep(p) /\ Step(p) \in ScopeEnds
  /\ proc' = [proc EXCEPT ![p] =
       Advanced(Popped(Restored(@, Last(@.held))))]
  /\ UNCHANGED <<shell, world, history>>

\* ezexec turns the process into another program.
Exec(p) ==
  /\ TakesStep(p) /\ Step(p) = "exec"
  /\ proc' = [proc EXCEPT ![p].status = "exec"]
  /\ UNCHANGED <<shell, world, history>>

\* EventLoop::internal_loop, which gives up privileges while it runs.
EnterLoop(p) ==
  /\ TakesStep(p) /\ Step(p) = "loop"
  /\ proc' = [proc EXCEPT ![p] =
       [TemporarilyUnprivileged(@) EXCEPT !.status = "loop"]]
  /\ UNCHANGED <<shell, world, history>>
------------------------------------------------------------------------------
(* Ending.                                                                  *)

\* A process ends, and its parent is sent SIGCHLD, which waits until its loop
\* reads it: one signal for all the children that end before.
Dies(p, exit) ==
  /\ proc' = [proc EXCEPT ![p] = Zombie(exit)]
  /\ sigchld' = (sigchld \ {p}) \cup {q \in Processes : p \in ToSet(proc[q].kids)}

\* The process starts to unwind and will exit with the given status.
Leaves(r, exit) == [r EXCEPT !.status = "unwind", !.code = exit]

Throw(p) ==
  /\ proc[p].status = "run"
  /\ Hopeless(p) \/ failures < MaxFailures
  /\ failures' = IF Hopeless(p) THEN failures ELSE failures + 1
  /\ proc' = [proc EXCEPT ![p] = Leaves(@, 1)]
  /\ UNCHANGED <<shell, world, signals, spoiled>>

\* A signal reaches the loop: it is left with status 0.
LoopGetsSignal(p) ==
  /\ proc[p].status = "loop" /\ proc[p].pending
  /\ proc' = [proc EXCEPT ![p] = Leaves(@, 0)]
  /\ UNCHANGED <<shell, world, history>>

Seen(c) == proc[c].noticed

\* The search of handle_signal returns at the first child that has ended, and
\* poll does not return for another one behind the same signal.
LoopSeesChild(p) ==
  LET unseen == {i \in DOMAIN proc[p].kids :
                   LET k == proc[p].kids[i]
                   IN proc[k].status = "dead" /\ ~Seen(k)}
      c == proc[p].kids[CHOOSE i \in unseen : \A j \in unseen : i <= j]
      all == \A k \in ToSet(proc[p].kids) : Seen(k) \/ k = c
  IN /\ proc[p].status = "loop" /\ p \in sigchld /\ unseen # {}
     /\ sigchld' = sigchld \ {p}
     /\ proc' = [proc EXCEPT
          ![c].noticed = TRUE,
          ![p] = CASE proc[c].code \notin {0, ContinueStatus(c)} -> Leaves(@, 1)
                   [] proc[c].code = 0 \/ all -> Leaves(@, 0)
                   [] OTHER -> @]
     /\ UNCHANGED <<shell, exists, messages, history>>

\* With --once a link ferry leaves its loop at the end of its trace.
LoopFinishes(p) ==
  /\ proc[p].status = "loop" /\ shell = "mm_link"
  /\ p \in {"uplink", "downlink"}
  /\ proc' = [proc EXCEPT ![p] = Leaves(@, 77)]
  /\ UNCHANGED <<shell, world, history>>

\* External: the user's command ends when it likes, dnsmasq only if it fails.
ProgramExits(p) ==
  /\ proc[p].status = "exec"
  /\ \/ p = "command" /\ UNCHANGED failures
     \/ p = "dnsmasq" /\ failures < MaxFailures /\ failures' = failures + 1
  /\ \E s \in {0, 1} : Dies(p, s)
  /\ UNCHANGED <<shell, exists, messages, signals, spoiled>>

\* A signal is kept for the loop if it is blocked; if not, it is the end, but
\* for the user's command, which may ignore it and end when it likes.
Signalled(p) ==
  \/ /\ Blocked(p) \/ (p = "command" /\ proc[p].status = "exec")
     /\ proc' = [proc EXCEPT ![p].pending = TRUE] /\ UNCHANGED sigchld
  \/ ~Blocked(p) /\ Dies(p, Killed)

OutsideSignal(p) ==
  /\ proc[p].status \notin {"none", "dead"} /\ ~proc[p].pending
  /\ signals < MaxSignals /\ signals' = signals + 1
  /\ Signalled(p)
  /\ UNCHANGED <<shell, exists, messages, failures, spoiled>>
------------------------------------------------------------------------------
(* Unwinding.                                                               *)

\* What p undoes next.
Unwinding(p, x) ==
  proc[p].status = "unwind" /\ proc[p].held # <<>> /\ Last(proc[p].held) = x

UnwindScope(p, x) ==
  /\ Unwinding(p, x)
  /\ proc' = [proc EXCEPT ![p] = Popped(Restored(@, x))]
  /\ UNCHANGED <<shell, world, history>>

\* The event loop destroys its children in the order they were added: each
\* is sent a signal and waited for.
DestroyChild(p) ==
  /\ Unwinding(p, "event_loop") /\ proc[p].kids # <<>>
  /\ LET c == Head(proc[p].kids)
     IN \/ /\ proc[c].status # "dead" /\ ~proc[c].pending
           /\ Signalled(c)
        \/ /\ proc[c].status = "dead" /\ UNCHANGED sigchld
           /\ proc' = [proc EXCEPT ![p].kids = Tail(@)]
  /\ UNCHANGED <<shell, exists, messages, history>>

UnwindEventLoop(p) ==
  /\ Unwinding(p, "event_loop") /\ proc[p].kids = <<>>
  /\ proc' = [proc EXCEPT ![p] = Popped(@)]
  /\ UNCHANGED <<shell, world, history>>

\* The veth pair is left to the kernel once its inner end has been moved.
\* A removal that fails is reported, and the destructor goes on.
UnwindThing(p, x) ==
  /\ Unwinding(p, x)
  /\ proc' = [proc EXCEPT ![p] = Popped(@)]
  /\ \/ /\ exists' = IF ~proc[p].root \/ (x = "veth" /\ "ingress" \in messages)
                       THEN exists ELSE exists \ {x}
        /\ UNCHANGED <<failures, spoiled>>
     \/ /\ failures < MaxFailures /\ failures' = failures + 1
        /\ spoiled' = TRUE /\ UNCHANGED exists
  /\ UNCHANGED <<shell, messages, sigchld, signals>>

End(p) ==
  /\ proc[p].status = "unwind" /\ proc[p].held = <<>>
  /\ Dies(p, proc[p].code)
  /\ UNCHANGED <<shell, exists, messages, history>>
------------------------------------------------------------------------------
Runs(p) ==
  \/ Call(p) \/ Fork(p) \/ LeaveScope(p) \/ Exec(p) \/ EnterLoop(p)
  \/ LoopGetsSignal(p) \/ LoopSeesChild(p) \/ LoopFinishes(p)
  \/ \E x \in Scopes : UnwindScope(p, x)
  \/ DestroyChild(p) \/ UnwindEventLoop(p)
  \/ \E x \in Persistent : UnwindThing(p, x)
  \/ End(p) \/ Throw(p)

Next ==
  \E p \in Processes :
    Runs(p) \/ ProgramExits(p) \/ OutsideSignal(p)

\* Each process that can go on goes on, and with --once a trace comes to its
\* end; nothing makes a command end by itself.
Fairness == \A p \in Processes : WF_vars(Runs(p))

Spec == Init /\ [][Next]_vars /\ Fairness
------------------------------------------------------------------------------
(* Properties.                                                              *)

TypeOK ==
  /\ shell \in Shells /\ exists \subseteq Persistent /\ sigchld \subseteq Processes
  /\ \A p \in Processes :
       /\ proc[p].status \in {"none", "run", "loop", "exec", "unwind", "dead"}
       /\ proc[p].pc \in 1..Len(Program[shell][p])
       /\ ToSet(proc[p].kids) \subseteq Processes
       /\ ToSet(proc[p].held) \subseteq Persistent \cup Scopes \cup {"event_loop"}
       /\ proc[p].environ \in {"none", "user"}
       /\ proc[p].code \in {0, 1, 77, Killed}
       /\ {proc[p].root, proc[p].dropped, proc[p].pending} \subseteq BOOLEAN
  /\ failures \in 0..MaxFailures /\ signals \in 0..MaxSignals

Over == proc["main"].status = "dead"

\* What is left of the persistent things: the kernel destroys the veth pair
\* with the name space, that is with the last process in it.
Leftovers ==
  exists \ (IF "ingress" \in messages /\ \A p \in {"container", "command"} :
                           proc[p].status \in {"none", "dead"}
              THEN {"veth"} ELSE {})

\* Wherever the set-up throws or a signal hits, whatever the processes are
\* doing then, no process outlives the shell, and it leaves no rule, device,
\* file or web server behind; unless a removal itself has failed, or a signal
\* has killed the shell before its event loop blocked it.
NothingLeftBehind ==
  Over => /\ \A p \in Processes : proc[p].status \in {"none", "dead"}
          /\ \/ Leftovers = {}
             \/ spoiled
             \/ proc["main"].code = Killed

\* The user's environment is never in place while the process is root: not in
\* the short scope that reads MAHIMAHI_BASE, nor while that scope is unwound.
EnvironmentOnlyUnprivileged ==
  \A p \in Processes :
    proc[p].status \in {"run", "loop", "exec", "unwind"} /\ proc[p].environ = "user"
      => ~proc[p].root

\* The checks that the code reports as BUG never fire.
NoBugReported == \A p \in Processes : proc[p].status = "run" => ~Refused(p)

\* The container gives its end of the veth pair an address only once it has
\* been moved into its name space.
IngressArrivesFirst ==
  proc["container"].status = "run" /\ Step("container") = "ingress_address" => "ingress" \in messages

\* Every step finds what it relies on, in whatever order the processes take
\* theirs and the scopes are unwound: its privileges, the environment that
\* goes with them, and the device another process hands over.
StepsAreSafe ==
  /\ TypeOK /\ EnvironmentOnlyUnprivileged
  /\ NoBugReported /\ IngressArrivesFirst

\* The two ferries of mm-link --once have ended behind one SIGCHLD.  The
\* parent has dealt with the first, whose status 77 means that it goes on, and
\* knows nothing of the second (the run EventLoopFerries).
FerryOverlooked ==
  /\ shell = "mm_link" /\ proc["main"].status = "loop" /\ "main" \notin sigchld
  /\ proc["uplink"].status = "dead" /\ proc["downlink"].status = "dead"
  /\ \E f \in {"uplink", "downlink"} : Seen(f) /\ proc[f].code = 77

\* The user's command was told to end and does not.
CommandStaysOn == proc["command"].status = "exec" /\ proc["command"].pending

\* Once any process has ended, the shell ends: nobody waits for ever for a
\* message, a child or a signal, but for a command that will not go and for
\* the ferry that mm-link --once may overlook.
SessionEnds ==
  (\E p \in Processes : proc[p].status = "dead")
     ~> Over \/ FerryOverlooked \/ CommandStaysOn
==============================================================================
