------------------------- MODULE ShellSessionProofs -------------------------
(***************************************************************************)
(* Proofs that, for every set of shells and every number of failures and   *)
(* signals, each step of a shell's processes finds what it relies on, and  *)
(* that a shell that is over has left nothing behind.                      *)
(*                                                                         *)
(* First come facts about the programs themselves, by listing their steps; *)
(* then an invariant of one process, about its stack of held things and    *)
(* its privileges; then one that relates the processes: who forked whom,   *)
(* who has been told what, and who still owes the removal of what exists.  *)
(***************************************************************************)
EXTENDS ShellSession, RecursionTheorems, SequenceTheorems, TLAPS

(* What can be read off a program.                                          *)

\* The processes that a shell may consist of.
Cast(sh) ==
  CASE sh = "mm_webrecord" -> {"main", "container", "recorder", "command"}
    [] sh = "mm_webreplay" -> {"main", "dnsmasq", "command"}
    [] OTHER -> {"main", "uplink", "downlink", "dnsmasq", "command"}

\* The process that forks c.
Parent(sh, c) ==
  CASE sh \notin {"mm_webrecord", "mm_webreplay"} /\ c \in {"dnsmasq", "command"}
         -> "uplink"
    [] sh = "mm_webrecord" /\ c = "command" -> "container"
    [] OTHER -> "main"

\* Is the step s among the first i - 1 of program P?
Before(P, i, s) == \E j \in 1..(i - 1) : P[j] = s

\* Has c no privileges from its birth on?
BornUnprivileged(sh, c) == c = "command" /\ sh # "mm_webreplay"

\* Have privileges been dropped for good before step i of p?
DroppedAt(sh, p, P, i) ==
  BornUnprivileged(sh, p) \/ Before(P, i, "drop_privileges")

\* The number of temporary scopes that are open before and after a step.
Open(step) ==
  CASE step \in {"read_base", "leave_environment"} -> 2
    [] step \in {"enter_environment", "read_recordings", "leave_unprivileged"} -> 1
    [] OTHER -> 0
After(step) ==
  CASE step \in {"enter_environment", "read_base"} -> 2
    [] step \in {"enter_unprivileged", "leave_environment", "read_recordings"} -> 1
    [] OTHER -> 0

\* Steps that are only taken without privileges, and those that come before
\* privileges have been dropped for good.
Unprivileged(p) ==
  {"restore_environment", "make_directory", "make_queue"}
    \cup (IF p = "command" THEN {"exec"} ELSE {})
Privileged(p) ==
  {"environment_cleared", "enter_environment"}
    \cup (IF p = "dnsmasq" THEN {"exec"} ELSE {})

\* What the proofs need to know of the step i of program P, run by p.
StepFacts(sh, p, P, i) ==
  /\ i = Len(P) <=> P[i] \in {"loop", "exec"}
  /\ i < Len(P) => Open(P[i + 1]) = After(P[i])
  /\ P[i] \in {"loop", "exec"} => Open(P[i]) = 0
  /\ P[i] = "exec" => p \in {"dnsmasq", "command"} /\ ~Before(P, i, "event_loop")
  /\ P[i] \in Unprivileged(p) => DroppedAt(sh, p, P, i)
  /\ P[i] \in Privileged(p) => ~DroppedAt(sh, p, P, i)
  /\ P[i] \in Processes =>
       /\ P[i] \in Cast(sh) \ {"main"} /\ Parent(sh, P[i]) = p
       /\ ~Before(P, i, P[i]) /\ Before(P, i, "event_loop")
       /\ BornUnprivileged(sh, P[i]) <=> DroppedAt(sh, p, P, i)
  /\ P[i] \in Persistent => p = "main"
  /\ P[i] = "drop_privileges" => p # "main"
  /\ P[i] = "go" => Before(P, i, "give_ingress")
  /\ P[i] = "ingress_address" => Before(P, i, "wait_go")

\* The steps of a program, and its first one.
ProgramFacts(sh, p, P) ==
  /\ Len(P) \in Nat \ {0}
  /\ Open(P[1]) = 0
  /\ \A i \in 1..Len(P) : StepFacts(sh, p, P, i)
------------------------------------------------------------------------------
(* The invariant of one process.                                            *)

Things == Persistent \cup Scopes \cup {"event_loop"}
Live == {"run", "loop", "exec", "unwind"}

\* The states of a process.
Records ==
  [status : Live \cup {"none", "dead"}, pc : Nat, held : Seq(Things),
   kids : Seq(Processes), noticed : BOOLEAN, root : BOOLEAN,
   dropped : BOOLEAN, environ : {"none", "user"}, pending : BOOLEAN,
   code : {0, 1, 77, Killed}]

\* The temporary scopes that are open, seen from the top of the stack.
Depth(h) ==
  CASE h = <<>> -> 0
    [] h # <<>> /\ h[Len(h)] = "enter_environment" -> 2
    [] h # <<>> /\ h[Len(h)] = "enter_unprivileged" -> 1
    [] OTHER -> 0

\* A temporary scope is only ever at the top of the stack, the environment's
\* inside that of the privileges.
Scoped(h) ==
  \A i \in 1..Len(h) :
    /\ h[i] = "enter_environment" =>
         i = Len(h) /\ i > 1 /\ h[i - 1] = "enter_unprivileged"
    /\ h[i] = "enter_unprivileged" =>
         i = Len(h) \/ (i = Len(h) - 1 /\ h[Len(h)] = "enter_environment")

\* Privileges and environment follow from the open scopes.
Standing(r) ==
  /\ r.dropped => ~r.root
  /\ ~r.dropped => (r.root <=> Depth(r.held) = 0)
  /\ ~r.dropped => (r.environ = "user" <=> Depth(r.held) = 2)

\* Before its next step, a running process is where its program puts it.
OnTrack(sh, p, r) ==
  /\ r.dropped <=> DroppedAt(sh, p, Program[sh][p], r.pc)
  /\ Depth(r.held) = Open(Program[sh][p][r.pc])
  /\ Before(Program[sh][p], r.pc, "event_loop") => "event_loop" \in ToSet(r.held)

\* The invariant of process p of shell sh.
Local(sh, p, r) ==
  /\ r \in Records /\ r.pc \in 1..Len(Program[sh][p])
  /\ r.status = "none" => r = Newborn
  /\ r.status # "none" => p \in Cast(sh)
  /\ r.status \in Live => Scoped(r.held) /\ Standing(r)
  /\ r.status = "run" => OnTrack(sh, p, r)
  /\ r.status = "loop" => Depth(r.held) = 1
  /\ r.status = "exec" => r.kids = <<>>
  /\ r.kids # <<>> =>
       /\ r.status \in Live /\ "event_loop" \in ToSet(r.held)
       /\ Before(Program[sh][p], r.pc, "event_loop")
  /\ p = "main" => ~r.dropped /\ r.status # "none"
------------------------------------------------------------------------------
(* The invariant of the session.                                            *)

\* A process that has been started has been forked by its parent.
Forked(c) ==
  LET p == Parent(shell, c)
  IN proc[c].status # "none" =>
       /\ proc[p].status # "none"
       /\ proc[p].status = "run" => Before(Program[shell][p], proc[p].pc, c)

\* The loop of its parent knows of every process that has not ended.
Known(c) ==
  proc[c].status \in Live => c \in ToSet(proc[Parent(shell, c)].kids)

\* The children of a loop have been started.
Started(p) ==
  \A c \in ToSet(proc[p].kids) : c # "main" /\ proc[c].status # "none"

\* What a process has said or heard has been said, and in that order.
Told(p) ==
  proc[p].status = "run" =>
    /\ Before(Program[shell][p], proc[p].pc, "give_ingress") => "ingress" \in messages
    /\ Before(Program[shell][p], proc[p].pc, "wait_go") => "go" \in messages

\* The kernel will remove the pair once one end has left for the container.
KernelOwes == IF "ingress" \in messages THEN {"veth"} ELSE {}

\* What exists is still held by the shell, or left to the kernel.
Owed ==
  /\ proc["main"].status # "dead" =>
       spoiled \/ exists \subseteq ToSet(proc["main"].held) \cup KernelOwes
  /\ proc["main"].status = "dead" =>
       spoiled \/ proc["main"].code = Killed \/ exists \subseteq KernelOwes

\* Everything but the processes themselves.
Surroundings ==
  /\ shell \in Shells /\ exists \subseteq Persistent /\ sigchld \subseteq Processes
  /\ failures \in 0..MaxFailures /\ signals \in 0..MaxSignals
  /\ spoiled \in BOOLEAN

Family ==
  /\ \A c \in Processes \ {"main"} : Forked(c) /\ Known(c)
  /\ \A p \in Processes : Started(p)

Talk ==
  /\ "go" \in messages => "ingress" \in messages
  /\ \A p \in Processes : Told(p)

\* The inductive invariant.
SessionInv ==
  /\ Surroundings
  /\ proc \in [Processes -> Records]
  /\ \A p \in Processes : Local(shell, p, proc[p])
  /\ Family /\ Talk /\ Owed
------------------------------------------------------------------------------
(* The programs, step by step.                                              *)

\* The steps of FerryShell, one by one.
LEMMA Steps_FerryShell ==
  /\ Len(FerryShell) = 32 /\ FerryShell[1] = "standard_fds"
  /\ FerryShell[2] = "setuid_root" /\ FerryShell[3] = "not_run_by_root"
  /\ FerryShell[4] = "environment_cleared" /\ FerryShell[5] = "ip_forwarding"
  /\ FerryShell[6] = "arguments" /\ FerryShell[7] = "enter_unprivileged"
  /\ FerryShell[8] = "enter_environment" /\ FerryShell[9] = "read_base"
  /\ FerryShell[10] = "leave_environment"
  /\ FerryShell[11] = "leave_unprivileged"
  /\ FerryShell[12] = "read_interfaces" /\ FerryShell[13] = "one"
  /\ FerryShell[14] = "two" /\ FerryShell[15] = "first_nameserver"
  /\ FerryShell[16] = "open_tun" /\ FerryShell[17] = "tun_set_iff"
  /\ FerryShell[18] = "address" /\ FerryShell[19] = "destination"
  /\ FerryShell[20] = "netmask" /\ FerryShell[21] = "interface_up"
  /\ FerryShell[22] = "bind_udp" /\ FerryShell[23] = "bind_tcp"
  /\ FerryShell[24] = "listen" /\ FerryShell[25] = "nat_pre"
  /\ FerryShell[26] = "nat_post" /\ FerryShell[27] = "make_pair"
  /\ FerryShell[28] = "event_loop" /\ FerryShell[29] = "environment_cleared"
  /\ FerryShell[30] = "uplink" /\ FerryShell[31] = "downlink"
  /\ FerryShell[32] = "loop"
  BY SMTT(30) DEF FerryShell, check_requirements, PacketShell, get_mahimahi_base,
       two_unassigned_addresses, TunDevice, assign_address, DNSProxy, NAT

\* The steps of linkshell, one by one.
LEMMA Steps_linkshell ==
  /\ Len(linkshell) = 34 /\ linkshell[1] = "standard_fds"
  /\ linkshell[2] = "setuid_root" /\ linkshell[3] = "not_run_by_root"
  /\ linkshell[4] = "environment_cleared" /\ linkshell[5] = "ip_forwarding"
  /\ linkshell[6] = "arguments" /\ linkshell[7] = "enter_unprivileged"
  /\ linkshell[8] = "enter_environment" /\ linkshell[9] = "read_base"
  /\ linkshell[10] = "leave_environment"
  /\ linkshell[11] = "leave_unprivileged" /\ linkshell[12] = "read_interfaces"
  /\ linkshell[13] = "one" /\ linkshell[14] = "two"
  /\ linkshell[15] = "first_nameserver" /\ linkshell[16] = "open_tun"
  /\ linkshell[17] = "tun_set_iff" /\ linkshell[18] = "address"
  /\ linkshell[19] = "destination" /\ linkshell[20] = "netmask"
  /\ linkshell[21] = "interface_up" /\ linkshell[22] = "bind_udp"
  /\ linkshell[23] = "bind_tcp" /\ linkshell[24] = "listen"
  /\ linkshell[25] = "nat_pre" /\ linkshell[26] = "nat_post"
  /\ linkshell[27] = "make_pair" /\ linkshell[28] = "event_loop"
  /\ linkshell[29] = "environment_cleared"
  /\ linkshell[30] = "get_packet_queue" /\ linkshell[31] = "uplink"
  /\ linkshell[32] = "get_packet_queue" /\ linkshell[33] = "downlink"
  /\ linkshell[34] = "loop"
  BY SMTT(30) DEF linkshell, check_requirements, PacketShell, get_mahimahi_base,
       two_unassigned_addresses, TunDevice, assign_address, DNSProxy, NAT

\* The steps of recordshell, one by one.
LEMMA Steps_recordshell ==
  /\ Len(recordshell) = 31 /\ recordshell[1] = "standard_fds"
  /\ recordshell[2] = "setuid_root" /\ recordshell[3] = "not_run_by_root"
  /\ recordshell[4] = "environment_cleared"
  /\ recordshell[5] = "ip_forwarding" /\ recordshell[6] = "arguments"
  /\ recordshell[7] = "first_nameserver" /\ recordshell[8] = "read_interfaces"
  /\ recordshell[9] = "one" /\ recordshell[10] = "two"
  /\ recordshell[11] = "name_check" /\ recordshell[12] = "veth"
  /\ recordshell[13] = "address" /\ recordshell[14] = "destination"
  /\ recordshell[15] = "netmask" /\ recordshell[16] = "interface_up"
  /\ recordshell[17] = "bind_udp" /\ recordshell[18] = "bind_tcp"
  /\ recordshell[19] = "listen" /\ recordshell[20] = "nat_pre"
  /\ recordshell[21] = "nat_post" /\ recordshell[22] = "bind_proxy"
  /\ recordshell[23] = "listen_proxy" /\ recordshell[24] = "dnat"
  /\ recordshell[25] = "event_loop" /\ recordshell[26] = "make_pair"
  /\ recordshell[27] = "container" /\ recordshell[28] = "give_ingress"
  /\ recordshell[29] = "go" /\ recordshell[30] = "recorder"
  /\ recordshell[31] = "loop"
  BY SMTT(30) DEF recordshell, RecordSetUp, check_requirements,
       two_unassigned_addresses, VirtualEthernetPair, assign_address, DNSProxy,
       NAT, HTTPProxy, DNAT

\* The steps of replayshell, one by one.
LEMMA Steps_replayshell ==
  /\ Len(replayshell) = 30 /\ replayshell[1] = "standard_fds"
  /\ replayshell[2] = "setuid_root" /\ replayshell[3] = "not_run_by_root"
  /\ replayshell[4] = "environment_cleared"
  /\ replayshell[5] = "ip_forwarding" /\ replayshell[6] = "arguments"
  /\ replayshell[7] = "unshare" /\ replayshell[8] = "lo_up"
  /\ replayshell[9] = "enter_unprivileged"
  /\ replayshell[10] = "read_recordings"
  /\ replayshell[11] = "leave_unprivileged" /\ replayshell[12] = "link_add"
  /\ replayshell[13] = "interface_up" /\ replayshell[14] = "address"
  /\ replayshell[15] = "config_1" /\ replayshell[16] = "write_config"
  /\ replayshell[17] = "apache_1" /\ replayshell[18] = "config_2"
  /\ replayshell[19] = "write_config" /\ replayshell[20] = "apache_2"
  /\ replayshell[21] = "hosts" /\ replayshell[22] = "write_hosts"
  /\ replayshell[23] = "event_loop" /\ replayshell[24] = "link_add"
  /\ replayshell[25] = "interface_up" /\ replayshell[26] = "address"
  /\ replayshell[27] = "dnsmasq" /\ replayshell[28] = "dnsmasq_answers"
  /\ replayshell[29] = "command" /\ replayshell[30] = "loop"
  BY SMTT(30) DEF replayshell, ReplayServe, check_requirements, add_dummy_interface,
       WebServer, TempFile, start_dnsmasq

\* The steps of start_uplink, one by one.
LEMMA Steps_start_uplink ==
  /\ Len(start_uplink) = 11 /\ start_uplink[1] = "network"
  /\ start_uplink[2] = "event_loop" /\ start_uplink[3] = "dns_inside"
  /\ start_uplink[4] = "dnsmasq" /\ start_uplink[5] = "dnsmasq_answers"
  /\ start_uplink[6] = "drop_privileges"
  /\ start_uplink[7] = "restore_environment" /\ start_uplink[8] = "command"
  /\ start_uplink[9] = "send_fd" /\ start_uplink[10] = "make_queue"
  /\ start_uplink[11] = "loop"
  BY SMTT(30) DEF start_uplink, start_dnsmasq

\* The steps of start_downlink, one by one.
LEMMA Steps_start_downlink ==
  /\ Len(start_downlink) = 6 /\ start_downlink[1] = "drop_privileges"
  /\ start_downlink[2] = "restore_environment"
  /\ start_downlink[3] = "recv_fd" /\ start_downlink[4] = "event_loop"
  /\ start_downlink[5] = "make_queue" /\ start_downlink[6] = "loop"
  BY SMTT(30) DEF start_downlink

\* The steps of RecordContainer, one by one.
LEMMA Steps_RecordContainer ==
  /\ Len(RecordContainer) = 8 /\ RecordContainer[1] = "wait_go"
  /\ RecordContainer[2] = "ingress_address" /\ RecordContainer[3] = "route"
  /\ RecordContainer[4] = "drop_privileges"
  /\ RecordContainer[5] = "event_loop" /\ RecordContainer[6] = "command"
  /\ RecordContainer[7] = "register_dns" /\ RecordContainer[8] = "loop"
  BY SMTT(30) DEF RecordContainer

\* The steps of Recorder, one by one.
LEMMA Steps_Recorder ==
  /\ Len(Recorder) = 5 /\ Recorder[1] = "drop_privileges"
  /\ Recorder[2] = "make_directory" /\ Recorder[3] = "event_loop"
  /\ Recorder[4] = "register_handlers" /\ Recorder[5] = "loop"
  BY SMTT(30) DEF Recorder
------------------------------------------------------------------------------
(* What the steps of each program rely on.                                  *)

\* FerryShell does what the proofs rely on.
LEMMA Facts_FerryShell ==
  ASSUME NEW sh, sh \notin {"mm_webrecord", "mm_webreplay"}
  PROVE  ProgramFacts(sh, "main", FerryShell)
  <1> SUFFICES ASSUME NEW i \in 1..32
               PROVE  StepFacts(sh, "main", FerryShell, i)
    BY Steps_FerryShell DEF ProgramFacts, Open
  <1> QED
    BY Steps_FerryShell, SMTT(30)
    DEF StepFacts, Open, After, Unprivileged, Privileged,
       DroppedAt, BornUnprivileged, Before, Cast, Parent, Processes, Persistent

\* linkshell does what the proofs rely on.
LEMMA Facts_linkshell ==
  ASSUME NEW sh, sh \notin {"mm_webrecord", "mm_webreplay"}
  PROVE  ProgramFacts(sh, "main", linkshell)
  <1> SUFFICES ASSUME NEW i \in 1..34
               PROVE  StepFacts(sh, "main", linkshell, i)
    BY Steps_linkshell DEF ProgramFacts, Open
  <1> QED
    BY Steps_linkshell, SMTT(30)
    DEF StepFacts, Open, After, Unprivileged, Privileged,
       DroppedAt, BornUnprivileged, Before, Cast, Parent, Processes, Persistent

\* recordshell does what the proofs rely on.
LEMMA Facts_recordshell ==
  ProgramFacts("mm_webrecord", "main", recordshell)
  <1> SUFFICES ASSUME NEW i \in 1..31
               PROVE  StepFacts("mm_webrecord", "main", recordshell, i)
    BY Steps_recordshell DEF ProgramFacts, Open
  <1> QED
    BY Steps_recordshell, SMTT(30)
    DEF StepFacts, Open, After, Unprivileged, Privileged,
       DroppedAt, BornUnprivileged, Before, Cast, Parent, Processes, Persistent

\* replayshell does what the proofs rely on.
LEMMA Facts_replayshell ==
  ProgramFacts("mm_webreplay", "main", replayshell)
  <1> SUFFICES ASSUME NEW i \in 1..30
               PROVE  StepFacts("mm_webreplay", "main", replayshell, i)
    BY Steps_replayshell DEF ProgramFacts, Open
  <1> QED
    BY Steps_replayshell, SMTT(30)
    DEF StepFacts, Open, After, Unprivileged, Privileged,
       DroppedAt, BornUnprivileged, Before, Cast, Parent, Processes, Persistent

\* start_uplink does what the proofs rely on.
LEMMA Facts_start_uplink ==
  ASSUME NEW sh, sh \notin {"mm_webrecord", "mm_webreplay"}
  PROVE  ProgramFacts(sh, "uplink", start_uplink)
  <1> SUFFICES ASSUME NEW i \in 1..11
               PROVE  StepFacts(sh, "uplink", start_uplink, i)
    BY Steps_start_uplink DEF ProgramFacts, Open
  <1> QED
    BY Steps_start_uplink, SMTT(30)
    DEF StepFacts, Open, After, Unprivileged, Privileged,
       DroppedAt, BornUnprivileged, Before, Cast, Parent, Processes, Persistent

\* start_downlink does what the proofs rely on.
LEMMA Facts_start_downlink ==
  ASSUME NEW sh, sh \notin {"mm_webrecord", "mm_webreplay"}
  PROVE  ProgramFacts(sh, "downlink", start_downlink)
  <1> SUFFICES ASSUME NEW i \in 1..6
               PROVE  StepFacts(sh, "downlink", start_downlink, i)
    BY Steps_start_downlink DEF ProgramFacts, Open
  <1> QED
    BY Steps_start_downlink, SMTT(30)
    DEF StepFacts, Open, After, Unprivileged, Privileged,
       DroppedAt, BornUnprivileged, Before, Cast, Parent, Processes, Persistent

\* RecordContainer does what the proofs rely on.
LEMMA Facts_RecordContainer ==
  ProgramFacts("mm_webrecord", "container", RecordContainer)
  <1> SUFFICES ASSUME NEW i \in 1..8
               PROVE  StepFacts("mm_webrecord", "container", RecordContainer, i)
    BY Steps_RecordContainer DEF ProgramFacts, Open
  <1> QED
    BY Steps_RecordContainer, SMTT(30)
    DEF StepFacts, Open, After, Unprivileged, Privileged,
       DroppedAt, BornUnprivileged, Before, Cast, Parent, Processes, Persistent

\* Recorder does what the proofs rely on.
LEMMA Facts_Recorder ==
  ProgramFacts("mm_webrecord", "recorder", Recorder)
  <1> SUFFICES ASSUME NEW i \in 1..5
               PROVE  StepFacts("mm_webrecord", "recorder", Recorder, i)
    BY Steps_Recorder DEF ProgramFacts, Open
  <1> QED
    BY Steps_Recorder, SMTT(30)
    DEF StepFacts, Open, After, Unprivileged, Privileged,
       DroppedAt, BornUnprivileged, Before, Cast, Parent, Processes, Persistent

\* dnsmasq does, too.
LEMMA Facts_Exec ==
  ASSUME NEW sh, sh # "mm_webrecord"
  PROVE  ProgramFacts(sh, "dnsmasq", <<"exec">>)
  BY DEF ProgramFacts, StepFacts, Open, After, Unprivileged, Privileged,
         DroppedAt, BornUnprivileged, Before, Processes, Persistent

\* The user's command does, with what each shell puts before its exec.
LEMMA Facts_Command ==
  ASSUME NEW sh
  PROVE  ProgramFacts(sh, "command", Prologue(sh) \o <<"exec">>)
  <1> DEFINE P == Prologue(sh) \o <<"exec">>
  <1>1. CASE sh = "mm_webreplay"
    <2>1. Len(P) = 3 /\ P[1] = "drop_privileges" /\ P[2] = "restore_environment" /\ P[3] = "exec"
      BY <1>1 DEF Prologue
    <2> HIDE DEF P
    <2> SUFFICES ProgramFacts(sh, "command", P)
      BY DEF P
    <2> QED
      BY <1>1, <2>1, SMTT(30)
      DEF ProgramFacts, StepFacts, Open, After, Unprivileged, Privileged,
          DroppedAt, BornUnprivileged, Before, Processes, Persistent
  <1>2. CASE sh = "mm_webrecord"
    <2>1. Len(P) = 2 /\ P[1] = "restore_environment" /\ P[2] = "exec"
      BY <1>2 DEF Prologue
    <2> HIDE DEF P
    <2> SUFFICES ProgramFacts(sh, "command", P)
      BY DEF P
    <2> QED
      BY <1>2, <2>1, SMTT(30)
      DEF ProgramFacts, StepFacts, Open, After, Unprivileged, Privileged,
          DroppedAt, BornUnprivileged, Before, Processes, Persistent
  <1>3. CASE sh \notin {"mm_webreplay", "mm_webrecord"}
    <2>1. Len(P) = 1 /\ P[1] = "exec"
      BY <1>3 DEF Prologue
    <2> HIDE DEF P
    <2> SUFFICES ProgramFacts(sh, "command", P)
      BY DEF P
    <2> QED
      BY <1>3, <2>1, SMTT(30)
      DEF ProgramFacts, StepFacts, Open, After, Unprivileged, Privileged,
          DroppedAt, BornUnprivileged, Before, Processes, Persistent
  <1> QED
    BY <1>1, <1>2, <1>3

\* The seven shells.
LEMMA ShellNames ==
  DOMAIN MainProgram = {"mm_delay", "mm_loss", "mm_onoff", "mm_meter", "mm_link",
                        "mm_webrecord", "mm_webreplay"}
  BY DEF MainProgram

\* Every process of every shell runs a program of which these facts hold.
LEMMA ProgramsAreSound ==
  ASSUME NEW sh \in DOMAIN MainProgram, NEW p \in Cast(sh)
  PROVE  ProgramFacts(sh, p, Program[sh][p])
  <1>1. /\ Program[sh]["main"] = MainProgram[sh]
        /\ Program[sh]["uplink"] = start_uplink
        /\ Program[sh]["downlink"] = start_downlink
        /\ Program[sh]["container"] = RecordContainer
        /\ Program[sh]["recorder"] = Recorder
        /\ Program[sh]["dnsmasq"] = <<"exec">>
        /\ Program[sh]["command"] = Prologue(sh) \o <<"exec">>
    BY DEF Program
  <1>2. CASE sh = "mm_webrecord"
    <2>1. MainProgram[sh] = recordshell
      BY <1>2 DEF MainProgram
    <2>2. p \in {"main", "container", "recorder", "command"}
      BY <1>2 DEF Cast
    <2> QED
      BY <1>1, <1>2, <2>1, <2>2, Facts_recordshell, Facts_RecordContainer,
         Facts_Recorder, Facts_Command
  <1>3. CASE sh = "mm_webreplay"
    <2>1. MainProgram[sh] = replayshell
      BY <1>3 DEF MainProgram
    <2>2. p \in {"main", "dnsmasq", "command"}
      BY <1>3 DEF Cast
    <2> QED
      BY <1>1, <1>3, <2>1, <2>2, Facts_replayshell, Facts_Exec, Facts_Command
  <1>4. CASE sh \notin {"mm_webrecord", "mm_webreplay"}
    <2>1. MainProgram[sh] \in {FerryShell, linkshell}
      BY <1>4, ShellNames DEF MainProgram, delayshell, lossshell, onoffshell, meter
    <2>2. p \in {"main", "uplink", "downlink", "dnsmasq", "command"}
      BY <1>4 DEF Cast
    <2> QED
      BY <1>1, <1>4, <2>1, <2>2, Facts_FerryShell, Facts_linkshell,
         Facts_start_uplink, Facts_start_downlink, Facts_Exec, Facts_Command
  <1> QED
    BY <1>2, <1>3, <1>4

\* No program is empty, whoever runs it.
LEMMA ProgramsAreNotEmpty ==
  ASSUME NEW sh \in DOMAIN MainProgram, NEW p \in Processes
  PROVE  Len(Program[sh][p]) \in Nat \ {0}
  <1>1. CASE p = "main"
    BY <1>1, ProgramsAreSound DEF Cast, ProgramFacts
  <1>2. CASE p = "command"
    BY <1>2, ProgramsAreSound DEF Cast, ProgramFacts
  <1>3. CASE p \notin {"main", "command"}
    <2>1. Program[sh][p] \in {start_uplink, start_downlink, RecordContainer,
                              Recorder, <<"exec">>}
      BY <1>3 DEF Program, Processes
    <2>2. /\ Len(start_uplink) = 11 /\ Len(start_downlink) = 6
          /\ Len(RecordContainer) = 8 /\ Len(Recorder) = 5
      BY Steps_start_uplink, Steps_start_downlink, Steps_RecordContainer,
         Steps_Recorder
    <2>3. Len(<<"exec">>) = 1
      OBVIOUS
    <2>4. \A P \in {start_uplink, start_downlink, RecordContainer, Recorder, <<"exec">>} :
            Len(P) \in {11, 6, 8, 5, 1}
      BY <2>2, <2>3, Zenon
    <2>5. Len(Program[sh][p]) \in {11, 6, 8, 5, 1}
      BY <2>1, <2>4, Zenon
    <2>6. \A n \in {11, 6, 8, 5, 1} : n \in Nat \ {0}
      OBVIOUS
    <2> QED
      BY <2>5, <2>6, Zenon
  <1> QED
    BY <1>1, <1>2, <1>3
------------------------------------------------------------------------------
(* The stack of held things.                                                *)

\* Append as seen by its elements.
LEMMA AppendFacts ==
  ASSUME NEW S, NEW h \in Seq(S), NEW x \in S
  PROVE  /\ Append(h, x) \in Seq(S) /\ Append(h, x) # <<>>
         /\ Len(Append(h, x)) = Len(h) + 1
         /\ \A i \in 1..Len(h) : Append(h, x)[i] = h[i]
         /\ Append(h, x)[Len(h) + 1] = x
         /\ ToSet(Append(h, x)) = ToSet(h) \cup {x}
  <1>1. /\ Append(h, x) \in Seq(S) /\ Append(h, x) # <<>>
        /\ Len(Append(h, x)) = Len(h) + 1
        /\ \A i \in 1..Len(h) : Append(h, x)[i] = h[i]
        /\ Append(h, x)[Len(h) + 1] = x
    OBVIOUS
  <1>2. /\ DOMAIN h = 1..Len(h) /\ Len(h) \in Nat
        /\ DOMAIN Append(h, x) = 1..Len(Append(h, x))
    BY <1>1, LenProperties
  <1>3. DOMAIN Append(h, x) = DOMAIN h \cup {Len(h) + 1}
    BY <1>1, <1>2
  <1> QED
    BY <1>1, <1>2, <1>3 DEF ToSet

\* What is left when the last element has been taken away.
LEMMA FrontFacts ==
  ASSUME NEW S, NEW h \in Seq(S), h # <<>>
  PROVE  /\ Front(h) \in Seq(S) /\ Len(h) \in Nat \ {0}
         /\ Len(Front(h)) = Len(h) - 1
         /\ \A i \in 1..(Len(h) - 1) : Front(h)[i] = h[i]
         /\ Last(h) = h[Len(h)] /\ Last(h) \in S
         /\ ToSet(h) = ToSet(Front(h)) \cup {Last(h)}
  <1>1. /\ Front(h) \in Seq(S) /\ Len(h) \in Nat \ {0}
        /\ Len(Front(h)) = Len(h) - 1
        /\ \A i \in 1..(Len(h) - 1) : Front(h)[i] = h[i]
        /\ Last(h) = h[Len(h)] /\ Last(h) \in S
    BY EmptySeq, ElementOfSeq DEF Front, Last
  <1>2. /\ DOMAIN h = 1..Len(h)
        /\ DOMAIN Front(h) = 1..(Len(h) - 1)
    BY <1>1, LenProperties
  <1>3. DOMAIN h = DOMAIN Front(h) \cup {Len(h)}
    BY <1>1, <1>2
  <1> QED
    BY <1>1, <1>2, <1>3 DEF ToSet

\* The first element and the others.
LEMMA TailFacts ==
  ASSUME NEW S, NEW k \in Seq(S), k # <<>>
  PROVE  /\ Head(k) \in S /\ Tail(k) \in Seq(S)
         /\ ToSet(k) = ToSet(Tail(k)) \cup {Head(k)}
  <1> DEFINE n == Len(k)
             t == Tail(k)
  <1>1. /\ n \in Nat \ {0} /\ DOMAIN k = 1..n /\ Head(k) = k[1] /\ k[1] \in S
        /\ t \in Seq(S) /\ Len(t) = n - 1 /\ DOMAIN t = 1..(n - 1)
        /\ \A i \in 1..(n - 1) : t[i] = k[i + 1]
    BY EmptySeq, LenProperties, HeadTailProperties, ElementOfSeq
  <1> HIDE DEF n, t
  <1>2. ASSUME NEW x \in ToSet(k)
        PROVE  x \in ToSet(t) \cup {k[1]}
    <2>1. PICK i \in 1..n : x = k[i]
      BY <1>1 DEF ToSet
    <2>2. i = 1 \/ (i - 1 \in 1..(n - 1) /\ t[i - 1] = k[i])
      BY <1>1
    <2> QED
      BY <1>1, <2>1, <2>2 DEF ToSet
  <1>3. ASSUME NEW x \in ToSet(t) \cup {k[1]}
        PROVE  x \in ToSet(k)
    <2>1. CASE x = k[1]
      BY <1>1, <2>1 DEF ToSet
    <2>2. CASE x \in ToSet(t)
      <3>1. PICK i \in 1..(n - 1) : x = t[i]
        BY <1>1, <2>2 DEF ToSet
      <3>2. i + 1 \in 1..n /\ x = k[i + 1]
        BY <1>1, <3>1
      <3> QED
        BY <1>1, <3>2 DEF ToSet
    <2> QED
      BY <1>3, <2>1, <2>2
  <1>4. ToSet(k) = ToSet(t) \cup {k[1]}
    BY <1>2, <1>3
  <1> QED
    BY <1>1, <1>4 DEF t

\* The depth is that of the top of the stack.
LEMMA DepthOfTop ==
  ASSUME NEW h, h # <<>>
  PROVE  /\ h[Len(h)] = "enter_environment" => Depth(h) = 2
         /\ h[Len(h)] = "enter_unprivileged" => Depth(h) = 1
         /\ h[Len(h)] \notin Scopes => Depth(h) = 0
         /\ Depth(h) = 2 => h[Len(h)] = "enter_environment"
         /\ Depth(h) = 1 => h[Len(h)] = "enter_unprivileged"
         /\ Depth(h) = 0 => h[Len(h)] \notin Scopes
  BY DEF Depth, Scopes

\* No scope is open when nothing is held.
LEMMA DepthOfEmpty == Depth(<<>>) = 0 /\ Scoped(<<>>)
  BY DEF Depth, Scoped

\* Something that is not a scope goes on the stack when no scope is open.
LEMMA PushThing ==
  ASSUME NEW h \in Seq(Things), Scoped(h), Depth(h) = 0,
         NEW x \in Things, x \notin Scopes
  PROVE  Scoped(Append(h, x)) /\ Depth(Append(h, x)) = 0
  <1>1. \A i \in 1..Len(h) : h[i] \notin Scopes
    <2> SUFFICES ASSUME NEW i \in 1..Len(h), h[i] \in Scopes PROVE FALSE
      OBVIOUS
    <2>1. h # <<>> /\ Len(h) \in Nat
      BY DepthOfEmpty, LenProperties
    <2> QED
      BY <2>1, DepthOfTop DEF Scoped, Scopes
  <1>2. Scoped(Append(h, x))
    BY <1>1, AppendFacts DEF Scoped, Scopes
  <1>3. Append(h, x) # <<>> /\ Append(h, x)[Len(Append(h, x))] = x
    BY AppendFacts
  <1> QED
    BY <1>2, <1>3, DepthOfTop

\* Privileges are given up when no scope is open.
LEMMA PushUnprivileged ==
  ASSUME NEW h \in Seq(Things), Scoped(h), Depth(h) = 0
  PROVE  /\ Scoped(Append(h, "enter_unprivileged"))
         /\ Depth(Append(h, "enter_unprivileged")) = 1
  <1>1. \A i \in 1..Len(h) : h[i] \notin Scopes
    <2> SUFFICES ASSUME NEW i \in 1..Len(h), h[i] \in Scopes PROVE FALSE
      OBVIOUS
    <2>1. h # <<>> /\ Len(h) \in Nat
      BY DepthOfEmpty, LenProperties
    <2> QED
      BY <2>1, DepthOfTop DEF Scoped, Scopes
  <1>2. "enter_unprivileged" \in Things
    BY DEF Things, Scopes
  <1>3. Scoped(Append(h, "enter_unprivileged"))
    BY <1>1, <1>2, AppendFacts DEF Scoped, Scopes
  <1> DEFINE g == Append(h, "enter_unprivileged")
  <1>4. g # <<>> /\ g[Len(g)] = "enter_unprivileged"
    BY <1>2, AppendFacts
  <1>5. Depth(g) = 1
    BY <1>4, DepthOfTop
  <1> QED
    BY <1>3, <1>5

\* The environment is put in place inside the scope without privileges.
LEMMA PushEnvironment ==
  ASSUME NEW h \in Seq(Things), Scoped(h), Depth(h) = 1
  PROVE  /\ Scoped(Append(h, "enter_environment"))
         /\ Depth(Append(h, "enter_environment")) = 2
  <1>1. "enter_environment" \in Things
    BY DEF Things, Scopes
  <1>2. h # <<>>
    BY DepthOfEmpty
  <1>3. Len(h) \in Nat \ {0} /\ h[Len(h)] = "enter_unprivileged"
    BY <1>2, EmptySeq, DepthOfTop
  <1>4. Scoped(Append(h, "enter_environment"))
    <2> DEFINE g == Append(h, "enter_environment")
               n == Len(h)
    <2>1. /\ Len(g) = n + 1 /\ g[n + 1] = "enter_environment"
          /\ \A i \in 1..n : g[i] = h[i]
      BY <1>1, AppendFacts
    <2>2. n \in Nat \ {0} /\ h[n] = "enter_unprivileged"
      BY <1>3
    <2>3. \A i \in 1..n : /\ h[i] # "enter_environment"
                          /\ h[i] = "enter_unprivileged" => i = n
      BY <2>2 DEF Scoped
    <2> HIDE DEF g, n
    <2> QED
      BY <2>1, <2>2, <2>3 DEF Scoped, g
  <1> DEFINE g == Append(h, "enter_environment")
  <1>5. g # <<>> /\ g[Len(g)] = "enter_environment"
    BY <1>1, AppendFacts
  <1>6. Depth(g) = 2
    BY <1>5, DepthOfTop
  <1> QED
    BY <1>4, <1>6

\* What is left open when the top of the stack has been taken away.
LEMMA Pop ==
  ASSUME NEW h \in Seq(Things), Scoped(h), h # <<>>
  PROVE  /\ Scoped(Front(h))
         /\ Last(h) = "enter_environment" => Depth(h) = 2 /\ Depth(Front(h)) = 1
         /\ Last(h) = "enter_unprivileged" => Depth(h) = 1 /\ Depth(Front(h)) = 0
         /\ Last(h) \notin Scopes => Depth(h) = 0 /\ Depth(Front(h)) = 0
  <1> DEFINE n == Len(h)
             f == Front(h)
  <1>1. /\ n \in Nat \ {0} /\ Len(f) = n - 1 /\ Last(h) = h[n]
        /\ \A i \in 1..(n - 1) : f[i] = h[i]
        /\ f \in Seq(Things)
    BY FrontFacts
  <1>2. \A i \in 1..n :
          /\ h[i] = "enter_environment" => i = n /\ i > 1 /\ h[i - 1] = "enter_unprivileged"
          /\ h[i] = "enter_unprivileged" => i = n \/ (i = n - 1 /\ h[n] = "enter_environment")
    BY DEF Scoped
  <1>3. f # <<>> => n > 1
    BY <1>1, EmptySeq
  <1>4. f = <<>> => n = 1
    BY <1>1, EmptySeq
  <1>5. /\ Last(h) = "enter_environment" => Depth(h) = 2
        /\ Last(h) = "enter_unprivileged" => Depth(h) = 1
        /\ Last(h) \notin Scopes => Depth(h) = 0
    BY <1>1, DepthOfTop
  <1> HIDE DEF n, f
  <1>6. Scoped(f)
    BY <1>1, <1>2 DEF Scoped
  <1>7. ASSUME f # <<>>
        PROVE  /\ Last(h) = "enter_environment" => Depth(f) = 1
               /\ Last(h) # "enter_environment" => Depth(f) = 0
    <2>1. Len(f) = n - 1 /\ f[n - 1] = h[n - 1] /\ n - 1 \in 1..n /\ n - 1 # n
      BY <1>1, <1>3, <1>7
    <2>2. Last(h) = "enter_environment" => f[Len(f)] = "enter_unprivileged"
      <3>1. n \in 1..n
        BY <1>1
      <3>2. h[n] = "enter_environment" => h[n - 1] = "enter_unprivileged"
        BY <1>2, <3>1
      <3>3. f[Len(f)] = h[n - 1] /\ Last(h) = h[n]
        BY <1>1, <2>1
      <3> QED
        BY <3>2, <3>3
    <2>3. Last(h) # "enter_environment" => f[Len(f)] \notin Scopes
      BY <1>1, <1>2, <2>1 DEF Scopes
    <2> QED
      BY <1>7, <2>2, <2>3, DepthOfTop
  <1>8. ASSUME f = <<>>
        PROVE  Last(h) # "enter_environment" /\ Depth(f) = 0
    BY <1>1, <1>2, <1>4, <1>8, DepthOfEmpty
  <1>9. Last(h) = "enter_environment" => Depth(f) = 1
    BY <1>7, <1>8
  <1>10. Last(h) # "enter_environment" => Depth(f) = 0
    BY <1>7, <1>8
  <1> QED
    BY <1>5, <1>6, <1>9, <1>10 DEF f, Scopes
------------------------------------------------------------------------------
(* The fields of a process after each change.                               *)

\* A process starts to unwind.
LEMMA LeavesFields ==
  ASSUME NEW r \in Records, NEW e \in {0, 1, 77}
  PROVE  LET q == Leaves(r, e)
         IN /\ q \in Records
            /\ q.status = "unwind" /\ q.code = e /\ q.pc = r.pc
            /\ q.held = r.held /\ q.kids = r.kids /\ q.noticed = r.noticed
            /\ q.root = r.root /\ q.dropped = r.dropped
            /\ q.environ = r.environ /\ q.pending = r.pending
  BY DEF Records, Leaves, Live

\* The top of the stack is taken away.
LEMMA PoppedFields ==
  ASSUME NEW r \in Records, r.held # <<>>
  PROVE  LET q == Popped(r)
         IN /\ q \in Records
            /\ q.held = Front(r.held) /\ q.status = r.status /\ q.pc = r.pc
            /\ q.kids = r.kids /\ q.noticed = r.noticed /\ q.root = r.root
            /\ q.dropped = r.dropped /\ q.environ = r.environ
            /\ q.pending = r.pending /\ q.code = r.code
  BY FrontFacts DEF Records, Popped

\* Privileges are given back, unless dropped for good.
LEMMA RestoredPrivileges ==
  ASSUME NEW r \in Records
  PROVE  LET q == Restored(r, "enter_unprivileged")
         IN /\ q \in Records
            /\ q.root = ~r.dropped /\ q.status = r.status /\ q.pc = r.pc
            /\ q.held = r.held /\ q.kids = r.kids /\ q.noticed = r.noticed
            /\ q.dropped = r.dropped /\ q.environ = r.environ
            /\ q.pending = r.pending /\ q.code = r.code
  BY DEF Records, Restored

\* The environment is cleared again.
LEMMA RestoredEnvironment ==
  ASSUME NEW r \in Records
  PROVE  LET q == Restored(r, "enter_environment")
         IN /\ q \in Records
            /\ q.environ = "none" /\ q.status = r.status /\ q.pc = r.pc
            /\ q.held = r.held /\ q.kids = r.kids /\ q.noticed = r.noticed
            /\ q.root = r.root /\ q.dropped = r.dropped
            /\ q.pending = r.pending /\ q.code = r.code
  BY DEF Records, Restored

\* The next step is the following one.
LEMMA AdvancedFields ==
  ASSUME NEW r \in Records
  PROVE  LET q == Advanced(r)
         IN /\ q \in Records
            /\ q.pc = r.pc + 1 /\ q.status = r.status /\ q.held = r.held
            /\ q.kids = r.kids /\ q.noticed = r.noticed /\ q.root = r.root
            /\ q.dropped = r.dropped /\ q.environ = r.environ
            /\ q.pending = r.pending /\ q.code = r.code
  BY DEF Records, Advanced

\* Privileges are dropped for good.
LEMMA DropFields ==
  ASSUME NEW r \in Records
  PROVE  LET q == drop_privileges(r)
         IN /\ q \in Records
            /\ q.root = FALSE /\ q.dropped = TRUE /\ q.status = r.status
            /\ q.pc = r.pc /\ q.held = r.held /\ q.kids = r.kids
            /\ q.noticed = r.noticed /\ q.environ = r.environ
            /\ q.pending = r.pending /\ q.code = r.code
  BY DEF Records, drop_privileges

\* Privileges are given up for a while.
LEMMA UnprivilegedFields ==
  ASSUME NEW r \in Records
  PROVE  LET q == TemporarilyUnprivileged(r)
         IN /\ q \in Records
            /\ q.held = Append(r.held, "enter_unprivileged") /\ q.root = FALSE
            /\ q.status = r.status /\ q.pc = r.pc /\ q.kids = r.kids
            /\ q.noticed = r.noticed /\ q.dropped = r.dropped
            /\ q.environ = r.environ /\ q.pending = r.pending
            /\ q.code = r.code
  <1>1. r.held \in Seq(Things) /\ "enter_unprivileged" \in Things
    BY DEF Records, Things, Scopes
  <1>2. PICK h \in Seq(Things) : h = Append(r.held, "enter_unprivileged")
    BY <1>1, AppendFacts
  <1> QED
    BY <1>2 DEF Records, TemporarilyUnprivileged

\* The user's environment is in place for a while.
LEMMA EnvironmentFields ==
  ASSUME NEW r \in Records
  PROVE  LET q == TemporaryEnvironment(r)
         IN /\ q \in Records
            /\ q.held = Append(r.held, "enter_environment")
            /\ q.environ = "user" /\ q.status = r.status /\ q.pc = r.pc
            /\ q.kids = r.kids /\ q.noticed = r.noticed /\ q.root = r.root
            /\ q.dropped = r.dropped /\ q.pending = r.pending
            /\ q.code = r.code
  <1>1. r.held \in Seq(Things) /\ "enter_environment" \in Things
    BY DEF Records, Things, Scopes
  <1>2. PICK h \in Seq(Things) : h = Append(r.held, "enter_environment")
    BY <1>1, AppendFacts
  <1> QED
    BY <1>2 DEF Records, TemporaryEnvironment

\* The user's environment is restored for good.
LEMMA UserFields ==
  ASSUME NEW r \in Records
  PROVE  LET q == [r EXCEPT !.environ = "user"]
         IN /\ q \in Records
            /\ q.environ = "user" /\ q.status = r.status /\ q.pc = r.pc
            /\ q.held = r.held /\ q.kids = r.kids /\ q.noticed = r.noticed
            /\ q.root = r.root /\ q.dropped = r.dropped
            /\ q.pending = r.pending /\ q.code = r.code
  BY DEF Records

\* Something is to be undone.
LEMMA HoldFields ==
  ASSUME NEW r \in Records, NEW x \in Things
  PROVE  LET q == [r EXCEPT !.held = Append(@, x)]
         IN /\ q \in Records
            /\ q.held = Append(r.held, x) /\ q.status = r.status
            /\ q.pc = r.pc /\ q.kids = r.kids /\ q.noticed = r.noticed
            /\ q.root = r.root /\ q.dropped = r.dropped
            /\ q.environ = r.environ /\ q.pending = r.pending
            /\ q.code = r.code
  <1>1. r.held \in Seq(Things) /\ x \in Things
    BY DEF Records
  <1>2. PICK h \in Seq(Things) : h = Append(r.held, x)
    BY <1>1, AppendFacts
  <1> QED
    BY <1>2 DEF Records

\* A process starts its loop or another program.
LEMMA StatusFields ==
  ASSUME NEW r \in Records, NEW s \in Live
  PROVE  LET q == [r EXCEPT !.status = s]
         IN /\ q \in Records
            /\ q.status = s /\ q.pc = r.pc /\ q.held = r.held
            /\ q.kids = r.kids /\ q.noticed = r.noticed /\ q.root = r.root
            /\ q.dropped = r.dropped /\ q.environ = r.environ
            /\ q.pending = r.pending /\ q.code = r.code
  BY DEF Records

\* A blocked signal waits.
LEMMA PendingFields ==
  ASSUME NEW r \in Records
  PROVE  LET q == [r EXCEPT !.pending = TRUE]
         IN /\ q \in Records
            /\ q.pending = TRUE /\ q.status = r.status /\ q.pc = r.pc
            /\ q.held = r.held /\ q.kids = r.kids /\ q.noticed = r.noticed
            /\ q.root = r.root /\ q.dropped = r.dropped
            /\ q.environ = r.environ /\ q.code = r.code
  BY DEF Records

\* The parent's loop has seen the process end.
LEMMA NoticedFields ==
  ASSUME NEW r \in Records
  PROVE  LET q == [r EXCEPT !.noticed = TRUE]
         IN /\ q \in Records
            /\ q.noticed = TRUE /\ q.status = r.status /\ q.pc = r.pc
            /\ q.held = r.held /\ q.kids = r.kids /\ q.root = r.root
            /\ q.dropped = r.dropped /\ q.environ = r.environ
            /\ q.pending = r.pending /\ q.code = r.code
  BY DEF Records

\* A child that has ended is forgotten.
LEMMA TailFields ==
  ASSUME NEW r \in Records, r.kids # <<>>
  PROVE  LET q == [r EXCEPT !.kids = Tail(@)]
         IN /\ q \in Records
            /\ q.kids = Tail(r.kids) /\ q.status = r.status /\ q.pc = r.pc
            /\ q.held = r.held /\ q.noticed = r.noticed /\ q.root = r.root
            /\ q.dropped = r.dropped /\ q.environ = r.environ
            /\ q.pending = r.pending /\ q.code = r.code
  BY SMTT(30) DEF Records

\* A child is forked.
LEMMA ForkFields ==
  ASSUME NEW r \in Records, NEW c \in Processes
  PROVE  LET q == [Advanced(r) EXCEPT !.kids = Append(@, c)]
         IN /\ q \in Records
            /\ q.pc = r.pc + 1 /\ q.kids = Append(r.kids, c)
            /\ q.status = r.status /\ q.held = r.held /\ q.noticed = r.noticed
            /\ q.root = r.root /\ q.dropped = r.dropped
            /\ q.environ = r.environ /\ q.pending = r.pending
            /\ q.code = r.code
  <1> DEFINE s == Advanced(r)
  <1>1. /\ s \in Records /\ s.pc = r.pc + 1 /\ s.kids = r.kids
        /\ s.status = r.status /\ s.held = r.held /\ s.noticed = r.noticed
        /\ s.root = r.root /\ s.dropped = r.dropped
        /\ s.environ = r.environ /\ s.pending = r.pending
        /\ s.code = r.code
    BY AdvancedFields
  <1>2. PICK k \in Seq(Processes) : k = Append(s.kids, c)
    BY <1>1, AppendFacts DEF Records
  <1> HIDE DEF s
  <1>3. LET q == [s EXCEPT !.kids = k]
        IN /\ q \in Records
           /\ q.pc = s.pc /\ q.kids = k
           /\ q.status = s.status /\ q.held = s.held /\ q.noticed = s.noticed
           /\ q.root = s.root /\ q.dropped = s.dropped
           /\ q.environ = s.environ /\ q.pending = s.pending
           /\ q.code = s.code
    BY <1>1, <1>2 DEF Records
  <1>4. [s EXCEPT !.kids = Append(@, c)] = [s EXCEPT !.kids = k]
    BY <1>2
  <1> QED
    BY <1>1, <1>2, <1>3, <1>4 DEF s

\* A process that has not started.
LEMMA NewbornFields ==
  /\ Newborn \in Records /\ Newborn.status = "none" /\ Newborn.pc = 1
  /\ Newborn.held = <<>> /\ Newborn.kids = <<>> /\ Newborn.dropped = FALSE
  <1>1. <<>> \in Seq(Things) /\ <<>> \in Seq(Processes)
    BY EmptySeq
  <1> QED
    BY <1>1 DEF Newborn, Records, Live

\* Of a process that has ended, only its exit status is left.
LEMMA ZombieFields ==
  ASSUME NEW e \in {0, 1, 77, Killed}
  PROVE  LET q == Zombie(e)
         IN /\ q \in Records /\ q.status = "dead" /\ q.pc = 1 /\ q.code = e
            /\ q.held = <<>> /\ q.kids = <<>> /\ q.dropped = FALSE
  <1>1. <<>> \in Seq(Things) /\ <<>> \in Seq(Processes)
    BY EmptySeq
  <1> QED
    BY <1>1 DEF Zombie, Newborn, Records, Live
------------------------------------------------------------------------------
(* The invariant of one process is kept by what a process does.             *)

\* The steps before the next one.
LEMMA BeforeNext ==
  ASSUME NEW P, NEW i \in Nat \ {0}, NEW s
  PROVE  Before(P, i + 1, s) <=> Before(P, i, s) \/ P[i] = s
  BY DEF Before

\* No step comes before the first.
LEMMA BeforeFirst ==
  ASSUME NEW P, NEW s
  PROVE  ~Before(P, 1, s)
  BY DEF Before

\* What holds of the step that a running process is about to take.
LEMMA AtStep ==
  ASSUME NEW sh \in DOMAIN MainProgram, NEW p, NEW r, Local(sh, p, r), r.status = "run"
  PROVE  /\ p \in Cast(sh) /\ r \in Records
         /\ r.pc \in 1..Len(Program[sh][p]) /\ r.pc \in Nat \ {0}
         /\ StepFacts(sh, p, Program[sh][p], r.pc)
         /\ Scoped(r.held) /\ Standing(r) /\ OnTrack(sh, p, r)
  <1>1. /\ p \in Cast(sh) /\ r \in Records /\ r.pc \in 1..Len(Program[sh][p])
        /\ Scoped(r.held) /\ Standing(r) /\ OnTrack(sh, p, r)
    BY DEF Local, Live
  <1>2. ProgramFacts(sh, p, Program[sh][p])
    BY <1>1, ProgramsAreSound
  <1>3. r.pc \in Nat \ {0}
    BY <1>1, <1>2 DEF ProgramFacts
  <1> QED
    BY <1>1, <1>2, <1>3 DEF ProgramFacts

\* Where a process is after a step that is not its last.
LEMMA AfterStep ==
  ASSUME NEW sh \in DOMAIN MainProgram, NEW p, NEW r, Local(sh, p, r), r.status = "run",
         Program[sh][p][r.pc] \notin {"loop", "exec"}
  PROVE  LET P == Program[sh][p]
             s == P[r.pc]
         IN /\ r.pc + 1 \in 1..Len(P)
            /\ Open(P[r.pc + 1]) = After(s)
            /\ DroppedAt(sh, p, P, r.pc + 1) <=> r.dropped \/ s = "drop_privileges"
            /\ \A x : Before(P, r.pc + 1, x) <=> Before(P, r.pc, x) \/ s = x
            /\ Depth(r.held) = Open(s)
  <1> DEFINE P == Program[sh][p]
             n == Len(P)
             i == r.pc
  <1>1. /\ i \in 1..n /\ i \in Nat \ {0} /\ StepFacts(sh, p, P, i) /\ OnTrack(sh, p, r)
        /\ p \in Cast(sh)
    BY AtStep
  <1>2. n \in Nat
    BY <1>1, ProgramsAreSound DEF ProgramFacts
  <1>3. i # n /\ (i < n => Open(P[i + 1]) = After(P[i]))
    BY <1>1 DEF StepFacts
  <1>4. \A x : Before(P, i + 1, x) <=> Before(P, i, x) \/ P[i] = x
    BY <1>1, BeforeNext
  <1>5. DroppedAt(sh, p, P, i + 1) <=> r.dropped \/ P[i] = "drop_privileges"
    BY <1>1, <1>4 DEF DroppedAt, OnTrack
  <1>6. Depth(r.held) = Open(P[i])
    BY <1>1 DEF OnTrack
  <1> HIDE DEF n, i, P
  <1>7. i + 1 \in 1..n /\ i < n
    BY <1>1, <1>2, <1>3
  <1> QED
    BY <1>3, <1>4, <1>5, <1>6, <1>7 DEF n, i, P

\* A process that has ended, for whatever reason.
LEMMA LocalZombie ==
  ASSUME NEW sh \in DOMAIN MainProgram, NEW p \in Processes, p \in Cast(sh),
         NEW e \in {0, 1, 77, Killed}
  PROVE  Local(sh, p, Zombie(e))
  <1>1. Len(Program[sh][p]) \in Nat \ {0}
    BY ProgramsAreNotEmpty
  <1>2. 1 \in 1..Len(Program[sh][p])
    BY <1>1
  <1> QED
    BY <1>2, ZombieFields, ZenonT(30) DEF Local, Live

\* A process that starts to unwind.
LEMMA LocalLeaves ==
  ASSUME NEW sh, NEW p, NEW r, Local(sh, p, r), r.status \in {"run", "loop"},
         NEW e \in {0, 1, 77}
  PROVE  Local(sh, p, Leaves(r, e))
  <1> DEFINE q == Leaves(r, e)
  <1>1. /\ q \in Records /\ q.status = "unwind" /\ q.pc = r.pc
        /\ q.held = r.held /\ q.kids = r.kids
        /\ q.root = r.root /\ q.dropped = r.dropped /\ q.environ = r.environ
    BY LeavesFields DEF Local
  <1> HIDE DEF q
  <1>2. Scoped(q.held) /\ Standing(q)
    BY <1>1 DEF Local, Live, Standing
  <1>3. Local(sh, p, q)
    BY <1>1, <1>2 DEF Local, Live
  <1> QED
    BY <1>3 DEF q

\* A process for which a signal waits.
LEMMA LocalPending ==
  ASSUME NEW sh, NEW p, NEW r, Local(sh, p, r), r.status # "none"
  PROVE  Local(sh, p, [r EXCEPT !.pending = TRUE])
  <1> DEFINE q == [r EXCEPT !.pending = TRUE]
  <1>1. /\ q \in Records /\ q.status = r.status /\ q.pc = r.pc
        /\ q.held = r.held /\ q.kids = r.kids
        /\ q.root = r.root /\ q.dropped = r.dropped /\ q.environ = r.environ
    BY PendingFields DEF Local
  <1> HIDE DEF q
  <1>2. Local(sh, p, q)
    BY <1>1 DEF Local, Standing, OnTrack
  <1> QED
    BY <1>2 DEF q

\* A process whose end has been seen.
LEMMA LocalNoticed ==
  ASSUME NEW sh, NEW p, NEW r, Local(sh, p, r), r.status # "none"
  PROVE  Local(sh, p, [r EXCEPT !.noticed = TRUE])
  <1> DEFINE q == [r EXCEPT !.noticed = TRUE]
  <1>1. /\ q \in Records /\ q.status = r.status /\ q.pc = r.pc
        /\ q.held = r.held /\ q.kids = r.kids
        /\ q.root = r.root /\ q.dropped = r.dropped /\ q.environ = r.environ
    BY NoticedFields DEF Local
  <1> HIDE DEF q
  <1>2. Local(sh, p, q)
    BY <1>1 DEF Local, Standing, OnTrack
  <1> QED
    BY <1>2 DEF q

\* A loop that has forgotten a child.
LEMMA LocalTail ==
  ASSUME NEW sh, NEW p, NEW r, Local(sh, p, r), r.kids # <<>>
  PROVE  Local(sh, p, [r EXCEPT !.kids = Tail(@)])
  <1> DEFINE q == [r EXCEPT !.kids = Tail(@)]
  <1>1. /\ q \in Records /\ q.status = r.status /\ q.pc = r.pc
        /\ q.held = r.held
        /\ q.root = r.root /\ q.dropped = r.dropped /\ q.environ = r.environ
    BY TailFields DEF Local
  <1> HIDE DEF q
  <1>2. /\ r.status \in Live /\ r.status # "exec" /\ "event_loop" \in ToSet(r.held)
        /\ Before(Program[sh][p], r.pc, "event_loop")
    BY DEF Local
  <1>3. Local(sh, p, q)
    BY <1>1, <1>2 DEF Local, Live, Standing, OnTrack
  <1> QED
    BY <1>3 DEF q

\* A process that becomes another program.
LEMMA LocalExec ==
  ASSUME NEW sh \in DOMAIN MainProgram, NEW p, NEW r, Local(sh, p, r), r.status = "run",
         Program[sh][p][r.pc] = "exec"
  PROVE  Local(sh, p, [r EXCEPT !.status = "exec"])
  <1> DEFINE q == [r EXCEPT !.status = "exec"]
  <1>1. /\ q \in Records /\ q.status = "exec" /\ q.pc = r.pc
        /\ q.held = r.held /\ q.kids = r.kids
        /\ q.root = r.root /\ q.dropped = r.dropped /\ q.environ = r.environ
    BY StatusFields DEF Local, Live
  <1> HIDE DEF q
  <1>2. r.kids = <<>>
    BY AtStep DEF Local, StepFacts
  <1>3. Local(sh, p, q)
    BY <1>1, <1>2 DEF Local, Live, Standing
  <1> QED
    BY <1>3 DEF q

\* A process that enters its loop.
LEMMA LocalEnterLoop ==
  ASSUME NEW sh \in DOMAIN MainProgram, NEW p, NEW r, Local(sh, p, r), r.status = "run",
         Program[sh][p][r.pc] = "loop"
  PROVE  Local(sh, p, [TemporarilyUnprivileged(r) EXCEPT !.status = "loop"])
  <1> DEFINE u == TemporarilyUnprivileged(r)
             q == [u EXCEPT !.status = "loop"]
             h == Append(r.held, "enter_unprivileged")
  <1>1. /\ u \in Records /\ u.pc = r.pc /\ u.held = h /\ u.kids = r.kids
        /\ u.root = FALSE /\ u.dropped = r.dropped /\ u.environ = r.environ
    BY UnprivilegedFields DEF Local
  <1> HIDE DEF u
  <1>2. /\ q \in Records /\ q.status = "loop" /\ q.pc = r.pc /\ q.held = h
        /\ q.kids = r.kids /\ q.root = FALSE /\ q.dropped = r.dropped
        /\ q.environ = r.environ
    BY <1>1, StatusFields DEF Live
  <1>3. /\ r.held \in Seq(Things) /\ Scoped(r.held) /\ Depth(r.held) = 0
        /\ Standing(r)
    BY AtStep DEF Records, OnTrack, StepFacts
  <1>4. Scoped(h) /\ Depth(h) = 1
    BY <1>3, PushUnprivileged
  <1>5. ToSet(r.held) \subseteq ToSet(h)
    BY <1>3, AppendFacts DEF Things, Scopes
  <1> HIDE DEF q, h
  <1>6. Standing(q)
    BY <1>2, <1>3, <1>4 DEF Standing, Local, Records
  <1>7. Local(sh, p, q)
    BY <1>2, <1>4, <1>5, <1>6 DEF Local, Live
  <1> QED
    BY <1>7 DEF q, u

\* Taking away a temporary scope gives back what it had taken.
LEMMA PoppedScope ==
  ASSUME NEW r \in Records, Scoped(r.held), Standing(r), r.held # <<>>,
         Last(r.held) \in Scopes
  PROVE  LET q == Popped(Restored(r, Last(r.held)))
         IN /\ q \in Records /\ q.status = r.status /\ q.pc = r.pc
            /\ q.held = Front(r.held) /\ q.kids = r.kids /\ q.dropped = r.dropped
            /\ q.code = r.code
            /\ Scoped(q.held) /\ Standing(q)
            /\ Depth(q.held) = Depth(r.held) - 1
            /\ ToSet(r.held) = ToSet(q.held) \cup {Last(r.held)}
  <1> DEFINE s == Restored(r, Last(r.held))
             q == Popped(s)
  <1>0. r.held \in Seq(Things)
    BY DEF Records
  <1>1. /\ s \in Records /\ s.status = r.status /\ s.pc = r.pc /\ s.held = r.held
        /\ s.kids = r.kids /\ s.dropped = r.dropped /\ s.code = r.code
        /\ Last(r.held) = "enter_unprivileged" => s.root = ~r.dropped /\ s.environ = r.environ
        /\ Last(r.held) = "enter_environment" => s.root = r.root /\ s.environ = "none"
    BY RestoredPrivileges, RestoredEnvironment DEF Scopes
  <1> HIDE DEF s
  <1>2. /\ q \in Records /\ q.status = r.status /\ q.pc = r.pc
        /\ q.held = Front(r.held) /\ q.kids = r.kids /\ q.dropped = r.dropped
        /\ q.root = s.root /\ q.environ = s.environ /\ q.code = r.code
    BY <1>1, PoppedFields
  <1>3. /\ Scoped(Front(r.held))
        /\ Last(r.held) = "enter_environment" =>
             Depth(r.held) = 2 /\ Depth(Front(r.held)) = 1
        /\ Last(r.held) = "enter_unprivileged" =>
             Depth(r.held) = 1 /\ Depth(Front(r.held)) = 0
    BY <1>0, Pop
  <1>4. ToSet(r.held) = ToSet(Front(r.held)) \cup {Last(r.held)}
    BY <1>0, FrontFacts
  <1> HIDE DEF q
  <1>5. CASE Last(r.held) = "enter_environment"
    <2>1. Standing(q)
      BY <1>1, <1>2, <1>3, <1>5 DEF Standing, Records
    <2>2. Depth(q.held) = Depth(r.held) - 1
      BY <1>2, <1>3, <1>5
    <2> QED
      BY <1>2, <1>3, <1>4, <2>1, <2>2 DEF q, s
  <1>6. CASE Last(r.held) = "enter_unprivileged"
    <2>1. Standing(q)
      BY <1>1, <1>2, <1>3, <1>6 DEF Standing, Records
    <2>2. Depth(q.held) = Depth(r.held) - 1
      BY <1>2, <1>3, <1>6
    <2> QED
      BY <1>2, <1>3, <1>4, <2>1, <2>2 DEF q, s
  <1> QED
    BY <1>5, <1>6 DEF Scopes

\* Taking away anything else leaves privileges and environment alone.
LEMMA PoppedThing ==
  ASSUME NEW r \in Records, Scoped(r.held), Standing(r), r.held # <<>>,
         Last(r.held) \notin Scopes
  PROVE  LET q == Popped(r)
         IN /\ q \in Records /\ q.status = r.status /\ q.pc = r.pc
            /\ q.held = Front(r.held) /\ q.kids = r.kids /\ q.dropped = r.dropped
            /\ q.code = r.code
            /\ Scoped(q.held) /\ Standing(q)
            /\ Depth(r.held) = 0
            /\ ToSet(r.held) = ToSet(q.held) \cup {Last(r.held)}
  <1> DEFINE q == Popped(r)
  <1>0. r.held \in Seq(Things)
    BY DEF Records
  <1>1. /\ q \in Records /\ q.status = r.status /\ q.pc = r.pc
        /\ q.held = Front(r.held) /\ q.kids = r.kids /\ q.dropped = r.dropped
        /\ q.root = r.root /\ q.environ = r.environ /\ q.code = r.code
    BY PoppedFields
  <1>2. Scoped(Front(r.held)) /\ Depth(r.held) = 0 /\ Depth(Front(r.held)) = 0
    BY <1>0, Pop
  <1>3. ToSet(r.held) = ToSet(Front(r.held)) \cup {Last(r.held)}
    BY <1>0, FrontFacts
  <1> HIDE DEF q
  <1>4. Standing(q)
    BY <1>1, <1>2 DEF Standing
  <1> QED
    BY <1>1, <1>2, <1>3, <1>4 DEF q

\* A temporary scope that is unwound.
LEMMA LocalUnwindScope ==
  ASSUME NEW sh, NEW p, NEW r, Local(sh, p, r), r.status = "unwind",
         r.held # <<>>, Last(r.held) \in Scopes
  PROVE  Local(sh, p, Popped(Restored(r, Last(r.held))))
  <1> DEFINE q == Popped(Restored(r, Last(r.held)))
  <1>1. r \in Records /\ Scoped(r.held) /\ Standing(r)
    BY DEF Local, Live
  <1>2. /\ q \in Records /\ q.status = r.status /\ q.pc = r.pc
        /\ q.kids = r.kids /\ q.dropped = r.dropped
        /\ Scoped(q.held) /\ Standing(q)
        /\ ToSet(r.held) = ToSet(q.held) \cup {Last(r.held)}
    BY <1>1, PoppedScope
  <1> HIDE DEF q
  <1>3. "event_loop" \in ToSet(r.held) => "event_loop" \in ToSet(q.held)
    BY <1>2 DEF Scopes
  <1>4. Local(sh, p, q)
    BY <1>2, <1>3 DEF Local, Live
  <1> QED
    BY <1>4 DEF q

\* Anything else that is unwound; the event loop only without children.
LEMMA LocalUnwindThing ==
  ASSUME NEW sh, NEW p, NEW r, Local(sh, p, r), r.status = "unwind",
         r.held # <<>>, Last(r.held) \notin Scopes,
         Last(r.held) = "event_loop" => r.kids = <<>>
  PROVE  Local(sh, p, Popped(r))
  <1> DEFINE q == Popped(r)
  <1>1. r \in Records /\ Scoped(r.held) /\ Standing(r)
    BY DEF Local, Live
  <1>2. /\ q \in Records /\ q.status = r.status /\ q.pc = r.pc
        /\ q.kids = r.kids /\ q.dropped = r.dropped
        /\ Scoped(q.held) /\ Standing(q)
        /\ ToSet(r.held) = ToSet(q.held) \cup {Last(r.held)}
    BY <1>1, PoppedThing
  <1> HIDE DEF q
  <1>3. r.kids # <<>> /\ "event_loop" \in ToSet(r.held) => "event_loop" \in ToSet(q.held)
    BY <1>2
  <1>4. Local(sh, p, q)
    BY <1>2, <1>3 DEF Local, Live
  <1> QED
    BY <1>4 DEF q

\* A process that has taken a step is where its program puts it.
LEMMA LocalAdvance ==
  ASSUME NEW sh \in DOMAIN MainProgram, NEW p, NEW r, Local(sh, p, r), r.status = "run",
         Program[sh][p][r.pc] \notin {"loop", "exec"},
         NEW q \in Records, q.status = "run", q.pc = r.pc + 1,
         Scoped(q.held), Standing(q),
         Depth(q.held) = After(Program[sh][p][r.pc]),
         q.dropped <=> r.dropped \/ Program[sh][p][r.pc] = "drop_privileges",
         "event_loop" \in ToSet(r.held) \cup {Program[sh][p][r.pc]} =>
           "event_loop" \in ToSet(q.held),
         q.kids # <<>> => Before(Program[sh][p], r.pc, "event_loop")
  PROVE  Local(sh, p, q)
  <1> DEFINE P == Program[sh][p]
             s == P[r.pc]
  <1>1. /\ p \in Cast(sh) /\ r \in Records /\ StepFacts(sh, p, P, r.pc)
        /\ OnTrack(sh, p, r)
    BY AtStep
  <1>2. /\ r.pc + 1 \in 1..Len(P)
        /\ Open(P[r.pc + 1]) = After(s)
        /\ DroppedAt(sh, p, P, r.pc + 1) <=> r.dropped \/ s = "drop_privileges"
        /\ \A x : Before(P, r.pc + 1, x) <=> Before(P, r.pc, x) \/ s = x
    BY AfterStep
  <1>3. OnTrack(sh, p, q)
    BY <1>1, <1>2 DEF OnTrack
  <1>4. p = "main" => ~q.dropped
    BY <1>1 DEF StepFacts, Local
  <1>5. q.kids # <<>> => /\ "event_loop" \in ToSet(q.held)
                         /\ Before(P, q.pc, "event_loop")
    BY <1>1, <1>2 DEF OnTrack
  <1>6. q.pc \in 1..Len(P)
    BY <1>2
  <1> QED
    BY <1>1, <1>3, <1>4, <1>5, <1>6 DEF Local, Live

\* What a step does to the process, by kind of step.
LEMMA ChangedCases ==
  ASSUME NEW r, NEW s
  PROVE  /\ s = "drop_privileges" => Changed(r, s) = drop_privileges(r)
         /\ s = "restore_environment" => Changed(r, s) = [r EXCEPT !.environ = "user"]
         /\ s = "enter_unprivileged" => Changed(r, s) = TemporarilyUnprivileged(r)
         /\ s = "enter_environment" => Changed(r, s) = TemporaryEnvironment(r)
         /\ s \in Persistent \cup {"event_loop"} =>
              Changed(r, s) = [r EXCEPT !.held = Append(@, s)]
         /\ s \notin Persistent \cup {"event_loop", "drop_privileges",
                 "restore_environment", "enter_unprivileged", "enter_environment"} =>
              Changed(r, s) = r
  BY DEF Changed, Persistent

\* A system call: what the process is afterwards.
LEMMA LocalCall ==
  ASSUME NEW sh \in DOMAIN MainProgram, NEW p, NEW r, Local(sh, p, r), r.status = "run",
         NEW s, s = Program[sh][p][r.pc],
         s \notin Processes \cup ScopeEnds \cup {"loop", "exec"}
  PROVE  LET q == Advanced(Changed(r, s))
         IN /\ Local(sh, p, q) /\ q.status = "run" /\ q.pc = r.pc + 1
            /\ q.kids = r.kids /\ q.code = r.code
            /\ ToSet(r.held) \cup ({s} \cap Persistent) \subseteq ToSet(q.held)
  <1> DEFINE P == Program[sh][p]
             u == Changed(r, s)
             q == Advanced(u)
  <1>1. /\ p \in Cast(sh) /\ r \in Records /\ StepFacts(sh, p, P, r.pc)
        /\ OnTrack(sh, p, r) /\ Scoped(r.held) /\ Standing(r)
        /\ r.held \in Seq(Things) /\ Depth(r.held) = Open(s)
    BY AtStep DEF Records, OnTrack
  <1>2. ASSUME u \in Records, u.status = "run", u.pc = r.pc, u.kids = r.kids,
               u.code = r.code, Scoped(u.held), Standing(u),
               Depth(u.held) = After(s),
               u.dropped <=> r.dropped \/ s = "drop_privileges",
               ToSet(r.held) \cup ({s} \cap (Persistent \cup {"event_loop"}))
                 \subseteq ToSet(u.held)
        PROVE  /\ Local(sh, p, q) /\ q.status = "run" /\ q.pc = r.pc + 1
               /\ q.kids = r.kids /\ q.code = r.code
               /\ ToSet(r.held) \cup ({s} \cap Persistent) \subseteq ToSet(q.held)
    <2> HIDE DEF u
    <2>1. /\ q \in Records /\ q.status = "run" /\ q.pc = r.pc + 1
          /\ q.held = u.held /\ q.kids = r.kids /\ q.root = u.root
          /\ q.dropped = u.dropped /\ q.environ = u.environ /\ q.code = r.code
      BY <1>2, AdvancedFields
    <2> HIDE DEF q
    <2>2. Standing(q)
      BY <1>2, <2>1 DEF Standing
    <2>3. q.kids # <<>> => Before(P, r.pc, "event_loop")
      BY <2>1 DEF Local
    <2>4. Local(sh, p, q)
      BY <1>2, <2>1, <2>2, <2>3, LocalAdvance
    <2> QED
      BY <1>2, <2>1, <2>4
  <1>3. CASE s = "drop_privileges"
    <2>1. u = drop_privileges(r)
      BY <1>3, ChangedCases
    <2> HIDE DEF u
    <2>2. /\ u \in Records /\ u.status = "run" /\ u.pc = r.pc /\ u.kids = r.kids
          /\ u.code = r.code /\ u.held = r.held /\ u.root = FALSE /\ u.dropped = TRUE
      BY <1>1, <2>1, DropFields
    <2>3. Standing(u)
      BY <2>2 DEF Standing
    <2>4. Depth(r.held) = After(s) /\ s \notin Persistent \cup {"event_loop"}
      BY <1>1, <1>3 DEF Open, After, Persistent
    <2>5. ToSet(r.held) \cup ({s} \cap (Persistent \cup {"event_loop"})) \subseteq ToSet(u.held)
      BY <2>2, <2>4
    <2> QED
      BY <1>1, <1>2, <1>3, <2>2, <2>3, <2>4, <2>5 DEF u
  <1>4. CASE s = "restore_environment"
    <2>1. u = [r EXCEPT !.environ = "user"]
      BY <1>4, ChangedCases
    <2> HIDE DEF u
    <2>2. /\ u \in Records /\ u.status = "run" /\ u.pc = r.pc /\ u.kids = r.kids
          /\ u.code = r.code /\ u.held = r.held /\ u.root = r.root
          /\ u.dropped = r.dropped
      BY <1>1, <2>1, UserFields
    <2>3. r.dropped
      BY <1>1, <1>4 DEF StepFacts, Unprivileged, OnTrack
    <2>4. Depth(r.held) = After(s) /\ s \notin Persistent \cup {"event_loop"}
      BY <1>1, <1>4 DEF Open, After, Persistent
    <2>5. Standing(u)
      BY <1>1, <2>2, <2>3 DEF Standing
    <2>6. ToSet(r.held) \cup ({s} \cap (Persistent \cup {"event_loop"})) \subseteq ToSet(u.held)
      BY <2>2, <2>4
    <2> QED
      BY <1>1, <1>2, <1>4, <2>2, <2>4, <2>5, <2>6 DEF u
  <1>5. CASE s = "enter_unprivileged"
    <2> DEFINE h == Append(r.held, "enter_unprivileged")
    <2>1. u = TemporarilyUnprivileged(r)
      BY <1>5, ChangedCases
    <2> HIDE DEF u
    <2>2. /\ u \in Records /\ u.status = "run" /\ u.pc = r.pc /\ u.kids = r.kids
          /\ u.code = r.code /\ u.held = h /\ u.root = FALSE
          /\ u.dropped = r.dropped /\ u.environ = r.environ
      BY <1>1, <2>1, UnprivilegedFields
    <2>3. Depth(r.held) = 0 /\ After(s) = 1 /\ s \notin Persistent \cup {"event_loop"}
      BY <1>1, <1>5 DEF Open, After, Persistent
    <2>4. Scoped(h) /\ Depth(h) = 1
      BY <1>1, <2>3, PushUnprivileged
    <2>5. ToSet(r.held) \subseteq ToSet(h)
      BY <1>1, AppendFacts DEF Things, Scopes
    <2> HIDE DEF u, h
    <2>6. Standing(u)
      BY <1>1, <2>2, <2>3, <2>4 DEF Standing, Records
    <2>7. ToSet(r.held) \cup ({s} \cap (Persistent \cup {"event_loop"})) \subseteq ToSet(u.held)
      BY <2>2, <2>3, <2>5
    <2> QED
      BY <1>1, <1>2, <1>5, <2>2, <2>3, <2>4, <2>6, <2>7 DEF u
  <1>6. CASE s = "enter_environment"
    <2> DEFINE h == Append(r.held, "enter_environment")
    <2>1. u = TemporaryEnvironment(r)
      BY <1>6, ChangedCases
    <2> HIDE DEF u
    <2>2. /\ u \in Records /\ u.status = "run" /\ u.pc = r.pc /\ u.kids = r.kids
          /\ u.code = r.code /\ u.held = h /\ u.root = r.root
          /\ u.dropped = r.dropped /\ u.environ = "user"
      BY <1>1, <2>1, EnvironmentFields
    <2>3. Depth(r.held) = 1 /\ After(s) = 2 /\ s \notin Persistent \cup {"event_loop"}
      BY <1>1, <1>6 DEF Open, After, Persistent
    <2>4. Scoped(h) /\ Depth(h) = 2
      BY <1>1, <2>3, PushEnvironment
    <2>5. ToSet(r.held) \subseteq ToSet(h)
      BY <1>1, AppendFacts DEF Things, Scopes
    <2> HIDE DEF u, h
    <2>6. Standing(u)
      BY <1>1, <2>2, <2>3, <2>4, SMTT(30) DEF Standing, Records
    <2>7. ToSet(r.held) \cup ({s} \cap (Persistent \cup {"event_loop"})) \subseteq ToSet(u.held)
      BY <2>2, <2>3, <2>5, SMTT(30)
    <2> QED
      BY <1>1, <1>2, <1>6, <2>2, <2>3, <2>4, <2>6, <2>7 DEF u
  <1>7. CASE s \in Persistent \cup {"event_loop"}
    <2> DEFINE h == Append(r.held, s)
    <2>1. u = [r EXCEPT !.held = Append(@, s)]
      BY <1>7, ChangedCases
    <2> HIDE DEF u
    <2>2. s \in Things /\ s \notin Scopes
      BY <1>7 DEF Things, Scopes, Persistent
    <2>3. /\ u \in Records /\ u.status = "run" /\ u.pc = r.pc /\ u.kids = r.kids
          /\ u.code = r.code /\ u.held = h /\ u.root = r.root
          /\ u.dropped = r.dropped /\ u.environ = r.environ
      BY <1>1, <2>1, <2>2, HoldFields
    <2>4. Depth(r.held) = 0 /\ After(s) = 0 /\ s # "drop_privileges"
      BY <1>1, <1>7 DEF Open, After, Persistent
    <2>5. Scoped(h) /\ Depth(h) = 0
      BY <1>1, <2>2, <2>4, PushThing
    <2>6. ToSet(h) = ToSet(r.held) \cup {s}
      BY <1>1, <2>2, AppendFacts
    <2> HIDE DEF u, h
    <2>7. Standing(u)
      BY <1>1, <2>3, <2>4, <2>5 DEF Standing
    <2>8. ToSet(r.held) \cup ({s} \cap (Persistent \cup {"event_loop"})) \subseteq ToSet(u.held)
      BY <2>3, <2>6
    <2> QED
      BY <1>1, <1>2, <2>3, <2>4, <2>5, <2>7, <2>8 DEF u
  <1>8. CASE s \notin Persistent \cup {"event_loop", "drop_privileges",
                 "restore_environment", "enter_unprivileged", "enter_environment"}
    <2>1. u = r
      BY <1>8, ChangedCases
    <2>2. Depth(r.held) = After(s) /\ s # "drop_privileges"
      BY <1>1, <1>8 DEF Open, After, ScopeEnds
    <2>3. ToSet(r.held) \cup ({s} \cap (Persistent \cup {"event_loop"})) \subseteq ToSet(u.held)
      BY <1>8, <2>1
    <2> HIDE DEF u
    <2> QED
      BY <1>1, <1>2, <2>1, <2>2, <2>3 DEF u
  <1> QED
    BY <1>3, <1>4, <1>5, <1>6, <1>7, <1>8

\* The end of a temporary scope.
LEMMA LocalLeaveScope ==
  ASSUME NEW sh \in DOMAIN MainProgram, NEW p, NEW r, Local(sh, p, r), r.status = "run",
         Program[sh][p][r.pc] \in ScopeEnds
  PROVE  LET q == Advanced(Popped(Restored(r, Last(r.held))))
         IN /\ Local(sh, p, q) /\ q.status = "run" /\ q.pc = r.pc + 1
            /\ q.kids = r.kids /\ q.code = r.code
            /\ ToSet(r.held) \subseteq ToSet(q.held) \cup Scopes
  <1> DEFINE s == Program[sh][p][r.pc]
             u == Popped(Restored(r, Last(r.held)))
             q == Advanced(u)
  <1>1. /\ r \in Records /\ OnTrack(sh, p, r) /\ Scoped(r.held) /\ Standing(r)
        /\ r.held \in Seq(Things) /\ Depth(r.held) = Open(s)
    BY AtStep DEF Records, OnTrack
  <1>2. Depth(r.held) = After(s) + 1 /\ Depth(r.held) \in {1, 2}
    BY <1>1 DEF Open, After, ScopeEnds
  <1>3. r.held # <<>>
    BY <1>2, DepthOfEmpty
  <1>4. Last(r.held) \in Scopes
    BY <1>1, <1>2, <1>3, Pop
  <1>5. /\ u \in Records /\ u.status = r.status /\ u.pc = r.pc
        /\ u.kids = r.kids /\ u.dropped = r.dropped /\ u.code = r.code
        /\ Scoped(u.held) /\ Standing(u)
        /\ Depth(u.held) = Depth(r.held) - 1
        /\ ToSet(r.held) = ToSet(u.held) \cup {Last(r.held)}
    BY <1>1, <1>3, <1>4, PoppedScope
  <1> HIDE DEF u
  <1>6. /\ q \in Records /\ q.status = "run" /\ q.pc = r.pc + 1
        /\ q.held = u.held /\ q.kids = r.kids /\ q.root = u.root
        /\ q.dropped = r.dropped /\ q.environ = u.environ /\ q.code = r.code
    BY <1>5, AdvancedFields
  <1> HIDE DEF q
  <1>7. Standing(q)
    BY <1>5, <1>6 DEF Standing
  <1>8. s \notin {"loop", "exec", "drop_privileges", "event_loop"}
    BY DEF ScopeEnds
  <1>9. q.kids # <<>> => Before(Program[sh][p], r.pc, "event_loop")
    BY <1>6 DEF Local
  <1>10. "event_loop" \in ToSet(r.held) => "event_loop" \in ToSet(q.held)
    BY <1>4, <1>5, <1>6 DEF Scopes
  <1>11. Depth(q.held) = After(s)
    BY <1>2, <1>5, <1>6 DEF After
  <1>12. Local(sh, p, q)
    BY <1>5, <1>6, <1>7, <1>8, <1>9, <1>10, <1>11, LocalAdvance
  <1> QED
    BY <1>4, <1>5, <1>6, <1>12 DEF q, u

\* A process that has forked another.
LEMMA LocalForks ==
  ASSUME NEW sh \in DOMAIN MainProgram, NEW p, NEW r, Local(sh, p, r), r.status = "run",
         NEW c \in Processes, c = Program[sh][p][r.pc]
  PROVE  Local(sh, p, [Advanced(r) EXCEPT !.kids = Append(@, c)])
  <1> DEFINE q == [Advanced(r) EXCEPT !.kids = Append(@, c)]
  <1>1. /\ r \in Records /\ OnTrack(sh, p, r) /\ Scoped(r.held) /\ Standing(r)
        /\ StepFacts(sh, p, Program[sh][p], r.pc)
    BY AtStep
  <1>2. /\ q \in Records /\ q.status = "run" /\ q.pc = r.pc + 1
        /\ q.held = r.held /\ q.root = r.root
        /\ q.dropped = r.dropped /\ q.environ = r.environ
    BY <1>1, ForkFields
  <1> HIDE DEF q
  <1>3. Standing(q)
    BY <1>1, <1>2 DEF Standing
  <1>4. c \notin {"loop", "exec", "drop_privileges", "event_loop"}
    BY DEF Processes
  <1>5. Open(c) = 0 /\ After(c) = 0
    BY DEF Processes, Open, After
  <1>6. Before(Program[sh][p], r.pc, "event_loop")
    BY <1>1 DEF StepFacts
  <1>7. Depth(q.held) = After(c)
    BY <1>1, <1>2, <1>5 DEF OnTrack
  <1>8. Local(sh, p, q)
    BY <1>1, <1>2, <1>3, <1>4, <1>6, <1>7, LocalAdvance
  <1> QED
    BY <1>8 DEF q

\* The process that has been forked starts with its parent's privileges.
ChildOf(r) ==
  [Newborn EXCEPT !.status = "run", !.root = r.root, !.dropped = r.dropped,
                  !.environ = r.environ]

\* The child that has been forked keeps its own program's invariant.
LEMMA LocalForked ==
  ASSUME NEW sh \in DOMAIN MainProgram, NEW p, NEW r, Local(sh, p, r), r.status = "run",
         NEW c \in Processes, c = Program[sh][p][r.pc]
  PROVE  LET q == ChildOf(r)
         IN /\ Local(sh, c, q) /\ q.status = "run" /\ q.pc = 1 /\ q.kids = <<>>
  <1> DEFINE q == ChildOf(r)
  <1>1. /\ r \in Records /\ OnTrack(sh, p, r) /\ Standing(r)
        /\ StepFacts(sh, p, Program[sh][p], r.pc)
    BY AtStep
  <1>2. /\ r.root \in BOOLEAN /\ r.dropped \in BOOLEAN /\ r.environ \in {"none", "user"}
        /\ <<>> \in Seq(Things) /\ <<>> \in Seq(Processes)
    BY <1>1, EmptySeq DEF Records
  <1>3. /\ q \in Records /\ q.status = "run" /\ q.pc = 1
        /\ q.held = <<>> /\ q.kids = <<>> /\ q.root = r.root
        /\ q.dropped = r.dropped /\ q.environ = r.environ
    BY <1>2 DEF ChildOf, Newborn, Records, Live
  <1>4. c \in Cast(sh) /\ c # "main" /\ (BornUnprivileged(sh, c) <=> r.dropped)
    BY <1>1 DEF StepFacts, OnTrack
  <1>5. ProgramFacts(sh, c, Program[sh][c])
    BY <1>4, ProgramsAreSound
  <1> HIDE DEF q
  <1>6. Depth(r.held) = 0
    BY <1>1 DEF OnTrack, Open, Processes
  <1>7. Standing(q)
    BY <1>1, <1>3, <1>6, DepthOfEmpty DEF Standing
  <1>8. OnTrack(sh, c, q)
    BY <1>3, <1>4, <1>5, DepthOfEmpty, BeforeFirst DEF OnTrack, DroppedAt, ProgramFacts
  <1>9. q.pc \in 1..Len(Program[sh][c])
    BY <1>3, <1>5 DEF ProgramFacts
  <1>10. Local(sh, c, q)
    BY <1>3, <1>4, <1>7, <1>8, <1>9, DepthOfEmpty DEF Local, Live
  <1> QED
    BY <1>3, <1>10 DEF q

\* A process that has not been started.
LEMMA LocalNewborn ==
  ASSUME NEW sh \in DOMAIN MainProgram, NEW p \in Processes, p # "main"
  PROVE  Local(sh, p, Newborn)
  <1>1. 1 \in 1..Len(Program[sh][p])
    BY ProgramsAreNotEmpty
  <1> QED
    BY <1>1, NewbornFields DEF Local, Live
------------------------------------------------------------------------------
(* The session: a step of one process.                                      *)

\* The record q may come after r: a process starts only by being forked, does
\* not come back to life, and goes through its program step by step.
MayBecome(r, q) ==
  /\ q.status = "none" <=> r.status = "none"
  /\ q.status \in Live => r.status \in Live
  /\ ToSet(q.kids) \subseteq ToSet(r.kids)
  /\ q.status = "run" => r.status = "run" /\ q.pc \in {r.pc, r.pc + 1}

\* The shell that was started is one of the seven.
LEMMA ShellIsKnown ==
  ASSUME SessionInv
  PROVE  shell \in DOMAIN MainProgram
  BY SessionAssumption DEF SessionInv, Surroundings

\* A parent is a process.
LEMMA ParentIsProcess ==
  ASSUME NEW sh, NEW c
  PROVE  Parent(sh, c) \in Processes
  BY DEF Parent, Processes

\* The steps before a later position include those before an earlier one.
LEMMA BeforeMonotonic ==
  ASSUME NEW P, NEW i \in Nat, NEW j \in {i, i + 1}, NEW s, Before(P, i, s)
  PROVE  Before(P, j, s)
  BY DEF Before

\* Parents and children stay related when nobody is forked and only children
\* that have ended are forgotten.
LEMMA FamilyKept ==
  ASSUME SessionInv, shell' = shell,
         \A x \in Processes : MayBecome(proc[x], proc'[x]),
         \A x \in Processes : \A c \in ToSet(proc[x].kids) \ ToSet(proc'[x].kids) :
           proc[c].status \notin Live
  PROVE  Family'
  <1>1. ASSUME NEW c \in Processes \ {"main"}
        PROVE  Forked(c)'
    <2> DEFINE w == Parent(shell, c)
    <2>1. w \in Processes
      BY ParentIsProcess
    <2>2. Forked(c) /\ MayBecome(proc[c], proc'[c]) /\ MayBecome(proc[w], proc'[w])
      BY <2>1 DEF SessionInv, Family
    <2>3. proc[w].pc \in Nat
      BY <2>1 DEF SessionInv, Records
    <2>4. Parent(shell', c) = w
      OBVIOUS
    <2>5. SUFFICES ASSUME proc'[c].status # "none"
                   PROVE  /\ proc'[w].status # "none"
                          /\ proc'[w].status = "run" => Before(Program[shell][w], proc'[w].pc, c)
      BY DEF Forked
    <2>6. /\ proc[w].status # "none"
          /\ proc[w].status = "run" => Before(Program[shell][w], proc[w].pc, c)
      BY <2>2, <2>5 DEF Forked, MayBecome
    <2> QED
      BY <2>2, <2>3, <2>6, BeforeMonotonic DEF MayBecome
  <1>2. ASSUME NEW c \in Processes \ {"main"}
        PROVE  Known(c)'
    <2> DEFINE w == Parent(shell, c)
    <2>1. w \in Processes
      BY ParentIsProcess
    <2>2. Known(c) /\ MayBecome(proc[c], proc'[c])
      BY DEF SessionInv, Family
    <2>3. SUFFICES ASSUME proc'[c].status \in Live
                   PROVE  c \in ToSet(proc'[w].kids)
      BY DEF Known
    <2>4. proc[c].status \in Live /\ c \in ToSet(proc[w].kids)
      BY <2>2, <2>3 DEF Known, MayBecome
    <2> QED
      BY <2>1, <2>4
  <1>3. ASSUME NEW x \in Processes
        PROVE  Started(x)'
    <2> SUFFICES ASSUME NEW c \in ToSet(proc'[x].kids)
                 PROVE  c # "main" /\ proc'[c].status # "none"
      BY DEF Started
    <2>1. c \in ToSet(proc[x].kids)
      BY DEF MayBecome
    <2>2. c # "main" /\ proc[c].status # "none"
      BY <2>1 DEF SessionInv, Family, Started
    <2>3. c \in Processes
      BY <2>1, ElementOfSeq, LenProperties DEF SessionInv, Records, ToSet
    <2> QED
      BY <2>2, <2>3 DEF MayBecome
  <1> QED
    BY <1>1, <1>2, <1>3 DEF Family

\* What one process does to itself keeps the invariant of the session, if it
\* keeps its own, says what its program says it says, and if what exists is
\* still owed.
LEMMA OneChanges ==
  ASSUME SessionInv, Surroundings', shell' = shell,
         NEW p \in Processes, NEW q \in Records,
         proc' = [proc EXCEPT ![p] = q],
         Local(shell, p, q), MayBecome(proc[p], q),
         \A c \in ToSet(proc[p].kids) \ ToSet(q.kids) : proc[c].status \notin Live,
         messages \subseteq messages',
         "go" \in messages' => "ingress" \in messages',
         q.status = "run" /\ q.pc # proc[p].pc =>
           /\ Step(p) = "give_ingress" => "ingress" \in messages'
           /\ Step(p) = "wait_go" => "go" \in messages',
         spoiled => spoiled',
         p # "main" => exists' \subseteq exists,
         p = "main" /\ q.status # "dead" =>
           spoiled' \/ exists' \subseteq ToSet(q.held) \cup KernelOwes',
         p = "main" /\ q.status = "dead" =>
           spoiled' \/ q.code = Killed \/ exists' \subseteq KernelOwes'
  PROVE  SessionInv'
  <1>1. proc \in [Processes -> Records] /\ proc' \in [Processes -> Records]
    BY DEF SessionInv
  <1>2. proc'[p] = q /\ \A x \in Processes : x # p => proc'[x] = proc[x]
    BY <1>1
  <1>3. \A x \in Processes : Local(shell, x, proc[x])
    BY DEF SessionInv
  <1>4. \A x \in Processes : Local(shell', x, proc'[x])
    BY <1>2, <1>3
  <1>5. Family'
    <2>1. \A x \in Processes : MayBecome(proc[x], proc'[x])
      <3> SUFFICES ASSUME NEW x \in Processes, x # p PROVE MayBecome(proc[x], proc'[x])
        BY <1>2
      <3>1. proc[x].pc \in Nat
        BY <1>1 DEF Records
      <3> QED
        BY <1>2, <3>1 DEF MayBecome
    <2>2. \A x \in Processes : \A c \in ToSet(proc[x].kids) \ ToSet(proc'[x].kids) :
            proc[c].status \notin Live
      BY <1>2
    <2> QED
      BY <2>1, <2>2, FamilyKept
  <1>6. Talk'
    <2> SUFFICES ASSUME NEW x \in Processes, proc'[x].status = "run"
                 PROVE  /\ Before(Program[shell][x], proc'[x].pc, "give_ingress") => "ingress" \in messages'
                        /\ Before(Program[shell][x], proc'[x].pc, "wait_go") => "go" \in messages'
      BY DEF Talk, Told
    <2>1. Told(x)
      BY DEF SessionInv, Talk
    <2>2. CASE x # p \/ proc'[x].pc = proc[x].pc
      <3>1. proc[x].status = "run" /\ proc'[x].pc = proc[x].pc
        BY <1>2, <2>2 DEF MayBecome
      <3> QED
        BY <2>1, <3>1 DEF Told
    <2>3. CASE x = p /\ q.pc # proc[p].pc
      <3> DEFINE P == Program[shell][p]
                 i == proc[p].pc
      <3>1. q.status = "run" /\ proc[p].status = "run" /\ q.pc = i + 1
        BY <1>2, <2>3 DEF MayBecome
      <3>2. /\ Before(P, i, "give_ingress") => "ingress" \in messages
            /\ Before(P, i, "wait_go") => "go" \in messages
        BY <2>1, <2>3, <3>1 DEF Told
      <3>3. i \in Nat \ {0}
        BY <1>3, <3>1, ShellIsKnown, AtStep
      <3>4. \A s : Before(P, i + 1, s) => Before(P, i, s) \/ P[i] = s
        BY <3>3, BeforeNext
      <3>5. /\ P[i] = "give_ingress" => "ingress" \in messages'
            /\ P[i] = "wait_go" => "go" \in messages'
        BY <2>3, <3>1 DEF Step
      <3> QED
        BY <1>2, <2>3, <3>1, <3>2, <3>4, <3>5
    <2> QED
      BY <1>2, <2>2, <2>3
  <1>7. Owed'
    <2>1. KernelOwes \subseteq KernelOwes'
      BY DEF KernelOwes
    <2>2. CASE p = "main"
      BY <1>2, <2>2 DEF Owed
    <2>3. CASE p # "main"
      <3>1. proc'["main"] = proc["main"]
        BY <1>2, <2>3 DEF Processes
      <3>2. exists' \subseteq exists
        BY <2>3
      <3>3. Owed
        BY DEF SessionInv
      <3> QED
        BY <2>1, <3>1, <3>2, <3>3 DEF Owed
    <2> QED
      BY <2>2, <2>3
  <1> QED
    BY <1>1, <1>4, <1>5, <1>6, <1>7 DEF SessionInv
------------------------------------------------------------------------------
(* The session: each action keeps the invariant.                            *)

\* What an action finds: the process that takes it, and its record.
LEMMA Given ==
  ASSUME SessionInv, NEW p \in Processes
  PROVE  /\ shell \in DOMAIN MainProgram
         /\ proc[p] \in Records /\ Local(shell, p, proc[p])
         /\ proc[p].pc \in Nat
         /\ "go" \in messages => "ingress" \in messages
         /\ p = "main" /\ proc[p].status # "dead" =>
              spoiled \/ exists \subseteq ToSet(proc[p].held) \cup KernelOwes
         /\ exists \subseteq Persistent
  <1>1. proc[p] \in Records /\ Local(shell, p, proc[p])
    BY DEF SessionInv
  <1> QED
    BY <1>1, ShellIsKnown DEF SessionInv, Talk, Owed, Surroundings, Records

\* Everything else stays: the case of most actions.
LEMMA OnlyTheProcess ==
  ASSUME SessionInv, UNCHANGED <<shell, exists, messages>>, Surroundings',
         spoiled' = spoiled,
         NEW p \in Processes, NEW q,
         proc' = [proc EXCEPT ![p] = q],
         Local(shell, p, q), MayBecome(proc[p], q), proc[p].status # "dead",
         \A c \in ToSet(proc[p].kids) \ ToSet(q.kids) : proc[c].status \notin Live,
         q.pc = proc[p].pc \/ q.status # "run" \/ Step(p) \notin {"give_ingress", "wait_go"},
         q.status = "dead" => p # "main" \/ q.code = Killed \/ proc[p].held = <<>>,
         q.status # "dead" => ToSet(proc[p].held) \cap Persistent \subseteq ToSet(q.held)
  PROVE  SessionInv'
  <1>1. q \in Records /\ messages' = messages /\ exists' = exists /\ shell' = shell
    BY DEF Local
  <1>2. KernelOwes' = KernelOwes
    BY <1>1 DEF KernelOwes
  <1>3. /\ "go" \in messages => "ingress" \in messages
        /\ p = "main" => spoiled \/ exists \subseteq ToSet(proc[p].held) \cup KernelOwes
        /\ exists \subseteq Persistent
    BY Given
  <1>4. p = "main" /\ q.status # "dead" =>
          spoiled \/ exists \subseteq ToSet(q.held) \cup KernelOwes
    BY <1>3
  <1>5. p = "main" /\ q.status = "dead" =>
          spoiled \/ q.code = Killed \/ exists \subseteq KernelOwes
    <2>1. ToSet(<<>>) = {}
      BY DEF ToSet
    <2> QED
      BY <1>3, <2>1
  <1> QED
    BY <1>1, <1>2, <1>3, <1>4, <1>5, OneChanges

\* A system call: it makes, tells or changes what its step says.
LEMMA CallKept ==
  ASSUME SessionInv, NEW p \in Processes, Call(p)
  PROVE  SessionInv'
  <1> DEFINE r == proc[p]
             s == Step(p)
             q == Advanced(Changed(r, s))
  <1>1. /\ shell \in DOMAIN MainProgram /\ r \in Records /\ Local(shell, p, r)
        /\ r.pc \in Nat
        /\ "go" \in messages => "ingress" \in messages
    BY Given
  <1>2. /\ r.status = "run" /\ ~Waits(p) /\ s = Program[shell][p][r.pc]
        /\ s \notin Processes \cup ScopeEnds \cup {"loop", "exec"}
    BY DEF Call, TakesStep, Step
  <1>b. /\ exists' = exists \cup ({s} \cap Persistent)
        /\ messages' = messages \cup {Handed[h] : h \in {s} \cap DOMAIN Handed}
        /\ UNCHANGED <<shell, sigchld, history>>
    BY Zenon DEF Call
  <1>c. proc' = [proc EXCEPT ![p] = q]
    BY DEF Call
  <1> HIDE DEF s
  <1>3. /\ Local(shell, p, q) /\ q.status = "run" /\ q.pc = r.pc + 1
        /\ q.kids = r.kids /\ q.code = r.code
        /\ ToSet(r.held) \cup ({s} \cap Persistent) \subseteq ToSet(q.held)
    BY <1>1, <1>2, LocalCall
  <1>4. StepFacts(shell, p, Program[shell][p], r.pc)
    BY <1>1, <1>2, AtStep
  <1> HIDE DEF q
  <1>5. q \in Records /\ MayBecome(r, q)
    BY <1>2, <1>3 DEF Local, MayBecome, Live
  <1>6. /\ DOMAIN Handed = {"give_ingress", "send_fd", "go"}
        /\ Handed["give_ingress"] = "ingress" /\ Handed["send_fd"] = "fd" /\ Handed["go"] = "go"
    BY DEF Handed
  <1>7. /\ messages \subseteq messages'
        /\ s = "give_ingress" => "ingress" \in messages'
        /\ "go" \in messages' => "go" \in messages \/ s = "go"
    BY <1>b, <1>6
  <1>8. Told(p)
    BY DEF SessionInv, Talk
  <1>9. s = "go" => "ingress" \in messages
    BY <1>2, <1>4, <1>8 DEF StepFacts, Told
  <1>10. s = "wait_go" => "go" \in messages
    BY <1>2 DEF Waits, s
  <1>11. spoiled' = spoiled /\ shell' = shell
    BY <1>b DEF history
  <1>12. s \in Persistent => p = "main"
    BY <1>2, <1>4 DEF StepFacts
  <1>13. p # "main" => exists' \subseteq exists
    BY <1>b, <1>12
  <1>14. p = "main" => spoiled' \/ exists' \subseteq ToSet(q.held) \cup KernelOwes'
    <2>1. KernelOwes \subseteq KernelOwes'
      BY <1>7 DEF KernelOwes
    <2>2. p = "main" => spoiled \/ exists \subseteq ToSet(r.held) \cup KernelOwes
      BY <1>2, Given
    <2> QED
      BY <1>b, <1>3, <1>11, <2>1, <2>2
  <1>15. Surroundings'
    <2>1. exists' \subseteq Persistent /\ UNCHANGED <<sigchld, failures, signals, spoiled>>
      BY <1>b, Given DEF history
    <2> QED
      BY <1>11, <2>1 DEF SessionInv, Surroundings
  <1>16. /\ "go" \in messages' => "ingress" \in messages'
         /\ Step(p) = "give_ingress" => "ingress" \in messages'
         /\ Step(p) = "wait_go" => "go" \in messages'
    BY <1>1, <1>7, <1>9, <1>10 DEF s
  <1>17. \A c \in ToSet(r.kids) \ ToSet(q.kids) : proc[c].status \notin Live
    BY <1>3
  <1>18. messages \subseteq messages' /\ q.status # "dead"
    BY <1>3, <1>7
  <1> QED
    BY <1>c, <1>3, <1>5, <1>11, <1>13, <1>14, <1>15, <1>16, <1>17, <1>18, OneChanges

\* Only a failure or a signal has been counted, or SIGCHLD sent or read.
LEMMA SurroundingsKept ==
  ASSUME SessionInv, UNCHANGED <<shell, exists, messages>>, spoiled' = spoiled,
         sigchld' \subseteq Processes,
         failures' \in 0..MaxFailures, signals' \in 0..MaxSignals
  PROVE  Surroundings'
  BY DEF SessionInv, Surroundings

\* Counters stay in their bounds.
LEMMA Counters ==
  ASSUME SessionInv
  PROVE  /\ failures \in 0..MaxFailures /\ signals \in 0..MaxSignals
         /\ failures < MaxFailures => failures + 1 \in 0..MaxFailures
         /\ signals < MaxSignals => signals + 1 \in 0..MaxSignals
  BY SessionAssumption DEF SessionInv, Surroundings

\* Nothing but processes and their signals has changed.
LEMMA SigchldKept ==
  ASSUME SessionInv, UNCHANGED <<shell, exists, messages, history>>,
         sigchld' \subseteq Processes
  PROVE  Surroundings' /\ spoiled' = spoiled /\ UNCHANGED <<shell, exists, messages>>
  BY DEF SessionInv, Surroundings, history

\* Nothing but a process has changed.
LEMMA HistoryKept ==
  ASSUME SessionInv, UNCHANGED <<shell, world, history>>
  PROVE  Surroundings' /\ spoiled' = spoiled /\ UNCHANGED <<shell, exists, messages>>
  BY DEF SessionInv, Surroundings, world, history

\* SIGCHLD is sent to a process.
LEMMA DeathSignals ==
  ASSUME SessionInv, NEW p \in Processes, NEW e, Dies(p, e)
  PROVE  proc' = [proc EXCEPT ![p] = Zombie(e)] /\ sigchld' \subseteq Processes
  BY DEF SessionInv, Surroundings, Dies

\* A process starts to unwind.
LEMMA LeavesKept ==
  ASSUME SessionInv, UNCHANGED <<shell, exists, messages>>, Surroundings',
         spoiled' = spoiled,
         NEW p \in Processes, proc[p].status \in {"run", "loop"},
         NEW e \in {0, 1, 77}, proc' = [proc EXCEPT ![p] = Leaves(@, e)]
  PROVE  SessionInv'
  <1> DEFINE q == Leaves(proc[p], e)
  <1>1. Local(shell, p, proc[p]) /\ proc[p] \in Records /\ proc[p].pc \in Nat
    BY Given
  <1>2. Local(shell, p, q)
    BY <1>1, LocalLeaves
  <1>3. /\ q.status = "unwind" /\ q.pc = proc[p].pc /\ q.held = proc[p].held
        /\ q.kids = proc[p].kids
    BY <1>1, LeavesFields
  <1>4. proc' = [proc EXCEPT ![p] = q]
    OBVIOUS
  <1> HIDE DEF q
  <1>5. MayBecome(proc[p], q) /\ proc[p].status # "dead"
    BY <1>3 DEF MayBecome, Live
  <1> QED
    BY <1>2, <1>3, <1>4, <1>5, OnlyTheProcess

\* A step throws.
LEMMA ThrowKept ==
  ASSUME SessionInv, NEW p \in Processes, Throw(p)
  PROVE  SessionInv'
  <1>1. /\ proc[p].status = "run" /\ UNCHANGED <<shell, exists, messages>>
        /\ sigchld' \subseteq Processes /\ spoiled' = spoiled
        /\ signals' = signals /\ proc' = [proc EXCEPT ![p] = Leaves(@, 1)]
    BY DEF Throw, world, SessionInv, Surroundings
  <1>2. failures' = failures \/ (failures < MaxFailures /\ failures' = failures + 1)
    BY DEF Throw
  <1>3. Surroundings'
    BY <1>1, <1>2, Counters, SurroundingsKept
  <1> QED
    BY <1>1, <1>3, LeavesKept

\* A signal ends the loop.
LEMMA LoopGetsSignalKept ==
  ASSUME SessionInv, NEW p \in Processes, LoopGetsSignal(p)
  PROVE  SessionInv'
  <1>1. /\ proc[p].status = "loop" /\ UNCHANGED <<shell, world, history>>
        /\ proc' = [proc EXCEPT ![p] = Leaves(@, 0)]
    BY DEF LoopGetsSignal
  <1> QED
    BY <1>1, HistoryKept, LeavesKept

\* The trace of a link ferry comes to its end.
LEMMA LoopFinishesKept ==
  ASSUME SessionInv, NEW p \in Processes, LoopFinishes(p)
  PROVE  SessionInv'
  <1>1. /\ proc[p].status = "loop" /\ UNCHANGED <<shell, world, history>>
        /\ proc' = [proc EXCEPT ![p] = Leaves(@, 77)]
    BY DEF LoopFinishes
  <1> QED
    BY <1>1, HistoryKept, LeavesKept

\* A temporary scope comes to its end.
LEMMA LeaveScopeKept ==
  ASSUME SessionInv, NEW p \in Processes, LeaveScope(p)
  PROVE  SessionInv'
  <1> DEFINE q == Advanced(Popped(Restored(proc[p], Last(proc[p].held))))
  <1>1. /\ proc[p].status = "run" /\ UNCHANGED <<shell, world, history>>
        /\ Step(p) \in ScopeEnds /\ proc' = [proc EXCEPT ![p] = q]
    BY DEF LeaveScope, TakesStep
  <1>2. /\ shell \in DOMAIN MainProgram /\ Local(shell, p, proc[p])
        /\ Program[shell][p][proc[p].pc] \in ScopeEnds
    BY <1>1, Given DEF Step
  <1>3. /\ Local(shell, p, q) /\ q.status = "run" /\ q.pc = proc[p].pc + 1
        /\ q.kids = proc[p].kids
        /\ ToSet(proc[p].held) \subseteq ToSet(q.held) \cup Scopes
    BY <1>1, <1>2, LocalLeaveScope
  <1> HIDE DEF q
  <1>4. MayBecome(proc[p], q)
    BY <1>1, <1>3 DEF MayBecome, Live
  <1>5. Step(p) \notin {"give_ingress", "wait_go"}
    BY <1>1 DEF ScopeEnds
  <1>6. ToSet(proc[p].held) \cap Persistent \subseteq ToSet(q.held)
    BY <1>3 DEF Scopes, Persistent
  <1>7. proc[p].status # "dead" /\ q.status # "dead"
    BY <1>1, <1>3
  <1> QED
    BY <1>1, <1>3, <1>4, <1>5, <1>6, <1>7, HistoryKept, OnlyTheProcess

\* A process becomes another program.
LEMMA ExecKept ==
  ASSUME SessionInv, NEW p \in Processes, Exec(p)
  PROVE  SessionInv'
  <1> DEFINE q == [proc[p] EXCEPT !.status = "exec"]
  <1>1. /\ proc[p].status = "run" /\ UNCHANGED <<shell, world, history>>
        /\ Step(p) = "exec"
    BY DEF Exec, TakesStep
  <1>2. proc' = [proc EXCEPT ![p] = q]
    BY DEF Exec
  <1>3. /\ shell \in DOMAIN MainProgram /\ Local(shell, p, proc[p])
        /\ Program[shell][p][proc[p].pc] = "exec" /\ proc[p] \in Records
    BY <1>1, Given DEF Step
  <1>4. Local(shell, p, q)
    BY <1>1, <1>3, LocalExec
  <1>5. /\ q.status = "exec" /\ q.pc = proc[p].pc /\ q.held = proc[p].held
        /\ q.kids = proc[p].kids
    BY <1>3, StatusFields DEF Live
  <1> HIDE DEF q
  <1>6. MayBecome(proc[p], q) /\ proc[p].status # "dead"
    BY <1>1, <1>5 DEF MayBecome, Live
  <1> QED
    BY <1>1, <1>2, <1>4, <1>5, <1>6, HistoryKept, OnlyTheProcess

\* A process enters its loop.
LEMMA EnterLoopKept ==
  ASSUME SessionInv, NEW p \in Processes, EnterLoop(p)
  PROVE  SessionInv'
  <1> DEFINE u == TemporarilyUnprivileged(proc[p])
             q == [u EXCEPT !.status = "loop"]
  <1>1. /\ proc[p].status = "run" /\ UNCHANGED <<shell, world, history>>
        /\ Step(p) = "loop"
    BY DEF EnterLoop, TakesStep
  <1>2. proc' = [proc EXCEPT ![p] = q]
    BY DEF EnterLoop
  <1>3. /\ shell \in DOMAIN MainProgram /\ Local(shell, p, proc[p])
        /\ Program[shell][p][proc[p].pc] = "loop" /\ proc[p] \in Records
    BY <1>1, Given DEF Step
  <1>4. Local(shell, p, q)
    BY <1>1, <1>3, LocalEnterLoop
  <1>5. /\ u \in Records /\ u.pc = proc[p].pc /\ u.kids = proc[p].kids
        /\ u.held = Append(proc[p].held, "enter_unprivileged")
    BY <1>3, UnprivilegedFields
  <1> HIDE DEF u
  <1>6. /\ q.status = "loop" /\ q.pc = proc[p].pc /\ q.kids = proc[p].kids
        /\ q.held = Append(proc[p].held, "enter_unprivileged")
    BY <1>5, StatusFields DEF Live
  <1> HIDE DEF q
  <1>7. proc[p].held \in Seq(Things) /\ "enter_unprivileged" \in Things
    BY <1>3 DEF Records, Things, Scopes
  <1>8. ToSet(proc[p].held) \subseteq ToSet(q.held)
    BY <1>6, <1>7, AppendFacts
  <1>9. MayBecome(proc[p], q) /\ proc[p].status # "dead"
    BY <1>1, <1>6 DEF MayBecome, Live
  <1> QED
    BY <1>1, <1>2, <1>4, <1>6, <1>8, <1>9, HistoryKept, OnlyTheProcess

\* A temporary scope is unwound.
LEMMA UnwindScopeKept ==
  ASSUME SessionInv, NEW p \in Processes, NEW x \in Scopes, UnwindScope(p, x)
  PROVE  SessionInv'
  <1> DEFINE q == Popped(Restored(proc[p], Last(proc[p].held)))
  <1>1. /\ proc[p].status = "unwind" /\ UNCHANGED <<shell, world, history>>
        /\ proc[p].held # <<>> /\ Last(proc[p].held) = x
        /\ proc' = [proc EXCEPT ![p] = q]
    BY DEF UnwindScope, Unwinding
  <1>2. Local(shell, p, proc[p]) /\ proc[p] \in Records
    BY Given
  <1>3. Local(shell, p, q)
    BY <1>1, <1>2, LocalUnwindScope
  <1>4. Scoped(proc[p].held) /\ Standing(proc[p])
    BY <1>1, <1>2 DEF Local, Live
  <1>5. /\ q.status = proc[p].status /\ q.pc = proc[p].pc /\ q.kids = proc[p].kids
        /\ ToSet(proc[p].held) = ToSet(q.held) \cup {x}
    BY <1>1, <1>2, <1>4, PoppedScope
  <1> HIDE DEF q
  <1>6. MayBecome(proc[p], q) /\ proc[p].status # "dead" /\ q.status # "dead"
    BY <1>1, <1>5 DEF MayBecome, Live
  <1>7. ToSet(proc[p].held) \cap Persistent \subseteq ToSet(q.held)
    BY <1>5 DEF Scopes, Persistent
  <1> QED
    BY <1>1, <1>3, <1>5, <1>6, <1>7, HistoryKept, OnlyTheProcess

\* The event loop is unwound once its children are gone.
LEMMA UnwindEventLoopKept ==
  ASSUME SessionInv, NEW p \in Processes, UnwindEventLoop(p)
  PROVE  SessionInv'
  <1> DEFINE q == Popped(proc[p])
  <1>1. /\ proc[p].status = "unwind" /\ UNCHANGED <<shell, world, history>>
        /\ proc[p].held # <<>> /\ Last(proc[p].held) = "event_loop"
        /\ proc[p].kids = <<>> /\ proc' = [proc EXCEPT ![p] = q]
    BY DEF UnwindEventLoop, Unwinding
  <1>2. Local(shell, p, proc[p]) /\ proc[p] \in Records
    BY Given
  <1>3. "event_loop" \notin Scopes \cup Persistent
    BY DEF Scopes, Persistent
  <1>4. Local(shell, p, q)
    BY <1>1, <1>2, <1>3, LocalUnwindThing
  <1>5. Scoped(proc[p].held) /\ Standing(proc[p])
    BY <1>1, <1>2 DEF Local, Live
  <1>6. /\ q.status = proc[p].status /\ q.pc = proc[p].pc /\ q.kids = proc[p].kids
        /\ ToSet(proc[p].held) = ToSet(q.held) \cup {"event_loop"}
    BY <1>1, <1>2, <1>3, <1>5, PoppedThing
  <1> HIDE DEF q
  <1>7. MayBecome(proc[p], q) /\ proc[p].status # "dead" /\ q.status # "dead"
    BY <1>1, <1>6 DEF MayBecome, Live
  <1>8. ToSet(proc[p].held) \cap Persistent \subseteq ToSet(q.held)
    BY <1>3, <1>6
  <1> QED
    BY <1>1, <1>4, <1>6, <1>7, <1>8, HistoryKept, OnlyTheProcess

\* A persistent thing is removed, left to the kernel, or its removal fails.
LEMMA UnwindThingKept ==
  ASSUME SessionInv, NEW p \in Processes, NEW x \in Persistent, UnwindThing(p, x)
  PROVE  SessionInv'
  <1> DEFINE r == proc[p]
             q == Popped(r)
  <1>1. /\ r.status = "unwind" /\ shell' = shell /\ messages' = messages
        /\ sigchld' = sigchld
        /\ r.held # <<>> /\ Last(r.held) = x /\ signals' = signals
        /\ proc' = [proc EXCEPT ![p] = q]
    BY DEF UnwindThing, Unwinding
  <1>2. \/ /\ exists' = IF ~r.root \/ (x = "veth" /\ "ingress" \in messages)
                          THEN exists ELSE exists \ {x}
           /\ failures' = failures /\ spoiled' = spoiled
        \/ /\ failures < MaxFailures /\ failures' = failures + 1
           /\ spoiled' = TRUE /\ exists' = exists
    BY DEF UnwindThing
  <1>3. /\ Local(shell, p, r) /\ r \in Records
        /\ exists \subseteq Persistent
    BY Given
  <1>4. x \notin Scopes \cup {"event_loop"}
    BY DEF Scopes, Persistent
  <1>5. Local(shell, p, q)
    BY <1>1, <1>3, <1>4, LocalUnwindThing
  <1>6. Scoped(r.held) /\ Standing(r)
    BY <1>1, <1>3 DEF Local, Live
  <1>7. /\ q \in Records /\ q.status = r.status /\ q.pc = r.pc /\ q.kids = r.kids
        /\ Depth(r.held) = 0 /\ ToSet(r.held) = ToSet(q.held) \cup {x}
    BY <1>1, <1>3, <1>4, <1>6, PoppedThing
  <1> HIDE DEF q
  <1>8. MayBecome(r, q) /\ r.status # "dead" /\ q.status # "dead"
    BY <1>1, <1>7 DEF MayBecome, Live
  <1>9. exists' \subseteq exists /\ (spoiled => spoiled')
    BY <1>2
  <1>10. Surroundings'
    <2>1. failures' \in 0..MaxFailures /\ spoiled' \in BOOLEAN
      BY <1>2, Counters DEF SessionInv, Surroundings
    <2> QED
      BY <1>1, <1>3, <1>9, <2>1 DEF SessionInv, Surroundings
  <1>11. p = "main" => r.root
    BY <1>3, <1>6, <1>7 DEF Local, Standing
  <1>12. p = "main" => spoiled' \/ exists' \subseteq ToSet(q.held) \cup KernelOwes'
    <2> SUFFICES ASSUME p = "main", ~spoiled'
                 PROVE  exists' \subseteq ToSet(q.held) \cup KernelOwes'
      OBVIOUS
    <2>1. exists \subseteq ToSet(r.held) \cup KernelOwes
      BY <1>8, <1>9, Given
    <2>2. KernelOwes' = KernelOwes
      BY <1>1 DEF KernelOwes
    <2>3. CASE x = "veth" /\ "ingress" \in messages
      <3>1. x \in KernelOwes
        BY <2>3 DEF KernelOwes
      <3> QED
        BY <1>7, <1>9, <2>1, <2>2, <3>1
    <2>4. CASE ~(x = "veth" /\ "ingress" \in messages)
      <3>1. exists' = exists \ {x}
        BY <1>2, <1>11, <2>4
      <3> QED
        BY <1>7, <2>1, <2>2, <3>1
    <2> QED
      BY <2>3, <2>4
  <1>13. "go" \in messages => "ingress" \in messages
    BY Given
  <1> QED
    BY <1>1, <1>5, <1>7, <1>8, <1>9, <1>10, <1>12, <1>13, OneChanges

\* A process ends, without children.
LEMMA DeathKept ==
  ASSUME SessionInv, UNCHANGED <<shell, exists, messages>>, Surroundings',
         spoiled' = spoiled,
         NEW p \in Processes, proc[p].status \in Live, proc[p].kids = <<>>,
         NEW e \in {0, 1, 77, Killed}, p # "main" \/ e = Killed \/ proc[p].held = <<>>,
         proc' = [proc EXCEPT ![p] = Zombie(e)]
  PROVE  SessionInv'
  <1> DEFINE q == Zombie(e)
  <1>1. shell \in DOMAIN MainProgram /\ Local(shell, p, proc[p])
    BY Given
  <1>2. p \in Cast(shell) /\ proc[p].status \notin {"none", "dead"}
    BY <1>1 DEF Local, Live
  <1>3. Local(shell, p, q)
    BY <1>1, <1>2, LocalZombie
  <1>4. q.status = "dead" /\ q.pc = 1 /\ q.code = e /\ q.kids = <<>>
    BY ZombieFields
  <1>5. proc' = [proc EXCEPT ![p] = q]
    OBVIOUS
  <1> HIDE DEF q
  <1>6. MayBecome(proc[p], q) /\ proc[p].status # "dead"
    BY <1>2, <1>4 DEF MayBecome, Live
  <1>7. \A c \in ToSet(proc[p].kids) \ ToSet(q.kids) : proc[c].status \notin Live
    BY <1>4
  <1>8. /\ q.pc = proc[p].pc \/ q.status # "run" \/ Step(p) \notin {"give_ingress", "wait_go"}
        /\ q.status = "dead" => p # "main" \/ q.code = Killed \/ proc[p].held = <<>>
        /\ q.status # "dead" => ToSet(proc[p].held) \cap Persistent \subseteq ToSet(q.held)
    BY <1>4
  <1> QED
    BY <1>3, <1>5, <1>6, <1>7, <1>8, OnlyTheProcess

\* A process that has unwound everything ends.
LEMMA EndKept ==
  ASSUME SessionInv, NEW p \in Processes, End(p)
  PROVE  SessionInv'
  <1>1. /\ proc[p].status = "unwind" /\ UNCHANGED <<shell, exists, messages, history>>
        /\ proc[p].held = <<>> /\ Dies(p, proc[p].code)
    BY DEF End
  <1>2. Local(shell, p, proc[p]) /\ proc[p].code \in {0, 1, 77, Killed}
    BY Given DEF Records
  <1>3. ToSet(proc[p].held) = {}
    BY <1>1 DEF ToSet
  <1>4. proc[p].kids = <<>>
    BY <1>2, <1>3 DEF Local
  <1>5. proc[p].status \in Live
    BY <1>1 DEF Live
  <1>6. proc' = [proc EXCEPT ![p] = Zombie(proc[p].code)] /\ sigchld' \subseteq Processes
    BY <1>1, DeathSignals
  <1> QED
    BY <1>1, <1>2, <1>4, <1>5, <1>6, SigchldKept, DeathKept

\* The user's command or dnsmasq ends.
LEMMA ProgramExitsKept ==
  ASSUME SessionInv, NEW p \in Processes, ProgramExits(p)
  PROVE  SessionInv'
  <1>1. /\ proc[p].status = "exec" /\ UNCHANGED <<shell, exists, messages>>
        /\ spoiled' = spoiled /\ signals' = signals /\ p \in {"command", "dnsmasq"}
    BY DEF ProgramExits
  <1>2. failures' = failures \/ (failures < MaxFailures /\ failures' = failures + 1)
    BY DEF ProgramExits
  <1>d. PICK e \in {0, 1} : Dies(p, e)
    BY DEF ProgramExits
  <1>3. proc' = [proc EXCEPT ![p] = Zombie(e)] /\ sigchld' \subseteq Processes
    BY <1>d, DeathSignals
  <1>4. Surroundings'
    BY <1>1, <1>2, <1>3, Counters, SurroundingsKept
  <1>5. proc[p].kids = <<>> /\ proc[p].status \in Live /\ p # "main"
    BY <1>1, Given DEF Local, Live
  <1>6. e \in {0, 1, 77, Killed}
    OBVIOUS
  <1> QED
    BY <1>1, <1>3, <1>4, <1>5, <1>6, DeathKept

\* A signal, from outside or from the loop that destroys its children.
LEMMA SignalKept ==
  ASSUME SessionInv, UNCHANGED <<shell, exists, messages>>, Surroundings',
         spoiled' = spoiled,
         NEW p \in Processes, proc[p].status \in Live, Signalled(p)
  PROVE  SessionInv'
  <1>1. Local(shell, p, proc[p]) /\ proc[p] \in Records
    BY Given
  <1>2. Blocked(p) <=> Before(Program[shell][p], proc[p].pc, "event_loop")
    BY DEF Blocked, Before
  <1>3. CASE proc' = [proc EXCEPT ![p].pending = TRUE]
    <2> DEFINE q == [proc[p] EXCEPT !.pending = TRUE]
    <2>1. proc' = [proc EXCEPT ![p] = q]
      BY <1>3
    <2>2. Local(shell, p, q)
      BY <1>1, LocalPending DEF Live
    <2>3. /\ q.status = proc[p].status /\ q.pc = proc[p].pc /\ q.held = proc[p].held
          /\ q.kids = proc[p].kids
      BY <1>1, PendingFields
    <2> HIDE DEF q
    <2>4. MayBecome(proc[p], q) /\ proc[p].status # "dead" /\ q.status # "dead"
      BY <2>3 DEF MayBecome, Live
    <2> QED
      BY <2>1, <2>2, <2>3, <2>4, OnlyTheProcess
  <1>4. CASE ~Blocked(p) /\ Dies(p, Killed)
    <2>1. proc' = [proc EXCEPT ![p] = Zombie(Killed)]
      BY <1>4, DeathSignals
    <2>2. proc[p].kids = <<>>
      BY <1>1, <1>2, <1>4 DEF Local
    <2>3. Killed \in {0, 1, 77, Killed}
      OBVIOUS
    <2> QED
      BY <2>1, <2>2, <2>3, DeathKept
  <1> QED
    BY <1>3, <1>4 DEF Signalled

\* Whatever it does to the process, SIGCHLD is all that a signal causes.
LEMMA SignalledFacts ==
  ASSUME SessionInv, NEW p \in Processes, Signalled(p)
  PROVE  sigchld' \subseteq Processes
  BY DeathSignals DEF Signalled, SessionInv, Surroundings

\* A signal comes from outside.
LEMMA OutsideSignalKept ==
  ASSUME SessionInv, NEW p \in Processes, OutsideSignal(p)
  PROVE  SessionInv'
  <1>1. /\ proc[p].status \notin {"none", "dead"} /\ UNCHANGED <<shell, exists, messages>>
        /\ signals < MaxSignals /\ signals' = signals + 1
        /\ Signalled(p) /\ failures' = failures /\ spoiled' = spoiled
    BY DEF OutsideSignal
  <1>2. Surroundings'
    BY <1>1, Counters, SignalledFacts, SurroundingsKept
  <1>3. proc[p].status \in Live
    BY <1>1, Given DEF Records
  <1> QED
    BY <1>1, <1>2, <1>3, SignalKept

\* The loop that is destroyed signals a child, or forgets one that has ended.
LEMMA DestroyChildKept ==
  ASSUME SessionInv, NEW p \in Processes, DestroyChild(p)
  PROVE  SessionInv'
  <1> DEFINE c == Head(proc[p].kids)
  <1>1. /\ proc[p].status = "unwind" /\ UNCHANGED <<shell, exists, messages, history>>
        /\ proc[p].kids # <<>>
    BY DEF DestroyChild, Unwinding
  <1>2. \/ proc[c].status # "dead" /\ Signalled(c)
        \/ /\ proc[c].status = "dead" /\ sigchld' = sigchld
           /\ proc' = [proc EXCEPT ![p].kids = Tail(@)]
    BY DEF DestroyChild
  <1>3. Local(shell, p, proc[p]) /\ proc[p] \in Records /\ proc[p].kids \in Seq(Processes)
    BY Given DEF Records
  <1>4. /\ c \in Processes /\ Tail(proc[p].kids) \in Seq(Processes)
        /\ ToSet(proc[p].kids) = ToSet(Tail(proc[p].kids)) \cup {c}
    BY <1>1, <1>3, TailFacts
  <1>5. c # "main" /\ proc[c].status # "none"
    BY <1>4 DEF SessionInv, Family, Started
  <1>6. CASE proc[c].status # "dead" /\ Signalled(c)
    <2>1. proc[c].status \in Live
      BY <1>4, <1>5, <1>6, Given DEF Records
    <2> QED
      BY <1>1, <1>4, <1>6, <2>1, SignalledFacts, SigchldKept, SignalKept
  <1>7. CASE /\ proc[c].status = "dead" /\ sigchld' = sigchld
             /\ proc' = [proc EXCEPT ![p].kids = Tail(@)]
    <2> DEFINE q == [proc[p] EXCEPT !.kids = Tail(@)]
    <2>1. proc' = [proc EXCEPT ![p] = q]
      BY <1>7
    <2>2. Local(shell, p, q)
      BY <1>1, <1>3, LocalTail
    <2>3. /\ q.status = proc[p].status /\ q.pc = proc[p].pc /\ q.held = proc[p].held
          /\ q.kids = Tail(proc[p].kids)
      BY <1>1, <1>3, TailFields
    <2> HIDE DEF q
    <2>4. MayBecome(proc[p], q) /\ proc[p].status # "dead" /\ q.status # "dead"
      BY <1>1, <1>4, <2>3 DEF MayBecome, Live
    <2>5. "dead" \notin Live
      BY DEF Live
    <2>6. ASSUME NEW d \in ToSet(proc[p].kids) \ ToSet(q.kids)
          PROVE  proc[d].status \notin Live
      <3>1. d = c
        BY <1>4, <2>3, Zenon
      <3> QED
        BY <1>7, <2>5, <3>1, Zenon
    <2>7. sigchld' \subseteq Processes
      BY <1>7 DEF SessionInv, Surroundings
    <2>8. Surroundings' /\ spoiled' = spoiled /\ UNCHANGED <<shell, exists, messages>>
      BY <1>1, <2>7, SigchldKept
    <2> QED
      BY <2>1, <2>2, <2>3, <2>4, <2>6, <2>8, OnlyTheProcess
  <1> QED
    BY <1>2, <1>6, <1>7

\* A loop sees that a child has ended.
LEMMA LoopSeesChildKept ==
  ASSUME SessionInv, NEW p \in Processes, LoopSeesChild(p)
  PROVE  SessionInv'
  <1> DEFINE kids == proc[p].kids
             unseen == {i \in DOMAIN kids :
                          LET k == kids[i]
                          IN proc[k].status = "dead" /\ ~Seen(k)}
             first == CHOOSE i \in unseen : \A j \in unseen : i <= j
             c == kids[first]
             all == \A k \in ToSet(kids) : Seen(k) \/ k = c
             q == CASE proc[c].code \notin {0, ContinueStatus(c)} -> Leaves(proc[p], 1)
                    [] proc[c].code = 0 \/ all -> Leaves(proc[p], 0)
                    [] OTHER -> proc[p]
  <1>1. /\ proc[p].status = "loop" /\ unseen # {} /\ sigchld' = sigchld \ {p}
        /\ UNCHANGED <<shell, exists, messages, history>>
    BY DEF LoopSeesChild
  <1>2. /\ proc \in [Processes -> Records] /\ Local(shell, p, proc[p])
        /\ proc[p] \in Records /\ kids \in Seq(Processes)
    BY Given DEF SessionInv, Records
  <1>3. first \in unseen
    <2>1. DOMAIN kids = 1..Len(kids) /\ Len(kids) \in Nat
      BY <1>2, LenProperties
    <2>2. unseen \in SUBSET Nat
      BY <2>1
    <2> HIDE DEF unseen
    <2>3. PICK n \in unseen : TRUE
      BY <1>1
    <2>4. \E i \in unseen : \A j \in unseen : i <= j
      BY <2>2, <2>3, LeastElement
    <2> QED
      BY <2>4
  <1>4. c \in Processes /\ c \in ToSet(kids) /\ proc[c].status = "dead"
    <2> HIDE DEF first
    <2>1. first \in DOMAIN kids /\ proc[kids[first]].status = "dead"
      BY <1>3
    <2>2. first \in 1..Len(kids)
      BY <1>2, <2>1, LenProperties
    <2>3. kids[first] \in Processes
      BY <1>2, <2>2, ElementOfSeq
    <2> QED
      BY <2>1, <2>3 DEF ToSet
  <1>5. c # "main" /\ c # p
    <2> HIDE DEF c
    <2>1. Started(p)
      BY DEF SessionInv, Family
    <2>2. c # "main"
      BY <1>4, <2>1, Zenon DEF Started
    <2> QED
      BY <1>1, <1>4, <2>2
  <1> DEFINE d == [proc[c] EXCEPT !.noticed = TRUE]
  <1>6. proc' = [proc EXCEPT ![c].noticed = TRUE,
          ![p] = CASE proc[c].code \notin {0, ContinueStatus(c)} -> Leaves(@, 1)
                   [] proc[c].code = 0 \/ all -> Leaves(@, 0)
                   [] OTHER -> @]
    BY DEF LoopSeesChild
  <1> HIDE DEF all, c
  <1>7. q \in {Leaves(proc[p], 0), Leaves(proc[p], 1), proc[p]}
    OBVIOUS
  <1>8. proc' = [[proc EXCEPT ![c] = d] EXCEPT ![p] = q]
    BY <1>2, <1>4, <1>5, <1>6
  <1> HIDE DEF q
  <1>9. /\ Local(shell, p, q) /\ q \in Records /\ q.status \in {"loop", "unwind"}
        /\ q.held = proc[p].held /\ q.kids = kids
    BY <1>1, <1>2, <1>7, LocalLeaves, LeavesFields
  <1>10. proc[c] \in Records /\ Local(shell, c, proc[c])
    BY <1>4, Given
  <1>11. /\ Local(shell, c, d) /\ d \in Records /\ d.status = "dead"
         /\ d.kids = proc[c].kids
    BY <1>4, <1>10, LocalNoticed, NoticedFields
  <1> HIDE DEF d
  <1>12. /\ proc' \in [Processes -> Records] /\ proc'[p] = q /\ proc'[c] = d
         /\ \A x \in Processes \ {p, c} : proc'[x] = proc[x]
    BY <1>2, <1>4, <1>5, <1>8, <1>9, <1>11
  <1>13. shell' = shell /\ messages' = messages /\ exists' = exists /\ spoiled' = spoiled
    BY <1>1 DEF history
  <1>14. \A x \in Processes : Local(shell', x, proc'[x])
    <2>1. \A x \in Processes : Local(shell, x, proc[x])
      BY DEF SessionInv
    <2> QED
      BY <1>9, <1>11, <1>12, <1>13, <2>1
  <1>15. \A x \in Processes :
           /\ proc'[x].kids = proc[x].kids
           /\ proc'[x].status = "run" => proc'[x] = proc[x]
           /\ proc'[x].status \in Live <=> proc[x].status \in Live
           /\ proc'[x].status = "none" <=> proc[x].status = "none"
    BY <1>1, <1>4, <1>9, <1>11, <1>12 DEF Live
  <1>16. Family'
    <2>1. \A x \in Processes : MayBecome(proc[x], proc'[x])
      BY <1>15 DEF MayBecome
    <2> QED
      BY <1>13, <1>15, <2>1, FamilyKept
  <1>17. Talk'
    <2>1. \A x \in Processes : Told(x)
      BY DEF SessionInv, Talk
    <2>2. \A x \in Processes : Told(x)'
      BY <1>13, <1>15, <2>1 DEF Told
    <2> QED
      BY <1>13, <2>2 DEF SessionInv, Talk
  <1>18. Owed'
    <2>1. /\ proc'["main"].status = "dead" <=> proc["main"].status = "dead"
          /\ proc'["main"].held = proc["main"].held
          /\ proc["main"].status = "dead" => proc'["main"].code = proc["main"].code
      <3>1. "main" \in Processes
        BY DEF Processes
      <3>2. CASE p = "main"
        BY <1>1, <1>9, <1>12, <3>2
      <3>3. CASE p # "main"
        BY <1>5, <1>12, <3>1, <3>3
      <3> QED
        BY <3>2, <3>3
    <2>2. KernelOwes' = KernelOwes
      BY <1>13 DEF KernelOwes
    <2>3. Owed
      BY DEF SessionInv
    <2> QED
      BY <1>13, <2>1, <2>2, <2>3 DEF Owed
  <1>19. Surroundings'
    <2>1. sigchld' \subseteq Processes
      BY <1>1 DEF SessionInv, Surroundings
    <2> QED
      BY <1>1, <2>1, SigchldKept
  <1> QED
    BY <1>12, <1>14, <1>16, <1>17, <1>18, <1>19 DEF SessionInv

\* A process forks a child, which has not been started before.
LEMMA ForkKept ==
  ASSUME SessionInv, NEW p \in Processes, Fork(p)
  PROVE  SessionInv'
  <1> DEFINE c == Step(p)
             r == proc[p]
             q == [Advanced(r) EXCEPT !.kids = Append(@, c)]
             d == ChildOf(r)
  <1>1. r.status = "run" /\ c \in Processes /\ UNCHANGED <<shell, world, history>>
    BY DEF Fork, TakesStep
  <1>2. /\ shell \in DOMAIN MainProgram /\ r \in Records /\ Local(shell, p, r)
        /\ proc \in [Processes -> Records] /\ c = Program[shell][p][r.pc]
        /\ r.pc \in Nat
    BY Given DEF SessionInv, Step
  <1>3. StepFacts(shell, p, Program[shell][p], r.pc) /\ r.pc \in Nat \ {0}
    BY <1>1, <1>2, AtStep
  <1>4. /\ c # "main" /\ Parent(shell, c) = p /\ ~Before(Program[shell][p], r.pc, c)
    BY <1>1, <1>2, <1>3 DEF StepFacts
  <1>5. proc[c].status = "none" /\ c # p
    <2>1. Forked(c)
      BY <1>1, <1>4 DEF SessionInv, Family
    <2> QED
      BY <1>1, <1>4, <2>1 DEF Forked
  <1>6. proc[c] = Newborn
    BY <1>1, <1>5, Given DEF Local
  <1>7. proc' = [[proc EXCEPT ![p] = q] EXCEPT ![c] = d]
    <2>1. proc' = [proc EXCEPT
             ![p].pc = @ + 1, ![p].kids = Append(@, c),
             ![c] = [@ EXCEPT !.status = "run", !.root = proc[p].root,
                       !.dropped = proc[p].dropped, !.environ = proc[p].environ]]
      BY DEF Fork
    <2> HIDE DEF c
    <2>2. proc' = [[[proc EXCEPT ![p] = Advanced(r)] EXCEPT ![p] = q] EXCEPT ![c] = d]
      BY <1>1, <1>2, <1>5, <1>6, <2>1 DEF Advanced, ChildOf
    <2> QED
      BY <1>2, <2>2
  <1> HIDE DEF c
  <1>8. Local(shell, p, q)
    BY <1>1, <1>2, LocalForks
  <1>9. /\ q \in Records /\ q.pc = r.pc + 1 /\ q.kids = Append(r.kids, c)
        /\ q.status = "run" /\ q.held = r.held
    BY <1>1, <1>2, ForkFields
  <1>10. Local(shell, c, d) /\ d.status = "run" /\ d.pc = 1 /\ d.kids = <<>>
    BY <1>1, <1>2, LocalForked
  <1> HIDE DEF q, d
  <1>11. d \in Records
    BY <1>10 DEF Local
  <1>12. /\ proc' \in [Processes -> Records] /\ proc'[p] = q /\ proc'[c] = d
         /\ \A x \in Processes \ {p, c} : proc'[x] = proc[x]
    BY <1>1, <1>2, <1>5, <1>7, <1>9, <1>11
  <1>13. shell' = shell /\ messages' = messages /\ exists' = exists /\ spoiled' = spoiled
    BY <1>1 DEF world, history
  <1>14. \A x \in Processes : Local(shell', x, proc'[x])
    <2>1. \A x \in Processes : Local(shell, x, proc[x])
      BY DEF SessionInv
    <2> QED
      BY <1>8, <1>10, <1>12, <1>13, <2>1
  <1>15. ToSet(q.kids) = ToSet(r.kids) \cup {c}
    BY <1>1, <1>2, <1>9, AppendFacts DEF Records
  <1>16. Family'
    <2>1. ASSUME NEW x \in Processes \ {"main"}
          PROVE  Forked(x)'
      <3> DEFINE w == Parent(shell, x)
      <3>1. w \in Processes /\ Parent(shell', x) = w
        BY <1>13, ParentIsProcess
      <3>2. SUFFICES ASSUME proc'[x].status # "none"
                     PROVE  /\ proc'[w].status # "none"
                            /\ proc'[w].status = "run" => Before(Program[shell][w], proc'[w].pc, x)
        BY <1>13 DEF Forked
      <3>3. CASE x = c
        <4>1. w = p /\ proc'[w] = q
          BY <1>4, <1>12, <3>3
        <4>2. Before(Program[shell][p], r.pc + 1, c)
          BY <1>2, <1>3, BeforeNext
        <4> QED
          BY <1>9, <3>3, <4>1, <4>2
      <3>4. CASE x # c
        <4>1. proc[x].status # "none"
          BY <1>1, <1>12, <3>2, <3>4
        <4>2. /\ proc[w].status # "none"
              /\ proc[w].status = "run" => Before(Program[shell][w], proc[w].pc, x)
          BY <4>1 DEF SessionInv, Family, Forked
        <4>3. w # c
          BY <1>5, <4>2
        <4>4. CASE w = p
          <5>1. Before(Program[shell][p], r.pc + 1, x)
            BY <1>1, <1>3, <4>2, <4>4, BeforeNext
          <5> QED
            BY <1>9, <1>12, <4>4, <5>1
        <4>5. CASE w # p
          BY <1>12, <3>1, <4>2, <4>3, <4>5
        <4> QED
          BY <4>4, <4>5
      <3> QED
        BY <3>3, <3>4
    <2>2. ASSUME NEW x \in Processes \ {"main"}
          PROVE  Known(x)'
      <3> DEFINE w == Parent(shell, x)
      <3>1. w \in Processes /\ Parent(shell', x) = w
        BY <1>13, ParentIsProcess
      <3>2. SUFFICES ASSUME proc'[x].status \in Live
                     PROVE  x \in ToSet(proc'[w].kids)
        BY <1>13 DEF Known
      <3>3. CASE x = c
        BY <1>4, <1>12, <1>15, <3>3
      <3>4. CASE x # c
        <4>1. proc[x].status \in Live
          BY <1>1, <1>12, <3>2, <3>4 DEF Live
        <4>2. x \in ToSet(proc[w].kids)
          BY <4>1 DEF SessionInv, Family, Known
        <4>3. w # c
          BY <1>6, <4>2, NewbornFields DEF ToSet
        <4> QED
          BY <1>12, <1>15, <3>1, <4>2, <4>3
      <3> QED
        BY <3>3, <3>4
    <2>3. ASSUME NEW x \in Processes
          PROVE  Started(x)'
      <3> SUFFICES ASSUME NEW k \in ToSet(proc'[x].kids)
                   PROVE  k # "main" /\ proc'[k].status # "none"
        BY DEF Started
      <3>1. k = c \/ k \in ToSet(proc[x].kids)
        <4>1. CASE x = p
          BY <1>12, <1>15, <4>1
        <4>2. CASE x = c
          BY <1>10, <1>12, <4>2 DEF ToSet
        <4>3. CASE x \notin {p, c}
          BY <1>12, <4>3
        <4> QED
          BY <4>1, <4>2, <4>3
      <3>2. CASE k = c
        BY <1>4, <1>10, <1>12, <3>2
      <3>3. CASE k # c
        <4>1. k \in ToSet(proc[x].kids)
          BY <3>1, <3>3
        <4>2. k # "main" /\ proc[k].status # "none"
          BY <4>1 DEF SessionInv, Family, Started
        <4>3. k \in Processes
          BY <4>1, ElementOfSeq, LenProperties DEF SessionInv, Records, ToSet
        <4> QED
          BY <1>9, <1>12, <3>3, <4>2, <4>3
      <3> QED
        BY <3>2, <3>3
    <2> QED
      BY <2>1, <2>2, <2>3 DEF Family
  <1>17. Talk'
    <2>1. \A x \in Processes : Told(x)
      BY DEF SessionInv, Talk
    <2>2. ASSUME NEW x \in Processes
          PROVE  Told(x)'
      <3>1. CASE x = c
        BY <1>10, <1>12, <3>1, BeforeFirst DEF Told
      <3>2. CASE x = p
        <4>1. c \notin {"give_ingress", "wait_go"}
          BY <1>1 DEF Processes
        <4>2. /\ Before(Program[shell][p], r.pc + 1, "give_ingress") =>
                   Before(Program[shell][p], r.pc, "give_ingress")
              /\ Before(Program[shell][p], r.pc + 1, "wait_go") =>
                   Before(Program[shell][p], r.pc, "wait_go")
          BY <1>2, <1>3, <4>1, BeforeNext
        <4> QED
          BY <1>1, <1>9, <1>12, <1>13, <2>1, <3>2, <4>2 DEF Told
      <3>3. CASE x \notin {p, c}
        BY <1>12, <1>13, <2>1, <3>3 DEF Told
      <3> QED
        BY <3>1, <3>2, <3>3
    <2> QED
      BY <1>13, <2>2 DEF SessionInv, Talk
  <1>18. Owed'
    <2>1. /\ proc'["main"].status = "dead" <=> proc["main"].status = "dead"
          /\ proc'["main"].held = proc["main"].held
          /\ proc["main"].status = "dead" => proc'["main"].code = proc["main"].code
      <3>1. "main" \in Processes
        BY DEF Processes
      <3>2. CASE p = "main"
        BY <1>1, <1>9, <1>12, <3>2
      <3>3. CASE p # "main"
        BY <1>4, <1>12, <3>1, <3>3
      <3> QED
        BY <3>2, <3>3
    <2>2. KernelOwes' = KernelOwes
      BY <1>13 DEF KernelOwes
    <2>3. Owed
      BY DEF SessionInv
    <2> QED
      BY <1>13, <2>1, <2>2, <2>3 DEF Owed
  <1>19. Surroundings'
    BY <1>1, HistoryKept
  <1> QED
    BY <1>12, <1>14, <1>16, <1>17, <1>18, <1>19 DEF SessionInv
------------------------------------------------------------------------------
(* The theorems.                                                            *)

\* A shell that has just been started.
LEMMA InitHolds ==
  ASSUME Init
  PROVE  SessionInv
  <1> DEFINE m == [Newborn EXCEPT !.status = "run"]
  <1>1. /\ shell \in Shells /\ shell \in DOMAIN MainProgram /\ exists = {} /\ messages = {}
        /\ sigchld = {} /\ failures = 0 /\ signals = 0 /\ spoiled = FALSE
    BY SessionAssumption DEF Init
  <1>2. /\ Newborn \in Records /\ Newborn.status = "none" /\ Newborn.pc = 1
        /\ Newborn.held = <<>> /\ Newborn.kids = <<>> /\ Newborn.dropped = FALSE
    BY NewbornFields
  <1>3. /\ m \in Records /\ m.status = "run" /\ m.pc = 1 /\ m.held = <<>> /\ m.kids = <<>>
        /\ m.dropped = FALSE /\ m.root = TRUE /\ m.environ = "none"
    <2>1. Newborn.root = TRUE /\ Newborn.environ = "none"
      BY DEF Newborn
    <2> QED
      BY <1>2, <2>1, StatusFields DEF Live
  <1> HIDE DEF m
  <1>4. /\ "main" \in Processes /\ proc = [p \in Processes |-> IF p = "main" THEN m ELSE Newborn]
    BY DEF Init, Processes, m
  <1>5. /\ proc["main"] = m /\ \A p \in Processes : p # "main" => proc[p] = Newborn
        /\ proc \in [Processes -> Records]
    BY <1>2, <1>3, <1>4
  <1>6. Surroundings
    <2>1. failures \in 0..MaxFailures /\ signals \in 0..MaxSignals
      BY <1>1, SessionAssumption
    <2>2. exists \subseteq Persistent
      BY <1>1
    <2>3. spoiled \in BOOLEAN
      BY <1>1, Zenon
    <2> QED
      BY <1>1, <2>1, <2>2, <2>3 DEF Surroundings
  <1>7. ToSet(<<>>) = {}
    BY DEF ToSet
  <1>8. Local(shell, "main", m)
    <2>1. "main" \in Cast(shell)
      BY DEF Cast
    <2>2. ProgramFacts(shell, "main", Program[shell]["main"])
      BY <1>1, <2>1, ProgramsAreSound
    <2>3. OnTrack(shell, "main", m)
      <3>1. ~BornUnprivileged(shell, "main")
        BY DEF BornUnprivileged
      <3> QED
        BY <1>3, <2>2, <3>1, BeforeFirst, DepthOfEmpty DEF OnTrack, DroppedAt, ProgramFacts
    <2>4. Standing(m) /\ Scoped(m.held)
      BY <1>3, DepthOfEmpty DEF Standing
    <2>5. m.pc \in 1..Len(Program[shell]["main"])
      BY <1>3, <2>2 DEF ProgramFacts
    <2> QED
      BY <1>3, <2>1, <2>3, <2>4, <2>5 DEF Local
  <1>9. \A p \in Processes : Local(shell, p, proc[p])
    BY <1>1, <1>5, <1>8, LocalNewborn
  <1>10. Family
    <2>1. \A p \in Processes : proc[p].kids = <<>>
      BY <1>2, <1>3, <1>5
    <2>2. \A c \in Processes \ {"main"} : proc[c].status = "none"
      BY <1>2, <1>5
    <2>3. \A p \in Processes : Started(p)
      BY <1>7, <2>1 DEF Started
    <2> QED
      BY <2>2, <2>3 DEF Family, Forked, Known, Live
  <1>11. Talk
    <2>1. \A p \in Processes : proc[p].pc = 1
      BY <1>2, <1>3, <1>5
    <2> QED
      BY <1>1, <2>1, BeforeFirst DEF Talk, Told
  <1>12. Owed
    BY <1>1, <1>3, <1>5 DEF Owed
  <1> QED
    BY <1>5, <1>6, <1>9, <1>10, <1>11, <1>12 DEF SessionInv

\* Every step of every process keeps the invariant.
LEMMA NextKeeps ==
  ASSUME SessionInv, [Next]_vars
  PROVE  SessionInv'
  <1>1. CASE UNCHANGED vars
    <2>1. /\ shell' = shell /\ proc' = proc /\ exists' = exists /\ messages' = messages
          /\ failures' = failures /\ signals' = signals /\ spoiled' = spoiled
          /\ sigchld' = sigchld
      BY <1>1 DEF vars, world, history
    <2>2. Surroundings'
      BY <2>1 DEF SessionInv, Surroundings
    <2>3. Family'
      BY <2>1 DEF SessionInv, Family, Forked, Known, Started
    <2>4. Talk' /\ Owed'
      BY <2>1 DEF SessionInv, Talk, Told, Owed, KernelOwes
    <2>5. /\ proc' \in [Processes -> Records]
          /\ \A p \in Processes : Local(shell', p, proc'[p])
      BY <2>1 DEF SessionInv
    <2> QED
      BY <2>2, <2>3, <2>4, <2>5 DEF SessionInv
  <1>2. CASE Next
    <2>1. PICK p \in Processes : Runs(p) \/ ProgramExits(p) \/ OutsideSignal(p)
      BY <1>2 DEF Next
    <2>2. CASE Call(p)
      BY <2>2, CallKept
    <2>3. CASE Fork(p)
      BY <2>3, ForkKept
    <2>4. CASE LeaveScope(p)
      BY <2>4, LeaveScopeKept
    <2>5. CASE Exec(p)
      BY <2>5, ExecKept
    <2>6. CASE EnterLoop(p)
      BY <2>6, EnterLoopKept
    <2>7. CASE LoopGetsSignal(p)
      BY <2>7, LoopGetsSignalKept
    <2>8. CASE LoopSeesChild(p)
      BY <2>8, LoopSeesChildKept
    <2>9. CASE LoopFinishes(p)
      BY <2>9, LoopFinishesKept
    <2>10. CASE \E x \in Scopes : UnwindScope(p, x)
      BY <2>10, UnwindScopeKept
    <2>11. CASE DestroyChild(p)
      BY <2>11, DestroyChildKept
    <2>12. CASE UnwindEventLoop(p)
      BY <2>12, UnwindEventLoopKept
    <2>13. CASE \E x \in Persistent : UnwindThing(p, x)
      BY <2>13, UnwindThingKept
    <2>14. CASE End(p)
      BY <2>14, EndKept
    <2>15. CASE Throw(p)
      BY <2>15, ThrowKept
    <2>16. CASE ProgramExits(p)
      BY <2>16, ProgramExitsKept
    <2>17. CASE OutsideSignal(p)
      BY <2>17, OutsideSignalKept
    <2> QED
      BY <2>1, <2>2, <2>3, <2>4, <2>5, <2>6, <2>7, <2>8, <2>9, <2>10, <2>11,
         <2>12, <2>13, <2>14, <2>15, <2>16, <2>17 DEF Runs
  <1> QED
    BY <1>1, <1>2

\* Whatever the shells, the failures and the signals, a process always has the
\* privileges, the environment and the stack that its program puts there, the
\* loop of its parent knows of it, and what exists is owed by somebody.
THEOREM SessionIsInvariant == Spec => []SessionInv
  <1>1. Init => SessionInv
    BY InitHolds
  <1>2. SessionInv /\ [Next]_vars => SessionInv'
    BY NextKeeps
  <1> QED
    BY <1>1, <1>2, PTL DEF Spec

\* The invariant gives each step what it relies on.
LEMMA InvariantIsSafe ==
  ASSUME SessionInv
  PROVE  StepsAreSafe
  <1>1. TypeOK
    <2>1. ASSUME NEW p \in Processes
          PROVE  /\ proc[p].status \in {"none", "run", "loop", "exec", "unwind", "dead"}
                 /\ proc[p].pc \in 1..Len(Program[shell][p])
                 /\ ToSet(proc[p].kids) \subseteq Processes
                 /\ ToSet(proc[p].held) \subseteq Persistent \cup Scopes \cup {"event_loop"}
                 /\ proc[p].environ \in {"none", "user"}
                 /\ proc[p].code \in {0, 1, 77, Killed}
                 /\ {proc[p].root, proc[p].dropped, proc[p].pending} \subseteq BOOLEAN
      <3>1. proc[p] \in Records /\ proc[p].pc \in 1..Len(Program[shell][p])
        BY Given DEF Local
      <3>2. proc[p].kids \in Seq(Processes) /\ proc[p].held \in Seq(Things)
        BY <3>1 DEF Records
      <3>3. ToSet(proc[p].kids) \subseteq Processes /\ ToSet(proc[p].held) \subseteq Things
        BY <3>2, ElementOfSeq, LenProperties DEF ToSet
      <3> QED
        BY <3>1, <3>3 DEF Records, Live, Things
    <2> QED
      BY <2>1 DEF SessionInv, Surroundings, TypeOK
  <1>2. EnvironmentOnlyUnprivileged
    <2> SUFFICES ASSUME NEW p \in Processes, proc[p].status \in Live,
                        proc[p].environ = "user"
                 PROVE  ~proc[p].root
      BY DEF EnvironmentOnlyUnprivileged, Live
    <2>1. Standing(proc[p])
      BY Given DEF Local
    <2> QED
      BY <2>1 DEF Standing
  <1>3. NoBugReported
    <2> SUFFICES ASSUME NEW p \in Processes, proc[p].status = "run", Refused(p)
                 PROVE  FALSE
      BY DEF NoBugReported
    <2> DEFINE r == proc[p]
               s == Program[shell][p][r.pc]
    <2>1. /\ r \in Records /\ StepFacts(shell, p, Program[shell][p], r.pc)
          /\ Standing(r) /\ OnTrack(shell, p, r)
      BY Given, AtStep
    <2>2. /\ s \in Unprivileged(p) => r.dropped
          /\ s \in Privileged(p) => ~r.dropped
          /\ s = "exec" => p \in {"dnsmasq", "command"}
          /\ Depth(r.held) = Open(s)
      BY <2>1 DEF StepFacts, OnTrack
    <2>3. Step(p) = s
      BY DEF Step
    <2> HIDE DEF s
    <2>4. CASE s \in MustBeUnprivileged /\ r.root
      <3>1. s \in {"read_recordings", "make_directory", "make_queue"}
        BY <2>4 DEF MustBeUnprivileged
      <3>2. s = "read_recordings" => Depth(r.held) = 1
        BY <2>2 DEF Open
      <3>3. s # "read_recordings" => r.dropped
        BY <2>2, <3>1 DEF Unprivileged
      <3> QED
        BY <2>1, <2>4, <3>2, <3>3 DEF Standing
    <2>5. CASE s = "exec" /\ ~MayExec(p)
      <3>1. Depth(r.held) = 0
        BY <2>2, <2>5 DEF Open
      <3>2. p = "command" => r.dropped
        BY <2>2, <2>5 DEF Unprivileged
      <3>3. p = "dnsmasq" => ~r.dropped
        BY <2>2, <2>5 DEF Privileged
      <3>4. r.environ \in {"none", "user"}
        BY <2>1 DEF Records
      <3> QED
        BY <2>1, <2>2, <2>5, <3>1, <3>2, <3>3, <3>4 DEF MayExec, Standing
    <2>6. CASE s \in {"environment_cleared", "enter_environment"} /\ r.environ # "none"
      <3>1. ~r.dropped /\ Depth(r.held) # 2
        BY <2>2, <2>6 DEF Privileged, Open
      <3>2. r.environ \in {"none", "user"}
        BY <2>1 DEF Records
      <3> QED
        BY <2>1, <2>6, <3>1, <3>2 DEF Standing
    <2> QED
      BY <2>3, <2>4, <2>5, <2>6 DEF Refused
  <1>4. IngressArrivesFirst
    <2> SUFFICES ASSUME proc["container"].status = "run",
                        Step("container") = "ingress_address"
                 PROVE  "ingress" \in messages
      BY DEF IngressArrivesFirst
    <2>1. "container" \in Processes
      BY DEF Processes
    <2>2. StepFacts(shell, "container", Program[shell]["container"], proc["container"].pc)
      BY <2>1, Given, AtStep
    <2>3. Before(Program[shell]["container"], proc["container"].pc, "wait_go")
      BY <2>2 DEF StepFacts, Step
    <2> QED
      BY <2>1, <2>3 DEF SessionInv, Talk, Told
  <1> QED
    BY <1>1, <1>2, <1>3, <1>4 DEF StepsAreSafe

\* The invariant of a shell that is over.
LEMMA InvariantLeavesNothing ==
  ASSUME SessionInv
  PROVE  NothingLeftBehind
  <1> SUFFICES ASSUME proc["main"].status = "dead"
               PROVE  /\ \A p \in Processes : proc[p].status \in {"none", "dead"}
                      /\ Leftovers = {} \/ spoiled \/ proc["main"].code = Killed
    BY DEF NothingLeftBehind, Over
  <1>1. ASSUME NEW c \in Processes, c # "main", proc[c].status \in Live
        PROVE  proc[Parent(shell, c)].status \in Live
    <2> DEFINE w == Parent(shell, c)
    <2>1. w \in Processes /\ c \in ToSet(proc[w].kids)
      BY <1>1, ParentIsProcess DEF SessionInv, Family, Known
    <2>2. proc[w].kids # <<>>
      BY <2>1 DEF ToSet
    <2> QED
      BY <2>1, <2>2, Given DEF Local
  <1>2. \A p \in Processes : proc[p].status \notin Live
    <2> SUFFICES ASSUME NEW p \in Processes, proc[p].status \in Live PROVE FALSE
      OBVIOUS
    <2>1. "dead" \notin Live
      BY DEF Live
    <2> DEFINE w == Parent(shell, p)
    <2>2. p # "main"
      BY <2>1
    <2>3. w \in Processes /\ proc[w].status \in Live
      BY <1>1, <2>2, ParentIsProcess
    <2>4. w # "main"
      BY <2>1, <2>3
    <2>5. Parent(shell, w) = "main"
      BY <2>4 DEF Parent
    <2> QED
      BY <1>1, <2>1, <2>3, <2>4, <2>5
  <1>3. \A p \in Processes : proc[p].status \in {"none", "dead"}
    BY <1>2 DEF SessionInv, Records
  <1>4. spoiled \/ proc["main"].code = Killed \/ exists \subseteq KernelOwes
    BY DEF SessionInv, Owed
  <1>5. exists \subseteq KernelOwes => Leftovers = {}
    BY <1>3 DEF KernelOwes, Leftovers, Processes
  <1> QED
    BY <1>3, <1>4, <1>5

\* Every step finds the privileges, the environment and the device it relies
\* on, in whatever order the processes take their steps, throw and are hit by
\* signals, for any number of failures and signals.
THEOREM SessionIsSafe == Spec => []StepsAreSafe
  BY SessionIsInvariant, InvariantIsSafe, PTL

\* A shell that is over has left no process, rule, device, file or server
\* behind, wherever in its set-up it was when things went wrong, unless a
\* removal failed or a signal killed it before its event loop could block it.
THEOREM SessionCleansUp == Spec => []NothingLeftBehind
  BY SessionIsInvariant, InvariantLeavesNothing, PTL
==============================================================================
