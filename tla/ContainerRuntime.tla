-------------------------- MODULE ContainerRuntime --------------------------
(***************************************************************************)
(* container-runtime/runtime.c: the launcher (main), the init process it   *)
(* clones into new namespaces (run_container, PID 1) and the command init  *)
(* forks (PID 2).  Modelled are the startup handshake over the pipe and    *)
(* the pidfd, the signals that both supervisors forward, the reaping of    *)
(* children and the exit status on its way out, with SIGKILL and failing   *)
(* system calls at any point.                                              *)
(*                                                                         *)
(* What the kernel does is modelled from how the code uses it: blocked     *)
(* standard signals stay pending, once each; a child that ends becomes a   *)
(* zombie and sends SIGCHLD; a process with a parent death signal is       *)
(* killed when its parent ends; when PID 1 of the namespace ends, all      *)
(* others in it are killed, and only then can PID 1 be waited for.         *)
(***************************************************************************)
EXTENDS Integers, FiniteSets

CONSTANTS
    Signals,     \* forwarded_signals
    ExitCodes,   \* what the command may exit with
    Dirs,        \* directories the path of the rootfs may name
    MaxKids      \* bound: how many other children init ever gets

SIGKILL == 9
SIGSEGV == 11
SIGPIPE == 13
SIGCHLD == 17
RUNTIME_ERROR == 125

ASSUME RuntimeAssumption ==
    /\ Signals \subseteq {1, 2, 3, 15}
    /\ ExitCodes \subseteq 0 .. 255
    /\ MaxKids \in Nat
    /\ Dirs # {}

Supervisors == {"launcher", "init"}
Procs == Supervisors \cup {"command"}

\* How a process ended, as waitpid tells it.
Exited(code) == [by |-> "exit", number |-> code]
Killed(signal) == [by |-> "signal", number |-> signal]
Statuses == [by: {"exit", "signal"}, number: 0 .. 255]
NotEnded == [by |-> "none", number |-> 0]

NoSignal == 0

Setup == {"setsid", "private", "reopen", "bind", "enter", "proc", "pivot",
          "detach", "close", "drop"}
Supervising == {"reap", "wait", "forward"}
Ended == {"zap", "zombie", "reaped"}

Labels(p) ==
    CASE p = "launcher" -> {"check", "block", "clone", "map", "ready", "kill", "collect", "zombie"}
                             \cup Supervising
      [] p = "init" -> {"none", "pdeath", "poll", "read", "fork", "setpgid"}
                         \cup Setup \cup Supervising \cup Ended
      [] p = "command" -> {"none", "setpgid", "reset", "unblock", "exec", "run", "zombie", "reaped"}

VARIABLES
    pc,            \* where each process is: its next step
    status,        \* how it ended
    pending,       \* its pending signals
    received,      \* the signal a supervisor took and has yet to forward
    ready,         \* the byte is in the pipe
    group,         \* the process group of the command exists
    inherited,     \* the command still has the launcher's signal_handler
    masked,        \* the command still blocks wait_signals
    kids,          \* living children of init other than the command
    zombies,       \* ended ones it has not waited for
    born,          \* how many there have been
    ignoresChild,  \* SIGCHLD is ignored, as the caller may have left it
    ignoresPipe,   \* SIGPIPE is ignored
    path,          \* the directory that root_path names
    expected,      \* the directory root_fd was opened on
    cwd,           \* init's directory, its root from pivot_root on
    failed,        \* history: a step of the setup failed
    shot,          \* history: someone else killed init
    sent,          \* history: the signals sent to the launcher
    heard          \* history: the signals the command got

procVars == <<pc, status, pending>>
commandVars == <<group, inherited, masked>>
kidVars == <<kids, zombies, born>>
actVars == <<ignoresChild, ignoresPipe>>
rootVars == <<path, expected, cwd>>
history == <<failed, shot, sent, heard>>
rest == <<received, ready, commandVars, kidVars, actVars, rootVars, history>>
vars == <<procVars, rest>>

TypeOK ==
    /\ pc \in [Procs -> Labels("launcher") \cup Labels("init") \cup Labels("command")]
    /\ \A p \in Procs : pc[p] \in Labels(p)
    /\ status \in [Procs -> Statuses \cup {NotEnded}]
    /\ pending \in [Procs -> SUBSET (Signals \cup {SIGKILL, SIGCHLD})]
    /\ received \in [Supervisors -> Signals \cup {NoSignal}]
    /\ {ready, group, inherited, masked, ignoresChild, ignoresPipe, failed, shot} \subseteq BOOLEAN
    /\ kids \in 0 .. MaxKids
    /\ zombies \in 0 .. MaxKids
    /\ born \in 0 .. MaxKids
    /\ {path, expected, cwd} \subseteq Dirs
    /\ sent \subseteq Signals
    /\ heard \subseteq Signals

\* main starts with the dispositions its caller left.
Init ==
    /\ pc = [launcher |-> "check", init |-> "none", command |-> "none"]
    /\ status = [p \in Procs |-> NotEnded]
    /\ pending = [p \in Procs |-> {}]
    /\ received = [s \in Supervisors |-> NoSignal]
    /\ ready = FALSE
    /\ group = FALSE
    /\ inherited = TRUE
    /\ masked = TRUE
    /\ kids = 0
    /\ zombies = 0
    /\ born = 0
    /\ ignoresChild \in BOOLEAN
    /\ ignoresPipe \in BOOLEAN
    /\ path \in Dirs
    /\ expected = path
    /\ cwd = path
    /\ failed = FALSE
    /\ shot = FALSE
    /\ sent = {}
    /\ heard = {}

-----------------------------------------------------------------------------
\* Processes.

Alive(p) == pc[p] \notin {"none"} \cup Ended

\* A process to be killed takes no further step of its own.
Runs(p, label) == pc[p] = label /\ SIGKILL \notin pending[p]

Goto(p, label) == pc' = [pc EXCEPT ![p] = label]

Step(p, from, to) ==
    /\ Runs(p, from)
    /\ Goto(p, to)
    /\ UNCHANGED <<status, pending>>

\* Mutant: the parent death signal is set once the byte has been read.
MutantArmed == pc["init"] \notin {"none", "pdeath", "poll", "read"} \cup Ended

\* prctl(PR_SET_PDEATHSIG, SIGKILL) has been called.
Armed == pc["init"] \notin {"none", "pdeath"} \cup Ended

\* What the end of process p adds to the pending signals of process q.
Sends(p, q) ==
    CASE p = "launcher" /\ q = "init" /\ Armed -> {SIGKILL}
      [] p = "init" /\ q = "command" /\ Alive("command") -> {SIGKILL}
      [] p = "command" /\ q = "init" /\ Alive("init") /\ ~ignoresChild -> {SIGCHLD}
      [] OTHER -> {}

\* Process p ends.  PID 1 is not a zombie until its namespace is empty, and
\* the children of a process that ignores SIGCHLD never are.
Ends(p, how) ==
    /\ status' = [status EXCEPT ![p] = how]
    /\ Goto(p, CASE p = "init" -> "zap"
                 [] p = "command" /\ ignoresChild -> "reaped"
                 [] OTHER -> "zombie")
    /\ pending' = [q \in Procs |-> IF q = p THEN {} ELSE pending[q] \cup Sends(p, q)]

\* What may fail: the checks of main, and the system calls of the setup.
Fallible(p) ==
    CASE p = "launcher" -> {"check", "block", "clone"}
      [] p = "init" -> {"pdeath", "fork", "setpgid"} \cup Setup
      [] p = "command" -> {"setpgid", "reset", "unblock"}

fail(p) ==
    /\ \E label \in Fallible(p) : Runs(p, label)
    /\ Ends(p, Exited(RUNTIME_ERROR))
    /\ failed' = TRUE
    /\ UNCHANGED <<received, ready, commandVars, kidVars, actVars, rootVars,
                   shot, sent, heard>>

-----------------------------------------------------------------------------
\* supervise, which the launcher runs for init and init for the command.

Child(s) == IF s = "launcher" THEN "init" ELSE "command"

\* Mutant: an exit is taken for a fatal signal.
MutantExitStatus(how) == 128 + how.number

exit_status(how) == IF how.by = "exit" THEN how.number ELSE 128 + how.number

Zombies(s) == IF s = "init" THEN zombies ELSE 0
Kids(s) == IF s = "init" THEN kids ELSE 0

\* waitpid returns the child this supervisor is for: the status is passed on.
reap_child(s) ==
    /\ Runs(s, "reap")
    /\ pc[Child(s)] = "zombie"
    /\ status' = [status EXCEPT ![s] = Exited(exit_status(status[Child(s)]))]
    /\ pc' = [pc EXCEPT ![s] = IF s = "init" THEN "zap" ELSE "zombie", ![Child(s)] = "reaped"]
    /\ pending' = [pending EXCEPT ![s] = {}]
    /\ UNCHANGED rest

\* Mutant: one waitpid for every SIGCHLD.
MutantReapOther ==
    /\ Step("init", "reap", "wait")
    /\ zombies > 0
    /\ zombies' = zombies - 1
    /\ UNCHANGED <<received, ready, commandVars, kids, born, actVars, rootVars, history>>

\* waitpid returns another child, and is called again.
reap_other ==
    /\ Runs("init", "reap")
    /\ zombies > 0
    /\ zombies' = zombies - 1
    /\ UNCHANGED <<procVars, received, ready, commandVars, kids, born, actVars, rootVars, history>>

\* waitpid returns 0, because none of the children has ended, or fails,
\* because there is none.
reap_none(s) ==
    /\ Runs(s, "reap")
    /\ pc[Child(s)] # "zombie"
    /\ Zombies(s) = 0
    /\ IF pc[Child(s)] = "reaped" /\ Kids(s) = 0
       THEN Ends(s, Exited(RUNTIME_ERROR))
       ELSE Step(s, "reap", "wait")
    /\ UNCHANGED rest

\* sigwaitinfo takes the pending signal with the lowest number, so that a
\* stream of SIGCHLD does not hold up a signal to be forwarded.
wait_signal(s) ==
    /\ Runs(s, "wait")
    /\ \E signal \in pending[s] :
        /\ \A other \in pending[s] : signal <= other
        /\ pending' = [pending EXCEPT ![s] = @ \ {signal}]
        /\ \/ /\ signal = SIGCHLD
              /\ Goto(s, "reap")
              /\ UNCHANGED received
           \/ /\ signal # SIGCHLD
              /\ Goto(s, "forward")
              /\ received' = [received EXCEPT ![s] = signal]
    /\ UNCHANGED <<status, ready, commandVars, kidVars, actVars, rootVars, history>>

\* Whom kill(process_group ? -child : child, received) reaches.
Target(s) == IF Alive(Child(s)) /\ (s = "init" => group) THEN {Child(s)} ELSE {}

\* Sending to a zombie, or to no one (ESRCH), is no error.
forward(s) ==
    /\ Runs(s, "forward")
    /\ Goto(s, "reap")
    /\ pending' = [p \in Procs |->
                     IF p \in Target(s) THEN pending[p] \cup {received[s]} ELSE pending[p]]
    /\ received' = [received EXCEPT ![s] = NoSignal]
    /\ UNCHANGED <<status, ready, commandVars, kidVars, actVars, rootVars, history>>

supervise(s) ==
    \/ reap_child(s) \/ reap_none(s) \/ wait_signal(s) \/ forward(s)

-----------------------------------------------------------------------------
\* main.

\* Arguments, identity and descriptors are right, the rootfs is opened.
check ==
    /\ Step("launcher", "check", "block")
    /\ expected' = path
    /\ UNCHANGED <<received, ready, commandVars, kidVars, actVars, path, cwd, history>>

\* Mutant: SIGCHLD keeps the disposition the caller left.
MutantBlock ==
    /\ Step("launcher", "block", "clone")
    /\ ignoresPipe' = TRUE
    /\ UNCHANGED <<received, ready, commandVars, kidVars, ignoresChild, rootVars, history>>

\* wait_signals are blocked and handled, SIGCHLD is reset, SIGPIPE ignored.
block ==
    /\ Step("launcher", "block", "clone")
    /\ ignoresChild' = FALSE
    /\ ignoresPipe' = TRUE
    /\ UNCHANGED <<received, ready, commandVars, kidVars, rootVars, history>>

clone ==
    /\ Runs("launcher", "clone")
    /\ pc' = [pc EXCEPT !["launcher"] = "map", !["init"] = "pdeath"]
    /\ UNCHANGED <<status, pending, rest>>

\* setgroups, uid_map and gid_map.
write_map ==
    /\ \/ Step("launcher", "map", "ready") /\ UNCHANGED failed
       \/ Step("launcher", "map", "kill") /\ failed' = TRUE
    /\ UNCHANGED <<received, ready, commandVars, kidVars, actVars, rootVars,
                   shot, sent, heard>>

\* Write the byte; without init there is no one left to read it.
write_ready ==
    /\ \/ /\ Step("launcher", "ready", "reap")
          /\ Alive("init")
          /\ ready' = TRUE
          /\ UNCHANGED failed
       \/ /\ ~Alive("init")
          /\ IF ignoresPipe
             THEN Step("launcher", "ready", "kill")
             ELSE Runs("launcher", "ready") /\ Ends("launcher", Killed(SIGPIPE))
          /\ failed' = TRUE
          /\ UNCHANGED ready
    /\ UNCHANGED <<received, commandVars, kidVars, actVars, rootVars, shot, sent, heard>>

kill_child ==
    /\ Runs("launcher", "kill")
    /\ Goto("launcher", "collect")
    /\ pending' = [pending EXCEPT !["init"] = IF Alive("init") THEN @ \cup {SIGKILL} ELSE @]
    /\ UNCHANGED <<status, received, ready, commandVars, kidVars, actVars, rootVars, history>>

\* Mutant: main returns without waiting for the child.
MutantCollect ==
    /\ Runs("launcher", "collect")
    /\ Ends("launcher", Exited(RUNTIME_ERROR))
    /\ UNCHANGED rest

\* waitpid(child) returns, and then main.
collect ==
    /\ Runs("launcher", "collect")
    /\ pc["init"] = "zombie"
    /\ pc' = [pc EXCEPT !["launcher"] = "zombie", !["init"] = "reaped"]
    /\ status' = [status EXCEPT !["launcher"] = Exited(RUNTIME_ERROR)]
    /\ pending' = [pending EXCEPT !["launcher"] = {}]
    /\ UNCHANGED rest

main == check \/ block \/ clone \/ write_map \/ write_ready \/ kill_child \/ collect

-----------------------------------------------------------------------------
\* run_container.

set_pdeathsig ==
    /\ Step("init", "pdeath", "poll")
    /\ UNCHANGED rest

\* Mutant: no look at the parent's pidfd.
MutantPollParent ==
    /\ Step("init", "poll", "read")
    /\ UNCHANGED rest

\* The parent's pidfd is readable once the launcher has ended.
poll_parent ==
    /\ \/ Alive("launcher") /\ Step("init", "poll", "read")
       \/ ~Alive("launcher") /\ Runs("init", "poll") /\ Ends("init", Exited(RUNTIME_ERROR))
    /\ UNCHANGED rest

\* The byte, or the end of the pipe: only the launcher can still write.
read_ready ==
    /\ \/ ready /\ Step("init", "read", "setsid")
       \/ /\ ~ready /\ ~Alive("launcher")
          /\ Runs("init", "read") /\ Ends("init", Exited(RUNTIME_ERROR))
    /\ UNCHANGED rest

\* A step of the setup that changes nothing the model keeps: setsid, private
\* mounts, the proc mount, pivot_root into cwd, the detached old root, the
\* closed descriptors, the dropped capabilities.
prepare ==
    /\ \/ Step("init", "setsid", "private")
       \/ Step("init", "private", "reopen")
       \/ Step("init", "proc", "pivot")
       \/ Step("init", "pivot", "detach")
       \/ Step("init", "detach", "close")
       \/ Step("init", "close", "drop")
       \/ Step("init", "drop", "fork")
    /\ UNCHANGED rest

\* root_path is opened again, and must be the directory main opened.
reopen ==
    /\ path = expected
    /\ Step("init", "reopen", "bind")
    /\ UNCHANGED rest

\* fchdir to the directory just opened, and bind it over itself.
bind ==
    /\ Step("init", "bind", "enter")
    /\ cwd' = expected
    /\ UNCHANGED <<received, ready, commandVars, kidVars, actVars, path, expected, history>>

\* Mutant: the directory is not compared again.
MutantEnter ==
    /\ Step("init", "enter", "proc")
    /\ cwd' = path
    /\ UNCHANGED <<received, ready, commandVars, kidVars, actVars, path, expected, history>>

\* chdir to root_path, now the mount, and compare it again.
enter ==
    /\ path = expected
    /\ Step("init", "enter", "proc")
    /\ cwd' = path
    /\ UNCHANGED <<received, ready, commandVars, kidVars, actVars, path, expected, history>>

fork ==
    /\ Runs("init", "fork")
    /\ pc' = [pc EXCEPT !["init"] = "setpgid", !["command"] = "setpgid"]
    /\ UNCHANGED <<status, pending, rest>>

\* Mutant: only the command itself sets its process group.
MutantSetpgid ==
    /\ Step("init", "setpgid", "reap")
    /\ UNCHANGED rest

\* Either this creates the group, or the command, which has executed, did.
setpgid ==
    /\ Step("init", "setpgid", "reap")
    /\ group' = TRUE
    /\ UNCHANGED <<received, ready, inherited, masked, kidVars, actVars, rootVars, history>>

run_container ==
    \/ set_pdeathsig \/ poll_parent \/ read_ready
    \/ prepare \/ reopen \/ bind \/ enter \/ fork \/ setpgid

-----------------------------------------------------------------------------
\* The command: its process up to execv, then the program.

join_group ==
    /\ Step("command", "setpgid", "reset")
    /\ group' = TRUE
    /\ UNCHANGED <<received, ready, inherited, masked, kidVars, actVars, rootVars, history>>

\* Mutant: the handlers are left alone.
MutantReset ==
    /\ Step("command", "reset", "unblock")
    /\ UNCHANGED rest

reset ==
    /\ Step("command", "reset", "unblock")
    /\ inherited' = FALSE
    /\ UNCHANGED <<received, ready, group, masked, kidVars, actVars, rootVars, history>>

unblock ==
    /\ Step("command", "unblock", "exec")
    /\ masked' = FALSE
    /\ UNCHANGED <<received, ready, group, inherited, kidVars, actVars, rootVars, history>>

\* execv, or the exit code for a program that is missing or cannot be run.
exec ==
    /\ \/ Step("command", "exec", "run")
       \/ \E code \in {126, 127} : Runs("command", "exec") /\ Ends("command", Exited(code))
    /\ UNCHANGED rest

command == join_group \/ reset \/ unblock \/ exec

\* The program exits, or ends by a fault of its own.
program_ends ==
    /\ Runs("command", "run")
    /\ \E how \in {Exited(code) : code \in ExitCodes} \cup {Killed(SIGSEGV)} : Ends("command", how)
    /\ UNCHANGED rest

\* A process it started lost its parent: init has one more child.
orphan ==
    /\ Runs("command", "run")
    /\ born < MaxKids
    /\ born' = born + 1
    /\ kids' = kids + 1
    /\ UNCHANGED <<procVars, received, ready, commandVars, zombies, actVars, rootVars, history>>

-----------------------------------------------------------------------------
\* The kernel.

\* A signal that is not blocked: the handler of the launcher does nothing,
\* the default action ends the process, the program may do either.
deliver(signal) ==
    /\ signal \in pending["command"] \ {SIGKILL}
    /\ SIGKILL \notin pending["command"]
    /\ ~masked
    /\ \/ /\ inherited \/ pc["command"] = "run"
          /\ pending' = [pending EXCEPT !["command"] = @ \ {signal}]
          /\ UNCHANGED <<pc, status>>
       \/ ~inherited /\ Ends("command", Killed(signal))
    /\ heard' = IF inherited THEN heard ELSE heard \cup {signal}
    /\ UNCHANGED <<received, ready, commandVars, kidVars, actVars, rootVars,
                   failed, shot, sent>>

die(p) ==
    /\ SIGKILL \in pending[p]
    /\ Ends(p, Killed(SIGKILL))
    /\ UNCHANGED rest

\* Another child of init ends, by itself or with the namespace.
kid_ends ==
    /\ kids > 0
    /\ kids' = kids - 1
    /\ zombies' = IF Alive("init") THEN zombies + 1 ELSE zombies
    /\ pending' = IF Alive("init") THEN [pending EXCEPT !["init"] = @ \cup {SIGCHLD}] ELSE pending
    /\ UNCHANGED <<pc, status, received, ready, commandVars, born, actVars, rootVars, history>>

\* The namespace is empty: its PID 1 can be waited for, by the launcher, or
\* by the host's init when the launcher has ended.
zapped ==
    /\ pc["init"] = "zap"
    /\ ~Alive("command")
    /\ kids = 0
    /\ zombies' = 0
    /\ pc' = [pc EXCEPT !["init"] = IF Alive("launcher") /\ ~ignoresChild THEN "zombie" ELSE "reaped",
                        !["command"] = IF @ = "zombie" THEN "reaped" ELSE @]
    /\ pending' = [pending EXCEPT !["launcher"] =
                     IF Alive("launcher") /\ ~ignoresChild THEN @ \cup {SIGCHLD} ELSE @]
    /\ UNCHANGED <<status, received, ready, commandVars, kids, born, actVars, rootVars, history>>

-----------------------------------------------------------------------------
\* Others on the host.

\* A signal to the launcher: fatal until main has blocked it.  Bound: each
\* signal is sent once, so that no flood of one can keep another waiting.
signal_launcher(signal) ==
    /\ Alive("launcher")
    /\ signal \notin sent
    /\ \/ /\ pc["launcher"] \in {"check", "block"}
          /\ Ends("launcher", Killed(signal))
          /\ UNCHANGED sent
       \/ /\ pc["launcher"] \notin {"check", "block"}
          /\ pending' = [pending EXCEPT !["launcher"] = @ \cup {signal}]
          /\ sent' = sent \cup {signal}
          /\ UNCHANGED <<pc, status>>
    /\ UNCHANGED <<received, ready, commandVars, kidVars, actVars, rootVars,
                   failed, shot, heard>>

kill_launcher ==
    /\ Alive("launcher")
    /\ Ends("launcher", Killed(SIGKILL))
    /\ UNCHANGED rest

kill_init ==
    /\ Alive("init")
    /\ pending' = [pending EXCEPT !["init"] = @ \cup {SIGKILL}]
    /\ shot' = TRUE
    /\ UNCHANGED <<pc, status, received, ready, commandVars, kidVars, actVars, rootVars,
                   failed, sent, heard>>

\* Another directory is put at the path of the rootfs during startup.
replace_root ==
    /\ pc["command"] = "none"
    /\ path' \in Dirs
    /\ UNCHANGED <<procVars, received, ready, commandVars, kidVars, actVars, expected, cwd,
                   history>>

Kernel ==
    \/ \E signal \in Signals : deliver(signal)
    \/ die("init") \/ die("command")
    \/ zapped

Runtime ==
    \/ main \/ run_container \/ command \/ reap_other
    \/ \E p \in Procs : fail(p)
    \/ \E s \in Supervisors : supervise(s)

Environment ==
    \/ program_ends \/ orphan \/ kid_ends
    \/ kill_launcher \/ kill_init \/ replace_root
    \/ \E signal \in Signals : signal_launcher(signal)

Next == Runtime \/ Kernel \/ Environment

Spec == Init /\ [][Next]_vars

\* Each process of the runtime goes on, with what it does next or with its
\* failure, and the kernel does its part.  Nothing is assumed of the
\* program, of the processes it starts while init lives, nor of others.
Fairness ==
    /\ WF_vars(main \/ fail("launcher") \/ supervise("launcher"))
    /\ WF_vars(run_container \/ fail("init") \/ supervise("init") \/ reap_other)
    /\ WF_vars(command \/ fail("command"))
    /\ WF_vars(~Alive("init") /\ kid_ends)
    /\ WF_vars(zapped)
    /\ WF_vars(die("init")) /\ WF_vars(die("command"))
    /\ \A signal \in Signals : WF_vars(deliver(signal))

FairSpec == Spec /\ Fairness

-----------------------------------------------------------------------------
\* What the runtime guarantees.

\* The launcher's exit code is the command's: RUNTIME_ERROR only if the setup
\* failed, 128 + SIGKILL for a command that ran only if init was killed.  No
\* interleaving of SIGCHLD, orphans and signals makes supervise take another
\* child for its own or find none, whatever the caller left of SIGCHLD.
StatusReported ==
    status["launcher"].by = "exit" =>
        \/ failed /\ status["launcher"].number = RUNTIME_ERROR
        \/ shot /\ status["launcher"].number = 128 + SIGKILL
        \/ LET n == status["launcher"].number
           IN  status["command"] \in {Exited(n), Killed(n - 128)}

\* When the launcher returns, nothing of the container is left: PID 1 ends
\* with the command and takes the rest along, and the error path of main
\* waits for the init process it kills.
NothingOutlives ==
    status["launcher"].by = "exit" => ~Alive("init") /\ ~Alive("command") /\ kids = 0

\* However the launcher dies, even between the clone and init's prctl with
\* the byte already in the pipe, init has been killed, or is still ahead of
\* its look at the pidfd.
NoOrphan ==
    ~Alive("launcher") /\ Alive("init") =>
        pc["init"] \in {"pdeath", "poll"} \/ SIGKILL \in pending["init"]

\* The container is ending: forwarding has no point any more.
Ending ==
    \/ ~Alive("launcher") \/ pc["launcher"] \in {"kill", "collect"}
    \/ pc["init"] \in Ended \/ pc["command"] \in Ended
    \/ SIGKILL \in pending["init"] \cup pending["command"]

\* Where a signal on its way to the command can be.
OnItsWay(signal) ==
    \/ \E p \in Procs : signal \in pending[p]
    \/ \E s \in Supervisors : received[s] = signal

\* No signal is lost between the launcher's sigprocmask and the program,
\* though init may not exist yet, the process group may not exist yet, and
\* the command starts with a handler that ignores it.
SignalsKept == \A signal \in sent : OnItsWay(signal) \/ signal \in heard \/ Ending

\* The command runs in the directory that main opened and checked, whatever
\* is put at its path during the startup.
RootIsExpected == pc["command"] # "none" => cwd = expected

\* The death of the launcher, by a return or by SIGKILL, empties the
\* container.
LauncherDeathEndsAll ==
    ~Alive("launcher") ~> ~Alive("init") /\ ~Alive("command") /\ kids = 0

\* The end of the command ends the launcher: no SIGCHLD is missed between
\* waitpid and sigwaitinfo, though it may stand for several children.
EndIsReported == status["command"] # NotEnded ~> ~Alive("launcher")

\* A signal to the launcher reaches the command or finds the container
\* ending.
SignalsArrive ==
    \A signal \in Signals : signal \in sent ~> signal \in heard \/ Ending

\* Orphans that end are waited for while the command runs on.
OrphansReaped == zombies > 0 ~> zombies = 0
=============================================================================
