----------------------- MODULE ContainerRuntimeProofs -----------------------
(***************************************************************************)
(* Theorems about ContainerRuntime, for every set of forwarded signals,    *)
(* every set of exit codes and any number of orphans.                      *)
(***************************************************************************)
EXTENDS ContainerRuntime, TLAPS

-----------------------------------------------------------------------------
\* The inductive invariant.

\* TypeOK without its Boolean variables, and what keeps the counts of other
\* children within their bound.
Typed ==
    /\ pc \in [Procs -> Labels("launcher") \cup Labels("init") \cup Labels("command")]
    /\ \A p \in Procs : pc[p] \in Labels(p)
    /\ status \in [Procs -> Statuses \cup {NotEnded}]
    /\ pending \in [Procs -> SUBSET (Signals \cup {SIGKILL, SIGCHLD})]
    /\ received \in [Supervisors -> Signals \cup {NoSignal}]
    /\ kids \in 0 .. MaxKids /\ zombies \in 0 .. MaxKids /\ born \in 0 .. MaxKids
    /\ kids + zombies <= born
    /\ {path, expected, cwd} \subseteq Dirs
    /\ sent \subseteq Signals
    /\ heard \subseteq Signals

Flags == {ready, group, inherited, masked, ignoresChild, ignoresPipe, failed, shot} \subseteq BOOLEAN

\* Where the three processes are relative to each other, and that nothing is
\* pending for a process that does not live.
Places ==
    /\ pc["launcher"] \in {"check", "block", "clone"} => pc["init"] = "none"
    /\ pc["launcher"] \notin {"check", "block", "clone", "zombie"} => pc["init"] # "none"
    /\ pc["init"] \in {"none", "pdeath", "poll", "read", "fork"} \cup Setup => pc["command"] = "none"
    /\ pc["init"] \in {"setpgid"} \cup Supervising => pc["command"] # "none"
    /\ pc["command"] = "none" => kids = 0
    /\ pc["init"] \in {"zombie", "reaped"} => ~Alive("command") /\ kids = 0
    /\ pc["init"] = "reaped" => ~Alive("launcher")
    /\ pc["launcher"] = "clone" \/ pc["init"] # "none" => ~ignoresChild /\ ignoresPipe
    /\ pc["command"] = "reaped" => pc["init"] \in Ended
    /\ \A p \in Procs : ~Alive(p) => pending[p] = {}
    /\ SIGKILL \notin pending["launcher"]

\* What a status says about the process it is of.
Causes ==
    /\ \A p \in Procs : status[p] = NotEnded <=> pc[p] \notin Ended
    /\ \A p \in Procs : status[p].by = "signal" =>
           status[p].number \in Signals \cup {SIGKILL, SIGSEGV, SIGPIPE}
    /\ pc["launcher"] \in {"kill", "collect"} => failed
    /\ SIGKILL \in pending["init"] \/ status["init"].by = "signal" =>
           shot \/ ~Alive("launcher") \/ pc["launcher"] = "collect"
    /\ status["init"].by = "signal" => status["init"].number = SIGKILL
    /\ status["init"].by = "exit" =>
           \/ failed /\ status["init"].number = RUNTIME_ERROR
           \/ /\ status["command"] # NotEnded
              /\ status["init"].number = exit_status(status["command"])
           \/ ~Alive("launcher")

\* What keeps a signal from being lost on its way.
Carried ==
    /\ pc["init"] \in Supervising => group
    /\ ~masked \/ pc["command"] = "unblock" => ~inherited
    /\ \A s \in Supervisors :
        /\ pc[s] \notin Ended \cup {"forward"} => received[s] = NoSignal
        /\ pc[s] = "forward" => received[s] # NoSignal

\* The directory, from the second comparison on.
Entered ==
    pc["init"] \in {"proc", "pivot", "detach", "close", "drop", "fork"} => cwd = expected

Inv ==
    /\ Typed /\ Flags /\ Places /\ Causes /\ Carried /\ Entered
    /\ NoOrphan /\ NothingOutlives /\ StatusReported /\ SignalsKept /\ RootIsExpected

\* The vocabulary of the model, which every proof below may expand.
USE DEF Procs, Supervisors, Labels, Setup, Supervising, Ended, Alive, Runs, Goto, Step,
        Exited, Killed, Statuses, NotEnded, NoSignal,
        SIGKILL, SIGCHLD, SIGSEGV, SIGPIPE, RUNTIME_ERROR,
        procVars, commandVars, kidVars, actVars, rootVars, history, rest

LEMMA InvTypeOK == Inv => TypeOK
BY DEF Inv, Typed, Flags, TypeOK

LEMMA InitInv == Init => Inv
<1> SUFFICES ASSUME Init PROVE Inv
  OBVIOUS
<1>1. Typed
  BY RuntimeAssumption DEF Init, Typed
<1>2. Flags
  BY DEF Init, Flags
<1>3. Places
  BY DEF Init, Places
<1>4. Causes
  BY DEF Init, Causes
<1>5. Carried /\ Entered
  BY DEF Init, Carried, Entered
<1>6. NoOrphan /\ NothingOutlives /\ StatusReported /\ SignalsKept /\ RootIsExpected
  BY DEF Init, NoOrphan, NothingOutlives, StatusReported, SignalsKept, RootIsExpected
<1> QED
  BY <1>1, <1>2, <1>3, <1>4, <1>5, <1>6 DEF Inv

-----------------------------------------------------------------------------
\* The launcher.
LEMMA MainInv == ASSUME Inv, main PROVE Inv'
<1> USE DEF main, check, block, clone, write_map, write_ready, kill_child, collect
<1>1. Typed'
  BY RuntimeAssumption DEF Inv, Typed, Places, Causes, Carried, exit_status, Ends, Sends,
                           Armed
<1>2. Flags'
  BY DEF Inv, Flags
<1>3. Places'
  BY RuntimeAssumption DEF Inv, Typed, Places, Causes, Ends, Sends, Armed
<1>4. Causes'
  BY RuntimeAssumption DEF Inv, Typed, Places, Causes, exit_status, Ends, Sends, Armed
<1>5. Carried'
  BY RuntimeAssumption DEF Inv, Typed, Places, Carried, Ends, Sends, Armed
<1>6. Entered'
  BY RuntimeAssumption DEF Inv, Typed, Places, Entered, Ends, Sends, Armed
<1>7. NoOrphan'
  BY RuntimeAssumption DEF Inv, Typed, Places, NoOrphan, Ends, Sends, Armed
<1>8. NothingOutlives'
  BY RuntimeAssumption DEF Inv, Typed, Places, Causes, NothingOutlives, Ends, Sends, Armed
<1>9. StatusReported'
  BY RuntimeAssumption DEF Inv, Typed, Places, Causes, StatusReported, exit_status, Ends,
                           Sends, Armed
<1>10. SignalsKept'
  BY RuntimeAssumption DEF Inv, Typed, Places, Carried, SignalsKept, Ending, OnItsWay, Ends,
                           Sends, Armed
<1>11. RootIsExpected'
  BY RuntimeAssumption DEF Inv, Typed, Places, Entered, RootIsExpected, Ends, Sends, Armed
<1> QED
  BY <1>1, <1>2, <1>3, <1>4, <1>5, <1>6, <1>7, <1>8, <1>9, <1>10, <1>11 DEF Inv

\* The init process, up to its own supervise.
LEMMA RunContainerInv == ASSUME Inv, run_container PROVE Inv'
<1> USE DEF run_container, set_pdeathsig, poll_parent, read_ready, prepare, reopen, bind,
            enter, fork, setpgid
<1>1. Typed'
  BY RuntimeAssumption DEF Inv, Typed, Places, Causes, Carried, exit_status, Ends, Sends,
                           Armed
<1>2. Flags'
  BY DEF Inv, Flags
<1>3. Places'
  BY RuntimeAssumption DEF Inv, Typed, Places, Causes, Ends, Sends, Armed
<1>4. Causes'
  BY RuntimeAssumption DEF Inv, Typed, Places, Causes, exit_status, Ends, Sends, Armed
<1>5. Carried'
  BY RuntimeAssumption DEF Inv, Typed, Places, Carried, Ends, Sends, Armed
<1>6. Entered'
  BY RuntimeAssumption DEF Inv, Typed, Places, Entered, Ends, Sends, Armed
<1>7. NoOrphan'
  BY RuntimeAssumption DEF Inv, Typed, Places, NoOrphan, Ends, Sends, Armed
<1>8. NothingOutlives'
  BY RuntimeAssumption DEF Inv, Typed, Places, Causes, NothingOutlives, Ends, Sends, Armed
<1>9. StatusReported'
  BY RuntimeAssumption DEF Inv, Typed, Places, Causes, StatusReported, exit_status, Ends,
                           Sends, Armed
<1>10. SignalsKept'
  BY RuntimeAssumption DEF Inv, Typed, Places, Carried, SignalsKept, Ending, OnItsWay, Ends,
                           Sends, Armed
<1>11. RootIsExpected'
  BY RuntimeAssumption DEF Inv, Typed, Places, Entered, RootIsExpected, Ends, Sends, Armed
<1> QED
  BY <1>1, <1>2, <1>3, <1>4, <1>5, <1>6, <1>7, <1>8, <1>9, <1>10, <1>11 DEF Inv

\* The command, up to execv.
LEMMA CommandInv == ASSUME Inv, command PROVE Inv'
<1> USE DEF command, join_group, reset, unblock, exec
<1>1. Typed'
  BY RuntimeAssumption DEF Inv, Typed, Places, Causes, Carried, exit_status, Ends, Sends,
                           Armed
<1>2. Flags'
  BY DEF Inv, Flags
<1>3. Places'
  BY RuntimeAssumption DEF Inv, Typed, Places, Causes, Ends, Sends, Armed
<1>4. Causes'
  BY RuntimeAssumption DEF Inv, Typed, Places, Causes, exit_status, Ends, Sends, Armed
<1>5. Carried'
  BY RuntimeAssumption DEF Inv, Typed, Places, Carried, Ends, Sends, Armed
<1>6. Entered'
  BY RuntimeAssumption DEF Inv, Typed, Places, Entered, Ends, Sends, Armed
<1>7. NoOrphan'
  BY RuntimeAssumption DEF Inv, Typed, Places, NoOrphan, Ends, Sends, Armed
<1>8. NothingOutlives'
  BY RuntimeAssumption DEF Inv, Typed, Places, Causes, NothingOutlives, Ends, Sends, Armed
<1>9. StatusReported'
  BY RuntimeAssumption DEF Inv, Typed, Places, Causes, StatusReported, exit_status, Ends,
                           Sends, Armed
<1>10. SignalsKept'
  BY RuntimeAssumption DEF Inv, Typed, Places, Carried, SignalsKept, Ending, OnItsWay, Ends,
                           Sends, Armed
<1>11. RootIsExpected'
  BY RuntimeAssumption DEF Inv, Typed, Places, Entered, RootIsExpected, Ends, Sends, Armed
<1> QED
  BY <1>1, <1>2, <1>3, <1>4, <1>5, <1>6, <1>7, <1>8, <1>9, <1>10, <1>11 DEF Inv

\* A failing step of any of them.
LEMMA FailInv == ASSUME Inv, NEW p \in Procs, fail(p) PROVE Inv'
<1> USE DEF fail, Fallible
<1>1. Typed'
  BY RuntimeAssumption DEF Inv, Typed, Places, Causes, Carried, exit_status, Ends, Sends,
                           Armed
<1>2. Flags'
  BY DEF Inv, Flags
<1>3. Places'
  BY RuntimeAssumption DEF Inv, Typed, Places, Causes, Ends, Sends, Armed
<1>4. Causes'
  BY RuntimeAssumption DEF Inv, Typed, Places, Causes, exit_status, Ends, Sends, Armed
<1>5. Carried'
  BY RuntimeAssumption DEF Inv, Typed, Places, Carried, Ends, Sends, Armed
<1>6. Entered'
  BY RuntimeAssumption DEF Inv, Typed, Places, Entered, Ends, Sends, Armed
<1>7. NoOrphan'
  BY RuntimeAssumption DEF Inv, Typed, Places, NoOrphan, Ends, Sends, Armed
<1>8. NothingOutlives'
  BY RuntimeAssumption DEF Inv, Typed, Places, Causes, NothingOutlives, Ends, Sends, Armed
<1>9. StatusReported'
  BY RuntimeAssumption DEF Inv, Typed, Places, Causes, StatusReported, exit_status, Ends,
                           Sends, Armed
<1>10. SignalsKept'
  BY RuntimeAssumption DEF Inv, Typed, Places, Carried, SignalsKept, Ending, OnItsWay, Ends,
                           Sends, Armed
<1>11. RootIsExpected'
  BY RuntimeAssumption DEF Inv, Typed, Places, Entered, RootIsExpected, Ends, Sends, Armed
<1> QED
  BY <1>1, <1>2, <1>3, <1>4, <1>5, <1>6, <1>7, <1>8, <1>9, <1>10, <1>11 DEF Inv

\* supervise, at both levels.
LEMMA SuperviseInv == ASSUME Inv, NEW s \in Supervisors, supervise(s) PROVE Inv'
<1> USE DEF supervise, reap_child, reap_none, wait_signal, forward, Target, Child, Zombies,
            Kids
<1>1. Typed'
  BY RuntimeAssumption DEF Inv, Typed, Places, Causes, Carried, exit_status, Ends, Sends,
                           Armed
<1>2. Flags'
  BY DEF Inv, Flags
<1>3. Places'
  BY RuntimeAssumption DEF Inv, Typed, Places, Causes, Ends, Sends, Armed
<1>4. Causes'
  BY RuntimeAssumption DEF Inv, Typed, Places, Causes, exit_status, Ends, Sends, Armed
<1>5. Carried'
  BY RuntimeAssumption DEF Inv, Typed, Places, Carried, Ends, Sends, Armed
<1>6. Entered'
  BY RuntimeAssumption DEF Inv, Typed, Places, Entered, Ends, Sends, Armed
<1>7. NoOrphan'
  BY RuntimeAssumption DEF Inv, Typed, Places, NoOrphan, Ends, Sends, Armed
<1>8. NothingOutlives'
  BY RuntimeAssumption DEF Inv, Typed, Places, Causes, NothingOutlives, Ends, Sends, Armed
<1>9. StatusReported'
  BY RuntimeAssumption DEF Inv, Typed, Places, Causes, StatusReported, exit_status, Ends,
                           Sends, Armed
<1>10. SignalsKept'
  BY RuntimeAssumption DEF Inv, Typed, Places, Carried, SignalsKept, Ending, OnItsWay, Ends,
                           Sends, Armed
<1>11. RootIsExpected'
  BY RuntimeAssumption DEF Inv, Typed, Places, Entered, RootIsExpected, Ends, Sends, Armed
<1> QED
  BY <1>1, <1>2, <1>3, <1>4, <1>5, <1>6, <1>7, <1>8, <1>9, <1>10, <1>11 DEF Inv

\* The program and the other children of init.
LEMMA ChildrenInv == ASSUME Inv, reap_other \/ program_ends \/ orphan \/ kid_ends PROVE Inv'
<1> USE DEF reap_other, program_ends, orphan, kid_ends
<1>1. Typed'
  BY RuntimeAssumption DEF Inv, Typed, Places, Causes, Carried, exit_status, Ends, Sends,
                           Armed
<1>2. Flags'
  BY DEF Inv, Flags
<1>3. Places'
  BY RuntimeAssumption DEF Inv, Typed, Places, Causes, Ends, Sends, Armed
<1>4. Causes'
  BY RuntimeAssumption DEF Inv, Typed, Places, Causes, exit_status, Ends, Sends, Armed
<1>5. Carried'
  BY RuntimeAssumption DEF Inv, Typed, Places, Carried, Ends, Sends, Armed
<1>6. Entered'
  BY RuntimeAssumption DEF Inv, Typed, Places, Entered, Ends, Sends, Armed
<1>7. NoOrphan'
  BY RuntimeAssumption DEF Inv, Typed, Places, NoOrphan, Ends, Sends, Armed
<1>8. NothingOutlives'
  BY RuntimeAssumption DEF Inv, Typed, Places, Causes, NothingOutlives, Ends, Sends, Armed
<1>9. StatusReported'
  BY RuntimeAssumption DEF Inv, Typed, Places, Causes, StatusReported, exit_status, Ends,
                           Sends, Armed
<1>10. SignalsKept'
  BY RuntimeAssumption DEF Inv, Typed, Places, Carried, SignalsKept, Ending, OnItsWay, Ends,
                           Sends, Armed
<1>11. RootIsExpected'
  BY RuntimeAssumption DEF Inv, Typed, Places, Entered, RootIsExpected, Ends, Sends, Armed
<1> QED
  BY <1>1, <1>2, <1>3, <1>4, <1>5, <1>6, <1>7, <1>8, <1>9, <1>10, <1>11 DEF Inv

\* SIGKILL, and the end of the namespace.
LEMMA DeathInv == ASSUME Inv, die("init") \/ die("command") \/ zapped PROVE Inv'
<1> USE DEF die, zapped
<1>1. Typed'
  BY RuntimeAssumption DEF Inv, Typed, Places, Causes, Carried, exit_status, Ends, Sends,
                           Armed
<1>2. Flags'
  BY DEF Inv, Flags
<1>3. Places'
  BY RuntimeAssumption DEF Inv, Typed, Places, Causes, Ends, Sends, Armed
<1>4. Causes'
  BY RuntimeAssumption DEF Inv, Typed, Places, Causes, exit_status, Ends, Sends, Armed
<1>5. Carried'
  BY RuntimeAssumption DEF Inv, Typed, Places, Carried, Ends, Sends, Armed
<1>6. Entered'
  BY RuntimeAssumption DEF Inv, Typed, Places, Entered, Ends, Sends, Armed
<1>7. NoOrphan'
  BY RuntimeAssumption DEF Inv, Typed, Places, NoOrphan, Ends, Sends, Armed
<1>8. NothingOutlives'
  BY RuntimeAssumption DEF Inv, Typed, Places, Causes, NothingOutlives, Ends, Sends, Armed
<1>9. StatusReported'
  BY RuntimeAssumption DEF Inv, Typed, Places, Causes, StatusReported, exit_status, Ends,
                           Sends, Armed
<1>10. SignalsKept'
  BY RuntimeAssumption DEF Inv, Typed, Places, Carried, SignalsKept, Ending, OnItsWay, Ends,
                           Sends, Armed
<1>11. RootIsExpected'
  BY RuntimeAssumption DEF Inv, Typed, Places, Entered, RootIsExpected, Ends, Sends, Armed
<1> QED
  BY <1>1, <1>2, <1>3, <1>4, <1>5, <1>6, <1>7, <1>8, <1>9, <1>10, <1>11 DEF Inv

\* A signal to the launcher, and its delivery.
LEMMA SignalInv == ASSUME Inv, NEW signal \in Signals, deliver(signal) \/ signal_launcher(signal) PROVE Inv'
<1> USE DEF deliver, signal_launcher
<1>1. Typed'
  BY RuntimeAssumption DEF Inv, Typed, Places, Causes, Carried, exit_status, Ends, Sends,
                           Armed
<1>2. Flags'
  BY DEF Inv, Flags
<1>3. Places'
  BY RuntimeAssumption DEF Inv, Typed, Places, Causes, Ends, Sends, Armed
<1>4. Causes'
  BY RuntimeAssumption DEF Inv, Typed, Places, Causes, exit_status, Ends, Sends, Armed
<1>5. Carried'
  BY RuntimeAssumption DEF Inv, Typed, Places, Carried, Ends, Sends, Armed
<1>6. Entered'
  BY RuntimeAssumption DEF Inv, Typed, Places, Entered, Ends, Sends, Armed
<1>7. NoOrphan'
  BY RuntimeAssumption DEF Inv, Typed, Places, NoOrphan, Ends, Sends, Armed
<1>8. NothingOutlives'
  BY RuntimeAssumption DEF Inv, Typed, Places, Causes, NothingOutlives, Ends, Sends, Armed
<1>9. StatusReported'
  BY RuntimeAssumption DEF Inv, Typed, Places, Causes, StatusReported, exit_status, Ends,
                           Sends, Armed
<1>10. SignalsKept'
  BY RuntimeAssumption DEF Inv, Typed, Places, Carried, SignalsKept, Ending, OnItsWay, Ends,
                           Sends, Armed
<1>11. RootIsExpected'
  BY RuntimeAssumption DEF Inv, Typed, Places, Entered, RootIsExpected, Ends, Sends, Armed
<1> QED
  BY <1>1, <1>2, <1>3, <1>4, <1>5, <1>6, <1>7, <1>8, <1>9, <1>10, <1>11 DEF Inv

\* What others on the host do.
LEMMA OthersInv == ASSUME Inv, kill_launcher \/ kill_init \/ replace_root PROVE Inv'
<1> USE DEF kill_launcher, kill_init, replace_root
<1>1. Typed'
  BY RuntimeAssumption DEF Inv, Typed, Places, Causes, Carried, exit_status, Ends, Sends,
                           Armed
<1>2. Flags'
  BY DEF Inv, Flags
<1>3. Places'
  BY RuntimeAssumption DEF Inv, Typed, Places, Causes, Ends, Sends, Armed
<1>4. Causes'
  BY RuntimeAssumption DEF Inv, Typed, Places, Causes, exit_status, Ends, Sends, Armed
<1>5. Carried'
  BY RuntimeAssumption DEF Inv, Typed, Places, Carried, Ends, Sends, Armed
<1>6. Entered'
  BY RuntimeAssumption DEF Inv, Typed, Places, Entered, Ends, Sends, Armed
<1>7. NoOrphan'
  BY RuntimeAssumption DEF Inv, Typed, Places, NoOrphan, Ends, Sends, Armed
<1>8. NothingOutlives'
  BY RuntimeAssumption DEF Inv, Typed, Places, Causes, NothingOutlives, Ends, Sends, Armed
<1>9. StatusReported'
  BY RuntimeAssumption DEF Inv, Typed, Places, Causes, StatusReported, exit_status, Ends,
                           Sends, Armed
<1>10. SignalsKept'
  BY RuntimeAssumption DEF Inv, Typed, Places, Carried, SignalsKept, Ending, OnItsWay, Ends,
                           Sends, Armed
<1>11. RootIsExpected'
  BY RuntimeAssumption DEF Inv, Typed, Places, Entered, RootIsExpected, Ends, Sends, Armed
<1> QED
  BY <1>1, <1>2, <1>3, <1>4, <1>5, <1>6, <1>7, <1>8, <1>9, <1>10, <1>11 DEF Inv

LEMMA NextInv == Inv /\ [Next]_vars => Inv'
<1> SUFFICES ASSUME Inv, [Next]_vars PROVE Inv'
  OBVIOUS
<1>1. CASE Runtime
  BY <1>1, MainInv, RunContainerInv, CommandInv, FailInv, SuperviseInv, ChildrenInv DEF Runtime
<1>2. CASE Kernel
  BY <1>2, SignalInv, DeathInv DEF Kernel
<1>3. CASE Environment
  BY <1>3, ChildrenInv, OthersInv, SignalInv DEF Environment
<1>4. CASE UNCHANGED vars
  BY <1>4 DEF vars, Inv, Typed, Flags, Places, Causes, Carried, Entered, NoOrphan,
              NothingOutlives, StatusReported, SignalsKept, RootIsExpected, Ending, OnItsWay,
              exit_status
<1> QED
  BY <1>1, <1>2, <1>3, <1>4 DEF Next

LEMMA InvHolds == Spec => []Inv
BY InitInv, NextInv, PTL DEF Spec

-----------------------------------------------------------------------------
\* Every variable keeps its type: an exit status always fits into a byte, so
\* exit_status never has to wrap, and no count exceeds its bound.
THEOREM TypeCorrect == Spec => []TypeOK
BY InvHolds, InvTypeOK, PTL

\* However the launcher dies, init has been killed or is still ahead of its
\* look at the launcher's pidfd.
THEOREM NobodyIsOrphaned == Spec => []NoOrphan
<1>1. Inv => NoOrphan
  BY DEF Inv
<1> QED
  BY InvHolds, <1>1, PTL

\* When main returns, nothing of the container is left.
THEOREM MainReturnsLast == Spec => []NothingOutlives
<1>1. Inv => NothingOutlives
  BY DEF Inv
<1> QED
  BY InvHolds, <1>1, PTL

\* What main returns is the command's exit status, or tells of a failed setup
\* or of a killed init process.
THEOREM ExitStatusIsTheCommands == Spec => []StatusReported
<1>1. Inv => StatusReported
  BY DEF Inv
<1> QED
  BY InvHolds, <1>1, PTL

\* A signal that the launcher has got is not lost before it is delivered to
\* the command.
THEOREM NoSignalIsLost == Spec => []SignalsKept
<1>1. Inv => SignalsKept
  BY DEF Inv
<1> QED
  BY InvHolds, <1>1, PTL

\* The command runs in the directory that main opened.
THEOREM RootIsTheOpenedOne == Spec => []RootIsExpected
<1>1. Inv => RootIsExpected
  BY DEF Inv
<1> QED
  BY InvHolds, <1>1, PTL
=============================================================================
