-------------------------------- MODULE Spawn --------------------------------
(* Session::new and PtyProcess::spawn, in front of the Lifecycle: the file    *)
(* descriptors of this process and of the child from openpty to exec, and     *)
(* what is reclaimed when a step fails.  Command::spawn, of the standard      *)
(* library, forks, runs the pre_exec closure and execs in the child, and      *)
(* reaps the child itself when one of these fails.                            *)
EXTENDS Lifecycle, Integers, FiniteSets

VARIABLES
    spawn_at,       \* the step of spawn that comes next; "spawned" once new() is
                    \* Ok, "reclaim" while it undoes a spawn, "failed" for an Err
    fds,            \* what each descriptor of this process names
    cloexec,        \* the descriptors with FD_CLOEXEC, here and in the child
    child_fds,      \* what each descriptor of the child names
    master, slave   \* the numbers openpty returned

spawnVars == <<spawn_at, fds, cloexec, child_fds, master, slave>>
allVars == <<vars, spawnVars>>

(* Room for stdin, stdout, stderr and the two ends of the pty. *)
Fd == 0..4
Named(table, name) == {n \in Fd : table[n] = name}
Lowest(numbers) == CHOOSE n \in numbers : \A m \in numbers : n <= m

SpawnTypeOK ==
    /\ TypeOK
    /\ spawn_at \in {"openpty", "cloexec_master", "cloexec_slave", "winsize", "fork",
                     "setsid", "dup2", "close_slave", "close_master", "exec",
                     "nonblocking", "spawned", "reclaim", "failed"}
    /\ fds \in [Fd -> {"none", "std", "master", "slave"}]
    /\ child_fds \in [Fd -> {"none", "std", "master", "slave"}]
    /\ cloexec \subseteq Fd
    /\ master \in Fd \cup {None} /\ slave \in Fd \cup {None}

(* The caller may have closed one of its standard streams: the comment in     *)
(* setup_child_session counts on a slave that is none of them.                *)
SpawnInit ==
    /\ Init
    /\ spawn_at = "openpty"
    /\ \E closed \in SUBSET (0..2) :
          /\ Cardinality(closed) <= 1
          /\ fds = [n \in Fd |-> IF n <= 2 /\ n \notin closed THEN "std" ELSE "none"]
    /\ child_fds = [n \in Fd |-> "none"]
    /\ cloexec = {} /\ master = None /\ slave = None

-----------------------------------------------------------------------------
(* PtyProcess::spawn in this process. *)

Without(table, names) == [n \in Fd |-> IF table[n] \in names THEN "none" ELSE table[n]]

(* `?`: the Files, as far as there are any, are dropped. *)
SpawnFails ==
    /\ spawn_at' = "failed"
    /\ fds' = Without(fds, {"master", "slave"})
    /\ child_fds' = [n \in Fd |-> "none"]
    /\ UNCHANGED <<cloexec, master, slave>>

(* open_pty_pair: openpty takes the lowest numbers that are free and sets no   *)
(* flag.                                                                       *)
OpenPty ==
    /\ spawn_at = "openpty"
    /\ LET m == Lowest(Named(fds, "none"))
           s == Lowest(Named(fds, "none") \ {m})
       IN /\ fds' = [fds EXCEPT ![m] = "master", ![s] = "slave"]
          /\ master' = m /\ slave' = s
    /\ spawn_at' = "cloexec_master"
    /\ UNCHANGED <<cloexec, child_fds>>

SetCloexec ==
    /\ \/ spawn_at = "cloexec_master" /\ cloexec' = cloexec \cup {master} /\ spawn_at' = "cloexec_slave"
       \/ spawn_at = "cloexec_slave" /\ cloexec' = cloexec \cup {slave} /\ spawn_at' = "winsize"
    /\ UNCHANGED <<fds, child_fds, master, slave>>

SetWinsize ==
    /\ spawn_at = "winsize"
    /\ spawn_at' = "fork"
    /\ UNCHANGED <<fds, cloexec, child_fds, master, slave>>

Fork ==
    /\ spawn_at = "fork"
    /\ child_fds' = fds
    /\ spawn_at' = "setsid"
    /\ UNCHANGED <<fds, cloexec, master, slave>>

-----------------------------------------------------------------------------
(* setup_child_session in the child, and exec. *)

(* setsid, then TIOCSCTTY on the slave. *)
Setsid ==
    /\ spawn_at = "setsid" /\ child_fds[slave] = "slave"
    /\ spawn_at' = "dup2"
    /\ UNCHANGED <<fds, cloexec, child_fds, master, slave>>

(* dup2 onto the three standard streams: what was there is closed, and the    *)
(* copies do not carry FD_CLOEXEC.                                            *)
Dup2 ==
    /\ spawn_at = "dup2"
    /\ child_fds' = [n \in Fd |-> IF n <= 2 THEN child_fds[slave] ELSE child_fds[n]]
    /\ cloexec' = cloexec \ (0..2 \ {slave})
    /\ spawn_at' = "close_slave"
    /\ UNCHANGED <<fds, master, slave>>

CloseSlave ==
    /\ spawn_at = "close_slave"
    /\ child_fds' = IF slave > 2 THEN [child_fds EXCEPT ![slave] = "none"] ELSE child_fds
    /\ spawn_at' = "close_master"
    /\ UNCHANGED <<fds, cloexec, master, slave>>

(* Mutant: the number of the master is closed though a stream may be there by *)
(* now.                                                                       *)
CloseMaster_Always ==
    /\ spawn_at = "close_master"
    /\ child_fds' = [child_fds EXCEPT ![master] = "none"]
    /\ spawn_at' = "exec"
    /\ UNCHANGED <<fds, cloexec, master, slave>>

CloseMaster ==
    /\ spawn_at = "close_master"
    /\ child_fds' = IF master > 2 THEN [child_fds EXCEPT ![master] = "none"] ELSE child_fds
    /\ spawn_at' = "exec"
    /\ UNCHANGED <<fds, cloexec, master, slave>>

(* exec closes what has FD_CLOEXEC; Command::spawn returns, and leaving spawn *)
(* drops the slave.                                                           *)
Exec ==
    /\ spawn_at = "exec"
    /\ child_fds' = [n \in Fd |-> IF n \in cloexec THEN "none" ELSE child_fds[n]]
    /\ fds' = Without(fds, {"slave"})
    /\ spawn_at' = "nonblocking"
    /\ UNCHANGED <<cloexec, master, slave>>

-----------------------------------------------------------------------------
(* The rest of Session::new. *)

SetNonblocking ==
    /\ spawn_at = "nonblocking"
    /\ spawn_at' = "spawned"
    /\ UNCHANGED <<fds, cloexec, child_fds, master, slave>>

(* Mutant: the error is returned with `?`, and dropping a std Child neither   *)
(* kills nor reaps it.                                                        *)
Reclaim_OnlyCloses ==
    /\ spawn_at = "nonblocking"
    /\ pty' = "Taken"
    /\ spawn_at' = "failed"
    /\ fds' = Without(fds, {"master"})
    /\ UNCHANGED <<reaped_status, observed, lifecycle_error, phase, exit_status, call,
                   stranger_hit, processVars, cloexec, child_fds, master, slave>>

(* set_nonblocking failed: into_closing, signal_kill, and on to wait_and_reap, *)
(* which is what shutdown does.                                                *)
Reclaim ==
    /\ spawn_at = "nonblocking"
    /\ Shutdown
    /\ spawn_at' = "reclaim"
    /\ fds' = Without(fds, {"master"})
    /\ UNCHANGED <<cloexec, child_fds, master, slave>>

Reclaimed ==
    /\ spawn_at = "reclaim" /\ pty = "Taken"
    /\ spawn_at' = "failed"
    /\ UNCHANGED <<fds, cloexec, child_fds, master, slave>>

SpawnStep ==
    \/ OpenPty \/ SetCloexec \/ SetWinsize \/ Fork
    \/ Setsid \/ Dup2 \/ CloseSlave \/ CloseMaster \/ Exec
    \/ SetNonblocking \/ Reclaimed
    \/ spawn_at \in {"openpty", "cloexec_master", "cloexec_slave", "winsize", "fork",
                     "setsid", "dup2", "exec"} /\ SpawnFails

(* A step of the Lifecycle closes the master when the session lets go of it,  *)
(* and a child that is gone has no descriptors.                               *)
Lives(step) ==
    /\ step
    /\ fds' = IF pty' = "Live" THEN fds ELSE Without(fds, {"master"})
    /\ child_fds' = IF child' = "running" THEN child_fds ELSE [n \in Fd |-> "none"]
    /\ UNCHANGED <<spawn_at, cloexec, master, slave>>

SpawnNext ==
    \/ SpawnStep /\ UNCHANGED vars
    \/ Reclaim
    \/ spawn_at = "spawned" /\ Lives(Next)
    \/ spawn_at = "nonblocking" /\ Lives(ProcessStep)
    \/ spawn_at = "reclaim" /\ Lives(Reaping \/ ProcessStep)

(* new() goes on, and the rest is the fairness of the Lifecycle. *)
SpawnFairness ==
    /\ WF_allVars(SpawnStep /\ UNCHANGED vars)
    /\ WF_allVars(spawn_at = "spawned" /\ Lives(PollsChild))
    /\ WF_allVars(spawn_at \in {"spawned", "reclaim"} /\ Lives(Reaping))
    /\ WF_allVars(spawn_at \in {"spawned", "nonblocking", "reclaim"} /\ Lives(DoomedChildDies))

SpawnSpec == SpawnInit /\ [][SpawnNext]_allVars /\ SpawnFairness

-----------------------------------------------------------------------------
(* Properties. *)

(* Once the child runs, this process holds the master only, so that EOF comes *)
(* with the child's last descriptor, and the child holds the slave on its     *)
(* three standard streams and nothing else of the pty.                        *)
ChildHoldsStdioOnly ==
    spawn_at \in {"nonblocking", "spawned"} =>
        /\ Named(fds, "slave") = {}
        /\ child = "running" => Named(child_fds, "slave") = 0..2 /\ Named(child_fds, "master") = {}

(* "On failure no session is created and any opened PTY fd and child are      *)
(* reclaimed": whichever step fails, no descriptor of the pty stays open on   *)
(* either side.                                                               *)
FailureReclaims ==
    spawn_at = "failed" =>
        /\ Named(fds, "master") \cup Named(fds, "slave") = {}
        /\ CanWait => Named(child_fds, "slave") \cup Named(child_fds, "master") = {}

(* Neither a spawn that fails nor a session that is consumed leaves anything. *)
NothingLeftBehind == FailureReclaims /\ NoZombieLeft
=============================================================================
