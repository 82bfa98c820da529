---------------------------- MODULE KernelProcess ----------------------------
(* The direct child and its process group as the kernel keeps them, modelled  *)
(* from the wait and kill calls pty.rs makes.  A pid stays the child's until  *)
(* somebody waits for the child; after that, and once its process group is    *)
(* empty, the number may name a stranger.                                     *)

CONSTANTS
    None,               \* Option::None
    ExitStatuses,       \* the ways a child can end
    Faults              \* the faults a behaviour may be subject to

(* Other code of the process may wait for the child, waitid or wait may fail   *)
(* for the moment, waitid may report an si_code nobody can classify, or not    *)
(* what waitpid will, and kill may not be permitted to reach the child.        *)
FaultKind == {"ForeignWaiter", "TransientErrors", "UnknownSiCode", "Misreports", "KillRefused"}

ASSUME ProcessAssumption ==
    /\ None \notin ExitStatuses /\ ExitStatuses # {}
    /\ Faults \subseteq FaultKind

VARIABLES
    child,      \* "running", "zombie", or "gone" once it was waited for
    ended_as,   \* how it ended
    group,      \* another process lives on in the child's process group
    doomed,     \* SIGKILL is on its way to the child
    pid_of,     \* who the pid names: "child", "nobody" or "stranger"
    foreign,    \* the child was reaped by someone else
    faults      \* the faults this behaviour is subject to

processVars == <<child, ended_as, group, doomed, pid_of, foreign, faults>>

ProcessTypeOK ==
    /\ child \in {"running", "zombie", "gone"}
    /\ ended_as \in ExitStatuses \cup {None}
    /\ group \in BOOLEAN /\ doomed \in BOOLEAN /\ foreign \in BOOLEAN
    /\ pid_of \in {"child", "nobody", "stranger"}
    /\ faults \subseteq Faults

ProcessInit ==
    /\ child = "running" /\ ended_as = None
    /\ group \in BOOLEAN
    /\ doomed = FALSE /\ pid_of = "child" /\ foreign = FALSE
    /\ faults \in SUBSET Faults

-----------------------------------------------------------------------------
(* What the process group does by itself. *)

ChildExits ==
    /\ child = "running"
    /\ child' = "zombie"
    /\ ended_as' \in ExitStatuses
    /\ UNCHANGED <<group, doomed, pid_of, foreign, faults>>

GroupEnds ==
    /\ group
    /\ group' = FALSE
    /\ UNCHANGED <<child, ended_as, doomed, pid_of, foreign, faults>>

PidRecycled ==
    /\ child = "gone" /\ ~group /\ pid_of # "stranger"
    /\ pid_of' = "stranger"
    /\ UNCHANGED <<child, ended_as, group, doomed, foreign, faults>>

(* Other code of this process waits for the child. *)
ForeignReap ==
    /\ "ForeignWaiter" \in faults
    /\ child = "zombie"
    /\ child' = "gone" /\ foreign' = TRUE
    /\ pid_of' = IF group THEN "child" ELSE "nobody"
    /\ UNCHANGED <<ended_as, group, doomed, faults>>

-----------------------------------------------------------------------------
(* What the calls of pty.rs do to it. *)

(* waitpid finds a zombie. *)
Reaps ==
    /\ child = "zombie"
    /\ child' = "gone"
    /\ pid_of' = IF group THEN "child" ELSE "nobody"
    /\ UNCHANGED <<ended_as, group, doomed, foreign, faults>>

(* kill(-pgid, signal), as far as the child is concerned: SIGKILL dooms a     *)
(* running child, SIGTERM may be ignored, a zombie only takes note.           *)
Kill(signal) ==
    /\ doomed' = (doomed \/ (signal = "SIGKILL" /\ child = "running"))
    /\ UNCHANGED <<child, ended_as, group, pid_of, foreign, faults>>

(* kill(-pgid, signal) for a child that changed its uid: EPERM, or success     *)
(* when the signal reached another member of the group alone.                  *)
KillRefused ==
    /\ "KillRefused" \in faults
    /\ UNCHANGED processVars
=============================================================================
