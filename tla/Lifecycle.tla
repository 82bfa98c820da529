------------------------------ MODULE Lifecycle ------------------------------
(* The lifecycle of the child behind a Session: PtyProcess, the               *)
(* ClosingPtyProcess that remains after the master is closed, and the Session *)
(* methods that poll, wait for, signal and clean up the child.  A call that   *)
(* makes two system calls or blocks takes two steps, and the child, its group *)
(* and other waiters of the process move in between.  I/O is one event, EOF.  *)
EXTENDS KernelProcess

VARIABLES
    pty,                \* "Live", or the closing state: "Unreaped", "Reaped",
                        \* "OwnershipLost"; "Taken" once the session is consumed
    reaped_status,      \* PtyProcess.reaped_status, then the status of Reaped
    observed,           \* ClosingState::Unreaped.observed
    lifecycle_error,    \* ClosingState::Unreaped.lifecycle_error is Some
    phase, exit_status,
    call,               \* the call in progress between two of its system calls
    stranger_hit        \* a signal was sent to a process group that is not ours

sessionVars == <<pty, reaped_status, observed, lifecycle_error, phase, exit_status, call>>
vars == <<sessionVars, stranger_hit, processVars>>

Option == ExitStatuses \cup {None}

(* Which fields a state of the handle has is part of its type. *)
TypeOK ==
    /\ ProcessTypeOK
    /\ pty \in {"Live", "Unreaped", "Reaped", "OwnershipLost", "Taken"}
    /\ reaped_status \in Option /\ observed \in Option /\ exit_status \in Option
    /\ lifecycle_error \in BOOLEAN /\ stranger_hit \in BOOLEAN
    /\ pty = "Live" => observed = None /\ ~lifecycle_error
    /\ pty = "Unreaped" => reaped_status = None
    /\ pty = "Reaped" => reaped_status # None
    /\ phase \in {"Live", "Eof", "Closing", "Reaped"}
    /\ call \in {"none", "try_wait", "wait", "cleanup"}

Init ==
    /\ ProcessInit
    /\ pty = "Live" /\ reaped_status = None
    /\ observed = None /\ lifecycle_error = FALSE
    /\ phase = "Live" /\ exit_status = None
    /\ call = "none" /\ stranger_hit = FALSE

Idle == call = "none" /\ pty # "Taken"
Closed == phase \in {"Closing", "Reaped"}

(* Session::child_pid is Some. *)
child_pid_known == ~Closed /\ pty = "Live"

-----------------------------------------------------------------------------
(* Session::pump_io reaches note_eof. *)
NoteEof ==
    /\ Idle /\ phase = "Live"
    /\ phase' = IF exit_status # None THEN "Reaped" ELSE "Eof"
    /\ UNCHANGED <<pty, reaped_status, observed, lifecycle_error, exit_status, call,
                   stranger_hit, processVars>>

(* Mutant: closing forgets a status that is already cached. *)
into_closing_Unreaped == IF pty # "Live" THEN pty ELSE "Unreaped"

(* The closing state PtyProcess::into_closing starts in. *)
into_closing ==
    IF pty # "Live" THEN pty ELSE IF reaped_status # None THEN "Reaped" ELSE "Unreaped"

Close ==
    /\ Idle /\ ~Closed
    /\ phase' = "Closing"
    /\ pty' = into_closing
    /\ UNCHANGED <<reaped_status, observed, lifecycle_error, exit_status, call,
                   stranger_hit, processVars>>

-----------------------------------------------------------------------------
(* Session::try_wait. *)

(* Mutant: reaping ends the session even before EOF. *)
RecordExit_EndsIo(status) ==
    /\ exit_status' = status
    /\ phase' = "Reaped"

(* The child's status reaches the session: note_exit with the master open,    *)
(* Reaped at once with the master closed.                                     *)
RecordExit(status) ==
    /\ exit_status' = status
    /\ phase' = IF pty # "Live" \/ phase = "Eof" THEN "Reaped" ELSE phase

(* Mutant: the child of a session at EOF is not polled. *)
TryWaitLive_OnlyLive ==
    /\ Idle /\ exit_status = None /\ pty = "Live" /\ phase = "Live"
    /\ Reaps
    /\ reaped_status' = ended_as
    /\ RecordExit(ended_as)
    /\ UNCHANGED <<pty, observed, lifecycle_error, call, stranger_hit>>

(* PtyProcess::try_wait.  A child that runs gives Ok(None); one that another  *)
(* waiter reaped gives an error, and so may the call for the moment; none of  *)
(* them changes the session.                                                  *)
TryWaitLive ==
    /\ Idle /\ exit_status = None /\ pty = "Live"
    /\ Reaps
    /\ reaped_status' = ended_as
    /\ RecordExit(ended_as)
    /\ UNCHANGED <<pty, observed, lifecycle_error, call, stranger_hit>>

(* ClosingPtyProcess::poll_exit, the first half of try_wait with the master   *)
(* closed.  An exit that is already known leads straight to the reap.         *)
PollExitKnown ==
    /\ Idle /\ exit_status = None
    /\ \/ pty = "Reaped"
       \/ pty = "Unreaped" /\ ~lifecycle_error /\ observed # None
    /\ call' = "try_wait"
    /\ UNCHANGED <<pty, reaped_status, observed, lifecycle_error, phase, exit_status,
                   stranger_hit, processVars>>

Waitid == Idle /\ exit_status = None /\ pty = "Unreaped" /\ ~lifecycle_error /\ observed = None

PollExitObserved ==
    /\ Waitid
    /\ child = "zombie"
    /\ observed' \in IF "Misreports" \in faults THEN ExitStatuses ELSE {ended_as}
    /\ call' = "try_wait"
    /\ UNCHANGED <<pty, reaped_status, lifecycle_error, phase, exit_status,
                   stranger_hit, processVars>>

(* ECHILD. *)
PollExitLost ==
    /\ Waitid
    /\ child = "gone"
    /\ pty' = "OwnershipLost"
    /\ UNCHANGED <<reaped_status, observed, lifecycle_error, phase, exit_status, call,
                   stranger_hit, processVars>>

(* InvalidData, remembered for good. *)
PollExitUnknown ==
    /\ Waitid
    /\ "UnknownSiCode" \in faults /\ child = "zombie"
    /\ lifecycle_error' = TRUE
    /\ UNCHANGED <<pty, reaped_status, observed, phase, exit_status, call,
                   stranger_hit, processVars>>

-----------------------------------------------------------------------------
(* Session::wait, and what blocks in it. *)
BeginWait ==
    /\ Idle /\ exit_status = None
    /\ call' = "wait"
    /\ UNCHANGED <<pty, reaped_status, observed, lifecycle_error, phase, exit_status,
                   stranger_hit, processVars>>

WaitLive ==
    /\ call = "wait" /\ pty = "Live"
    /\ Reaps
    /\ reaped_status' = ended_as
    /\ RecordExit(ended_as)
    /\ call' = "none"
    /\ UNCHANGED <<pty, observed, lifecycle_error, stranger_hit>>

(* PtyProcess::wait fails with ECHILD, or for the moment. *)
WaitLiveFails ==
    /\ call = "wait" /\ pty = "Live"
    /\ child = "gone" \/ "TransientErrors" \in faults
    /\ call' = "none"
    /\ UNCHANGED <<pty, reaped_status, observed, lifecycle_error, phase, exit_status,
                   stranger_hit, processVars>>

(* The call in progress returns, with a status or with an error.  Shutdown    *)
(* and Drop let go of the child either way.                                   *)
ReturnStatus(status) ==
    IF call = "cleanup"
    THEN pty' = "Taken" /\ UNCHANGED <<phase, exit_status>>
    ELSE pty' = "Reaped" /\ RecordExit(status)
ReturnError(state) ==
    /\ pty' = IF call = "cleanup" THEN "Taken" ELSE state
    /\ UNCHANGED <<phase, exit_status>>

(* ClosingPtyProcess::wait_and_reap. *)
ReapCached ==
    /\ call # "none" /\ pty = "Reaped"
    /\ ReturnStatus(reaped_status)
    /\ call' = "none"
    /\ UNCHANGED <<reaped_status, observed, lifecycle_error, stranger_hit, processVars>>

ReapRefused ==
    /\ call # "none"
    /\ pty = "OwnershipLost" \/ (pty = "Unreaped" /\ lifecycle_error)
    /\ ReturnError(pty)
    /\ call' = "none"
    /\ UNCHANGED <<reaped_status, observed, lifecycle_error, stranger_hit, processVars>>

CanReap == call # "none" /\ pty = "Unreaped" /\ ~lifecycle_error

(* Mutant: a mismatch returns to the unreaped state. *)
ReapChild_DropsStatus ==
    /\ CanReap
    /\ Reaps
    /\ IF observed \in {None, ended_as}
       THEN reaped_status' = ended_as /\ ReturnStatus(ended_as)
       ELSE ReturnError("Unreaped") /\ UNCHANGED reaped_status
    /\ call' = "none"
    /\ UNCHANGED <<observed, lifecycle_error, stranger_hit>>

(* Mutant: what waitid said is reported instead of what waitpid said. *)
ReapChild_TrustsObserved ==
    /\ CanReap
    /\ Reaps
    /\ reaped_status' = ended_as
    /\ ReturnStatus(IF observed = None THEN ended_as ELSE observed)
    /\ call' = "none"
    /\ UNCHANGED <<observed, lifecycle_error, stranger_hit>>

(* The status is kept even when it differs from what waitid said and the call *)
(* fails.                                                                     *)
ReapChild ==
    /\ CanReap
    /\ Reaps
    /\ reaped_status' = ended_as
    /\ IF observed \in {None, ended_as} THEN ReturnStatus(ended_as) ELSE ReturnError("Reaped")
    /\ call' = "none"
    /\ UNCHANGED <<observed, lifecycle_error, stranger_hit>>

ReapLost ==
    /\ CanReap
    /\ child = "gone"
    /\ ReturnError("OwnershipLost")
    /\ call' = "none"
    /\ UNCHANGED <<reaped_status, observed, lifecycle_error, stranger_hit, processVars>>

(* Mutant: the placeholder state of wait_and_reap survives an error. *)
ReapFails_Placeholder ==
    /\ CanReap
    /\ "TransientErrors" \in faults
    /\ ReturnError("OwnershipLost")
    /\ call' = "none"
    /\ UNCHANGED <<reaped_status, observed, lifecycle_error, stranger_hit, processVars>>

ReapFails ==
    /\ CanReap
    /\ "TransientErrors" \in faults
    /\ ReturnError("Unreaped")
    /\ call' = "none"
    /\ UNCHANGED <<reaped_status, observed, lifecycle_error, stranger_hit, processVars>>

-----------------------------------------------------------------------------
(* Mutant: a live handle signals whether or not the child was reaped. *)
may_signal_Always == pty \in {"Live", "Unreaped"}

(* signal_group, of PtyProcess and of ClosingPtyProcess: no signal is sent     *)
(* once the child is known to be reaped or lost.  An error of kill goes to the *)
(* caller and changes nothing.                                                 *)
may_signal == (pty = "Live" /\ reaped_status = None) \/ pty = "Unreaped"

signal_group(signal) ==
    IF may_signal
    THEN /\ stranger_hit' = (stranger_hit \/ pid_of = "stranger")
         /\ IF pid_of = "child" THEN Kill(signal) \/ KillRefused ELSE UNCHANGED processVars
    ELSE UNCHANGED <<stranger_hit, processVars>>

Terminate ==
    /\ Idle
    /\ signal_group("SIGTERM")
    /\ UNCHANGED sessionVars

ForceTerminate ==
    /\ Idle
    /\ signal_group("SIGKILL")
    /\ UNCHANGED sessionVars

(* Mutant: the cleanup kills the child and leaves the wait to someone else. *)
Shutdown_KillsOnly ==
    /\ Idle
    /\ pty' = "Taken"
    /\ IF exit_status # None THEN UNCHANGED <<stranger_hit, processVars>> ELSE signal_group("SIGKILL")
    /\ UNCHANGED <<reaped_status, observed, lifecycle_error, phase, exit_status, call>>

(* Mutant: the cleanup asks nicely. *)
Shutdown_Terminates ==
    /\ Idle
    /\ IF exit_status # None
       THEN pty' = "Taken" /\ UNCHANGED <<call, stranger_hit, processVars>>
       ELSE /\ pty' = into_closing
            /\ signal_group("SIGTERM")
            /\ call' = "cleanup"
    /\ UNCHANGED <<reaped_status, observed, lifecycle_error, phase, exit_status>>

(* Session::shutdown and Drop: nothing to do for a child whose status is      *)
(* cached; otherwise close, kill, and go on to wait_and_reap, which blocks,   *)
(* also after a kill that failed.                                             *)
Shutdown ==
    /\ Idle
    /\ IF exit_status # None
       THEN pty' = "Taken" /\ UNCHANGED <<call, stranger_hit, processVars>>
       ELSE /\ pty' = into_closing
            /\ signal_group("SIGKILL")
            /\ call' = "cleanup"
    /\ UNCHANGED <<reaped_status, observed, lifecycle_error, phase, exit_status>>

-----------------------------------------------------------------------------
PollsChild == TryWaitLive \/ PollExitKnown \/ PollExitObserved
Reaping ==
    WaitLive \/ WaitLiveFails \/ ReapCached \/ ReapRefused \/ ReapChild \/ ReapLost \/ ReapFails
ProcessStep ==
    /\ ChildExits \/ GroupEnds \/ PidRecycled \/ ForeignReap
    /\ UNCHANGED <<sessionVars, stranger_hit>>

Next ==
    \/ NoteEof \/ Close
    \/ PollsChild \/ PollExitLost \/ PollExitUnknown
    \/ BeginWait \/ Reaping
    \/ Terminate \/ ForceTerminate \/ Shutdown
    \/ ProcessStep

(* SIGKILL reaches the child and ends it. *)
DoomedChildDies == doomed /\ ChildExits /\ UNCHANGED <<sessionVars, stranger_hit>>

(* The caller polls try_wait, a blocked call returns when it can, and a child *)
(* that SIGKILL reached dies.                                                 *)
Fairness == WF_vars(PollsChild) /\ WF_vars(Reaping) /\ WF_vars(DoomedChildDies)

Spec == Init /\ [][Next]_vars /\ Fairness

-----------------------------------------------------------------------------
(* Properties. *)

(* No signal reaches a process group that is not the session's, although the  *)
(* pid is free to name a stranger the moment the child is reaped, unless      *)
(* another waiter of the process, which PtyProcess rules out, reaped it.      *)
SignalsReachOwnGroup == stranger_hit => foreign

(* An exit status handed to the caller is the child's, and the child is gone. *)
ExitStatusIsTrue == exit_status # None => child = "gone" /\ exit_status = ended_as

(* Whatever way a reap returns, the status it took out of the kernel is kept: *)
(* nobody can wait for the child a second time.                               *)
StatusIsKept ==
    child = "gone" /\ ~foreign /\ pty # "Taken" => reaped_status = ended_as /\ pty \in {"Live", "Reaped"}

(* Ownership is only ever lost to another waiter, not to an error of our own. *)
LostOnlyToForeign == pty = "OwnershipLost" => foreign

(* What the session says of its child can be relied on, whatever failed.      *)
StatusReliable == ExitStatusIsTrue /\ StatusIsKept /\ LostOnlyToForeign

(* Nothing keeps the session from waiting for its child: no error for the      *)
(* moment, and none that wait_and_reap remembers.                              *)
CanWait == faults \cap {"TransientErrors", "UnknownSiCode"} = {}

(* A consumed session leaves no zombie behind. *)
NoZombieLeft == CanWait /\ pty = "Taken" => child = "gone"

(* Session::child_pid never reports a recycled pid. *)
PidNotRecycled == child_pid_known => pid_of # "stranger"

(* status() and exit_status() follow the lifecycle of SessionStatus. *)
Status == INSTANCE SessionStatus WITH status <- phase, exited <- (exit_status # None)
StatusFollowsLifecycle == Status!Spec

(* A child that has exited is reaped, with the master open or closed. *)
ZombieIsReaped == CanWait /\ child = "zombie" ~> child = "gone"

(* The wait of a cleanup is bound to end: kill was permitted to reach the      *)
(* child, did reach it, or the child has ended by itself.                      *)
CanReturn == "KillRefused" \notin faults \/ doomed \/ child # "running"

(* shutdown and Drop return, whatever state they close from and whoever waits *)
(* beside them.  They ignore a refused kill, so then they block for as long   *)
(* as the child runs, and return once it has ended.                           *)
CleanupReturns == call = "cleanup" /\ CanReturn ~> call = "none"
=============================================================================
