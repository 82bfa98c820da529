--------------------------- MODULE LifecycleProofs ---------------------------
(* Proofs about Lifecycle, and about Spawn in front of it, for every set of   *)
(* exit statuses and of faults.                                               *)
EXTENDS Spawn, FiniteSetTheorems, TLAPS

(* What the kernel has to say of the child: one that ended has a status, one  *)
(* that somebody else reaped is gone, and its number is free only then.       *)
ChildKnown ==
    /\ child # "running" => ended_as \in ExitStatuses
    /\ foreign => child = "gone"
    /\ pid_of # "child" => child = "gone"

(* The cached status is the child's, and only a gone child has one.           *)
CacheIsTrue == reaped_status # None => child = "gone" /\ reaped_status = ended_as

(* A call in progress is one of a session that does not know the status yet,  *)
(* and the handle is taken only by a call that returned.                      *)
CallsOpen == call # "none" => exit_status = None /\ pty # "Taken"

(* An error that is remembered comes from a fault. *)
ErrorsExplained == lifecycle_error => "UnknownSiCode" \in faults

(* The phase tells the open handle from the closed one, but in a cleanup.     *)
PhaseFollowsHandle ==
    /\ pty \in {"Unreaped", "Reaped", "OwnershipLost"} /\ call # "cleanup" => Closed
    /\ phase = "Closing" => pty # "Live"
    /\ phase = "Reaped" => exit_status # None

Inv ==
    /\ TypeOK /\ ChildKnown /\ CacheIsTrue /\ CallsOpen /\ ErrorsExplained /\ PhaseFollowsHandle
    /\ SignalsReachOwnGroup /\ StatusReliable /\ NoZombieLeft

LEMMA InitInv == Init => Inv
BY ProcessAssumption
   DEF Init, ProcessInit, Inv, TypeOK, ProcessTypeOK, Option, ChildKnown, CacheIsTrue, CallsOpen,
       ErrorsExplained, PhaseFollowsHandle, Closed, SignalsReachOwnGroup, StatusReliable,
       ExitStatusIsTrue, StatusIsKept, LostOnlyToForeign, NoZombieLeft, CanWait

(* A live handle has not seen the child go unless it has its status.          *)
LEMMA LiveKnowsChild ==
    ASSUME Inv, may_signal, child = "gone" PROVE foreign
BY ProcessAssumption
   DEF Inv, TypeOK, ChildKnown, StatusReliable, StatusIsKept, may_signal

LEMMA NoteEofStep == Inv /\ NoteEof => Inv'
BY DEF NoteEof, Idle, Inv, TypeOK, ProcessTypeOK, Option, ChildKnown, CacheIsTrue, CallsOpen,
       ErrorsExplained, PhaseFollowsHandle, Closed, SignalsReachOwnGroup, StatusReliable,
       ExitStatusIsTrue, StatusIsKept, LostOnlyToForeign, NoZombieLeft, CanWait, processVars

LEMMA CloseStep == Inv /\ Close => Inv'
BY ProcessAssumption
   DEF Close, into_closing, Idle, Inv, TypeOK, ProcessTypeOK, Option, ChildKnown, CacheIsTrue,
       CallsOpen, ErrorsExplained, PhaseFollowsHandle, Closed, SignalsReachOwnGroup, StatusReliable,
       ExitStatusIsTrue, StatusIsKept, LostOnlyToForeign, NoZombieLeft, CanWait, processVars

(* Polls of the child. *)
LEMMA TryWaitLiveStep == Inv /\ TryWaitLive => Inv'
BY ProcessAssumption
   DEF TryWaitLive, Reaps, RecordExit,
       Idle, Inv, TypeOK, ProcessTypeOK, Option, ChildKnown, CacheIsTrue,
       CallsOpen, ErrorsExplained, PhaseFollowsHandle, Closed, SignalsReachOwnGroup, StatusReliable,
       ExitStatusIsTrue, StatusIsKept, LostOnlyToForeign, NoZombieLeft, CanWait, processVars

LEMMA PollExitKnownStep == Inv /\ PollExitKnown => Inv'
BY ProcessAssumption
   DEF PollExitKnown,
       Idle, Inv, TypeOK, ProcessTypeOK, Option, ChildKnown, CacheIsTrue,
       CallsOpen, ErrorsExplained, PhaseFollowsHandle, Closed, SignalsReachOwnGroup, StatusReliable,
       ExitStatusIsTrue, StatusIsKept, LostOnlyToForeign, NoZombieLeft, CanWait, processVars

LEMMA PollExitObservedStep == Inv /\ PollExitObserved => Inv'
BY ProcessAssumption
   DEF PollExitObserved, Waitid,
       Idle, Inv, TypeOK, ProcessTypeOK, Option, ChildKnown, CacheIsTrue,
       CallsOpen, ErrorsExplained, PhaseFollowsHandle, Closed, SignalsReachOwnGroup, StatusReliable,
       ExitStatusIsTrue, StatusIsKept, LostOnlyToForeign, NoZombieLeft, CanWait, processVars

LEMMA PollExitLostStep == Inv /\ PollExitLost => Inv'
BY ProcessAssumption
   DEF PollExitLost, Waitid,
       Idle, Inv, TypeOK, ProcessTypeOK, Option, ChildKnown, CacheIsTrue,
       CallsOpen, ErrorsExplained, PhaseFollowsHandle, Closed, SignalsReachOwnGroup, StatusReliable,
       ExitStatusIsTrue, StatusIsKept, LostOnlyToForeign, NoZombieLeft, CanWait, processVars

LEMMA PollExitUnknownStep == Inv /\ PollExitUnknown => Inv'
BY ProcessAssumption
   DEF PollExitUnknown, Waitid,
       Idle, Inv, TypeOK, ProcessTypeOK, Option, ChildKnown, CacheIsTrue,
       CallsOpen, ErrorsExplained, PhaseFollowsHandle, Closed, SignalsReachOwnGroup, StatusReliable,
       ExitStatusIsTrue, StatusIsKept, LostOnlyToForeign, NoZombieLeft, CanWait, processVars

(* What blocks, and what a reap can return. *)
LEMMA BeginWaitStep == Inv /\ BeginWait => Inv'
BY ProcessAssumption
   DEF BeginWait,
       Idle, Inv, TypeOK, ProcessTypeOK, Option, ChildKnown, CacheIsTrue,
       CallsOpen, ErrorsExplained, PhaseFollowsHandle, Closed, SignalsReachOwnGroup, StatusReliable,
       ExitStatusIsTrue, StatusIsKept, LostOnlyToForeign, NoZombieLeft, CanWait, processVars

LEMMA WaitLiveStep == Inv /\ WaitLive => Inv'
BY ProcessAssumption
   DEF WaitLive, Reaps, RecordExit,
       Idle, Inv, TypeOK, ProcessTypeOK, Option, ChildKnown, CacheIsTrue,
       CallsOpen, ErrorsExplained, PhaseFollowsHandle, Closed, SignalsReachOwnGroup, StatusReliable,
       ExitStatusIsTrue, StatusIsKept, LostOnlyToForeign, NoZombieLeft, CanWait, processVars

LEMMA WaitLiveFailsStep == Inv /\ WaitLiveFails => Inv'
BY ProcessAssumption
   DEF WaitLiveFails,
       Idle, Inv, TypeOK, ProcessTypeOK, Option, ChildKnown, CacheIsTrue,
       CallsOpen, ErrorsExplained, PhaseFollowsHandle, Closed, SignalsReachOwnGroup, StatusReliable,
       ExitStatusIsTrue, StatusIsKept, LostOnlyToForeign, NoZombieLeft, CanWait, processVars

LEMMA ReapCachedStep == Inv /\ ReapCached => Inv'
BY ProcessAssumption
   DEF ReapCached, ReturnStatus, RecordExit,
       Idle, Inv, TypeOK, ProcessTypeOK, Option, ChildKnown, CacheIsTrue,
       CallsOpen, ErrorsExplained, PhaseFollowsHandle, Closed, SignalsReachOwnGroup, StatusReliable,
       ExitStatusIsTrue, StatusIsKept, LostOnlyToForeign, NoZombieLeft, CanWait, processVars

LEMMA ReapRefusedStep == Inv /\ ReapRefused => Inv'
BY ProcessAssumption
   DEF ReapRefused, ReturnError,
       Idle, Inv, TypeOK, ProcessTypeOK, Option, ChildKnown, CacheIsTrue,
       CallsOpen, ErrorsExplained, PhaseFollowsHandle, Closed, SignalsReachOwnGroup, StatusReliable,
       ExitStatusIsTrue, StatusIsKept, LostOnlyToForeign, NoZombieLeft, CanWait, processVars

LEMMA ReapChildStep == Inv /\ ReapChild => Inv'
BY ProcessAssumption
   DEF ReapChild, CanReap, Reaps, ReturnStatus, ReturnError, RecordExit,
       Idle, Inv, TypeOK, ProcessTypeOK, Option, ChildKnown, CacheIsTrue,
       CallsOpen, ErrorsExplained, PhaseFollowsHandle, Closed, SignalsReachOwnGroup, StatusReliable,
       ExitStatusIsTrue, StatusIsKept, LostOnlyToForeign, NoZombieLeft, CanWait, processVars

LEMMA ReapLostStep == Inv /\ ReapLost => Inv'
BY ProcessAssumption
   DEF ReapLost, CanReap, ReturnError,
       Idle, Inv, TypeOK, ProcessTypeOK, Option, ChildKnown, CacheIsTrue,
       CallsOpen, ErrorsExplained, PhaseFollowsHandle, Closed, SignalsReachOwnGroup, StatusReliable,
       ExitStatusIsTrue, StatusIsKept, LostOnlyToForeign, NoZombieLeft, CanWait, processVars

LEMMA ReapFailsStep == Inv /\ ReapFails => Inv'
BY ProcessAssumption
   DEF ReapFails, CanReap, ReturnError,
       Idle, Inv, TypeOK, ProcessTypeOK, Option, ChildKnown, CacheIsTrue,
       CallsOpen, ErrorsExplained, PhaseFollowsHandle, Closed, SignalsReachOwnGroup, StatusReliable,
       ExitStatusIsTrue, StatusIsKept, LostOnlyToForeign, NoZombieLeft, CanWait, processVars

(* A signal reaches the session's own group, or another waiter had been there *)
(* first; it moves nothing but the kernel's notice of it.                     *)
LEMMA SignalLemma ==
    ASSUME Inv, NEW signal, signal_group(signal)
    PROVE  /\ UNCHANGED <<child, ended_as, group, pid_of, foreign, faults>>
           /\ doomed' \in BOOLEAN /\ stranger_hit' \in BOOLEAN
           /\ stranger_hit' => foreign
<1>1. CASE may_signal
  <2>1. pid_of = "stranger" => foreign
    BY <1>1, LiveKnowsChild DEF Inv, ChildKnown
  <2> QED
    BY <1>1, <2>1 DEF signal_group, Kill, KillRefused, processVars, Inv, TypeOK, ProcessTypeOK,
       SignalsReachOwnGroup
<1>2. CASE ~may_signal
  BY <1>2 DEF signal_group, processVars, Inv, TypeOK, ProcessTypeOK, SignalsReachOwnGroup
<1> QED
  BY <1>1, <1>2

LEMMA SignalStep == Inv /\ (Terminate \/ ForceTerminate) => Inv'
<1> SUFFICES ASSUME Inv, Terminate \/ ForceTerminate PROVE Inv'
  OBVIOUS
<1>1. /\ UNCHANGED <<child, ended_as, group, pid_of, foreign, faults, sessionVars>>
      /\ doomed' \in BOOLEAN /\ stranger_hit' \in BOOLEAN
      /\ stranger_hit' => foreign
  BY SignalLemma DEF Terminate, ForceTerminate
<1> QED
  BY <1>1 DEF sessionVars, Inv, TypeOK, ProcessTypeOK, Option, ChildKnown, CacheIsTrue,
       CallsOpen, ErrorsExplained, PhaseFollowsHandle, Closed, SignalsReachOwnGroup, StatusReliable,
       ExitStatusIsTrue, StatusIsKept, LostOnlyToForeign, NoZombieLeft, CanWait

LEMMA ShutdownStep == Inv /\ Shutdown => Inv'
<1> SUFFICES ASSUME Inv, Shutdown PROVE Inv'
  OBVIOUS
<1>1. CASE exit_status # None
  BY <1>1 DEF Shutdown,
       Idle, Inv, TypeOK, ProcessTypeOK, Option, ChildKnown, CacheIsTrue,
       CallsOpen, ErrorsExplained, PhaseFollowsHandle, Closed, SignalsReachOwnGroup, StatusReliable,
       ExitStatusIsTrue, StatusIsKept, LostOnlyToForeign, NoZombieLeft, CanWait, processVars
<1>2. CASE exit_status = None
  <2>1. /\ UNCHANGED <<child, ended_as, group, pid_of, foreign, faults>>
        /\ doomed' \in BOOLEAN /\ stranger_hit' \in BOOLEAN
        /\ stranger_hit' => foreign
    BY <1>2, SignalLemma DEF Shutdown
  <2> QED
    BY <1>2, <2>1, ProcessAssumption DEF Shutdown, into_closing,
       Idle, Inv, TypeOK, ProcessTypeOK, Option, ChildKnown, CacheIsTrue,
       CallsOpen, ErrorsExplained, PhaseFollowsHandle, Closed, SignalsReachOwnGroup, StatusReliable,
       ExitStatusIsTrue, StatusIsKept, LostOnlyToForeign, NoZombieLeft, CanWait
<1> QED
  BY <1>1, <1>2

(* The kernel's side.  Nobody has the status of a child that is not gone.     *)
LEMMA ProcessStepStep == Inv /\ ProcessStep => Inv'
<1> SUFFICES ASSUME Inv, ProcessStep PROVE Inv'
  OBVIOUS
<1>1. UNCHANGED <<sessionVars, stranger_hit>>
  BY DEF ProcessStep
<1>2. CASE ChildExits
  BY <1>1, <1>2, ProcessAssumption DEF ChildExits, sessionVars,
       Inv, TypeOK, ProcessTypeOK, Option, ChildKnown, CacheIsTrue,
       CallsOpen, ErrorsExplained, PhaseFollowsHandle, Closed, SignalsReachOwnGroup, StatusReliable,
       ExitStatusIsTrue, StatusIsKept, LostOnlyToForeign, NoZombieLeft, CanWait
<1>3. CASE GroupEnds
  <2>1. /\ UNCHANGED <<child, ended_as, doomed, pid_of, foreign, faults, sessionVars, stranger_hit>>
        /\ group' \in BOOLEAN
    BY <1>1, <1>3 DEF GroupEnds
  <2> QED
    BY <2>1 DEF sessionVars,
       Inv, TypeOK, ProcessTypeOK, Option, ChildKnown, CacheIsTrue,
       CallsOpen, ErrorsExplained, PhaseFollowsHandle, Closed, SignalsReachOwnGroup, StatusReliable,
       ExitStatusIsTrue, StatusIsKept, LostOnlyToForeign, NoZombieLeft, CanWait
<1>4. CASE PidRecycled
  BY <1>1, <1>4 DEF PidRecycled, sessionVars,
       Inv, TypeOK, ProcessTypeOK, Option, ChildKnown, CacheIsTrue,
       CallsOpen, ErrorsExplained, PhaseFollowsHandle, Closed, SignalsReachOwnGroup, StatusReliable,
       ExitStatusIsTrue, StatusIsKept, LostOnlyToForeign, NoZombieLeft, CanWait
<1>5. CASE ForeignReap
  BY <1>1, <1>5 DEF ForeignReap, sessionVars,
       Inv, TypeOK, ProcessTypeOK, Option, ChildKnown, CacheIsTrue,
       CallsOpen, ErrorsExplained, PhaseFollowsHandle, Closed, SignalsReachOwnGroup, StatusReliable,
       ExitStatusIsTrue, StatusIsKept, LostOnlyToForeign, NoZombieLeft, CanWait
<1> QED
  BY <1>2, <1>3, <1>4, <1>5 DEF ProcessStep

LEMMA StutterStep == Inv /\ UNCHANGED vars => Inv'
BY DEF vars, sessionVars, processVars, Inv, TypeOK, ProcessTypeOK, Option, ChildKnown, CacheIsTrue,
       CallsOpen, ErrorsExplained, PhaseFollowsHandle, Closed, SignalsReachOwnGroup, StatusReliable,
       ExitStatusIsTrue, StatusIsKept, LostOnlyToForeign, NoZombieLeft, CanWait

LEMMA NextInv == Inv /\ [Next]_vars => Inv'
BY NoteEofStep, CloseStep, TryWaitLiveStep, PollExitKnownStep, PollExitObservedStep,
   PollExitLostStep, PollExitUnknownStep, BeginWaitStep, WaitLiveStep, WaitLiveFailsStep,
   ReapCachedStep, ReapRefusedStep, ReapChildStep, ReapLostStep, ReapFailsStep, SignalStep,
   ShutdownStep, ProcessStepStep, StutterStep
   DEF Next, PollsChild, Reaping

-----------------------------------------------------------------------------
(* A spawn only delays the lifecycle: whatever it does with descriptors, the   *)
(* child's life begins in an initial state, and every step before, during and *)
(* after the spawn is one of Lifecycle or leaves it alone.  In particular     *)
(* what reclaims the child of a failed spawn is the cleanup of a session.     *)
THEOREM SpawnStepsAreLifecycleSteps ==
    /\ SpawnInit => Init
    /\ [SpawnNext]_allVars => [Next]_vars
<1>1. SpawnInit => Init
  BY DEF SpawnInit
<1>2. SpawnNext => [Next]_vars
  <2>1. Reclaim => Next
    BY DEF Reclaim, Next
  <2>2. \A step \in BOOLEAN : Lives(step) => step
    BY DEF Lives
  <2> QED
    BY <2>1, <2>2 DEF SpawnNext, Lives, Next
<1>3. UNCHANGED allVars => UNCHANGED vars
  BY DEF allVars
<1> QED
  BY <1>1, <1>2, <1>3

LEMMA InvHolds == SpawnSpec => []Inv
<1>1. SpawnInit => Inv
  BY InitInv, SpawnStepsAreLifecycleSteps
<1>2. Inv /\ [SpawnNext]_allVars => Inv'
  BY NextInv, SpawnStepsAreLifecycleSteps
<1> QED
  BY <1>1, <1>2, PTL DEF SpawnSpec

(* Neither terminate, force_terminate, shutdown nor Drop signals a process    *)
(* group that is not the session's, unless another waiter reaped its child,   *)
(* whatever fails in between.                                                 *)
THEOREM NoStrangerIsSignalled == SpawnSpec => []SignalsReachOwnGroup
<1>1. Inv => SignalsReachOwnGroup
  BY DEF Inv
<1> QED
  BY <1>1, InvHolds, PTL

(* The status a session reports is the child's, none that was taken out of    *)
(* the kernel is dropped, and a child is given up only to another waiter.     *)
THEOREM StatusesAreKept == SpawnSpec => []StatusReliable
<1>1. Inv => StatusReliable
  BY DEF Inv
<1> QED
  BY <1>1, InvHolds, PTL

-----------------------------------------------------------------------------
(* The refinement: what status() and exit_status() show of every step.        *)

LEMMA EofAndCloseRefine ==
    Inv /\ (NoteEof \/ Close) => [Status!Next]_(Status!svars)
BY DEF NoteEof, Close, Closed, Idle, Inv, TypeOK, Status!Next, Status!svars, Status!IoEnds,
       Status!Close

(* The steps that may hand a status out. *)
LEMMA StatusStepsRefine ==
    Inv /\ (TryWaitLive \/ WaitLive \/ ReapCached \/ ReapChild) => [Status!Next]_(Status!svars)
<1> SUFFICES ASSUME Inv, TryWaitLive \/ WaitLive \/ ReapCached \/ ReapChild
             PROVE  [Status!Next]_(Status!svars)
  OBVIOUS
<1>1. CASE TryWaitLive
  BY <1>1, ProcessAssumption DEF TryWaitLive, Idle, Reaps, RecordExit, Inv, TypeOK, ProcessTypeOK,
       Option, ChildKnown, PhaseFollowsHandle, Closed, Status!Next, Status!svars, Status!ChildReaped
<1>2. CASE WaitLive
  BY <1>2, ProcessAssumption DEF WaitLive, Reaps, RecordExit, Inv, TypeOK, ProcessTypeOK,
       Option, ChildKnown, CallsOpen, PhaseFollowsHandle, Closed,
       Status!Next, Status!svars, Status!ChildReaped
<1>3. CASE ReapCached
  BY <1>3, ProcessAssumption DEF ReapCached, ReturnStatus, RecordExit, Inv, TypeOK, ProcessTypeOK,
       Option, ChildKnown, CallsOpen, PhaseFollowsHandle, Closed,
       Status!Next, Status!svars, Status!ChildReaped
<1>4. CASE ReapChild
  BY <1>4, ProcessAssumption DEF ReapChild, CanReap, Reaps, ReturnStatus, ReturnError, RecordExit,
       Inv, TypeOK, ProcessTypeOK, Option, ChildKnown, CallsOpen, PhaseFollowsHandle, Closed,
       Status!Next, Status!svars, Status!ChildReaped
<1> QED
  BY <1>1, <1>2, <1>3, <1>4

(* Every other step leaves what the caller sees alone. *)
LEMMA OtherStepsStutter ==
    \/ PollExitKnown \/ PollExitObserved \/ PollExitLost \/ PollExitUnknown
    \/ BeginWait \/ WaitLiveFails \/ ReapRefused \/ ReapLost \/ ReapFails
    \/ Terminate \/ ForceTerminate \/ Shutdown \/ ProcessStep \/ UNCHANGED vars
    => UNCHANGED Status!svars
BY DEF PollExitKnown, PollExitObserved, PollExitLost, PollExitUnknown,
       BeginWait, WaitLiveFails, ReapRefused, ReapLost, ReapFails, ReturnError,
       Terminate, ForceTerminate, Shutdown, ProcessStep, vars, sessionVars, Status!svars

(* status() and exit_status() are the two facts of SessionStatus, met in      *)
(* either order and never taken back, whichever calls and errors produce      *)
(* them: a session over a spawn that failed included.                         *)
THEOREM LifecycleImplementsStatus == SpawnSpec => StatusFollowsLifecycle
<1>1. SpawnInit => Status!Init
  BY DEF SpawnInit, Init, Status!Init
<1>2. Inv /\ [Next]_vars => [Status!Next]_(Status!svars)
  BY EofAndCloseRefine, StatusStepsRefine, OtherStepsStutter DEF Next, PollsChild, Reaping
<1>3. Inv /\ [SpawnNext]_allVars => [Status!Next]_(Status!svars)
  BY <1>2, SpawnStepsAreLifecycleSteps
<1> QED
  BY <1>1, <1>3, InvHolds, PTL DEF SpawnSpec, StatusFollowsLifecycle, Status!Spec

-----------------------------------------------------------------------------
(* What a failed spawn leaves behind.                                         *)

AllClosed == [n \in Fd |-> "none"]

(* The child lives until it runs its program; from then on this process has   *)
(* no slave, a child that ended has nothing, and a spawn that is undone has    *)
(* given up the master as well.                                               *)
SpawnInv ==
    /\ spawn_at \in {"openpty", "cloexec_master", "cloexec_slave", "winsize", "fork",
                      "setsid", "dup2", "close_slave", "close_master", "exec"} => child = "running"
    /\ spawn_at \in {"nonblocking", "spawned", "reclaim"} =>
          /\ Named(fds, "slave") = {}
          /\ child # "running" => child_fds = AllClosed
    /\ spawn_at = "reclaim" => Named(fds, "master") = {}
    /\ FailureReclaims

LEMMA WithoutLemma ==
    ASSUME NEW names, NEW name \in names, name # "none"
    PROVE  Named(Without(fds, names), name) = {}
BY DEF Named, Without

(* Closing a descriptor opens none. *)
LEMMA WithoutShrinks ==
    ASSUME NEW names, NEW name, name # "none", Named(fds, name) = {}
    PROVE  Named(Without(fds, names), name) = {}
BY DEF Named, Without

LEMMA AllClosedLemma ==
    ASSUME NEW name, name # "none" PROVE Named(AllClosed, name) = {}
BY DEF Named, AllClosed

LEMMA SpawnStepInv == SpawnInv /\ SpawnStep /\ UNCHANGED vars /\ Inv => SpawnInv'
<1> SUFFICES ASSUME SpawnInv, SpawnStep, UNCHANGED vars, Inv PROVE SpawnInv'
  OBVIOUS
<1> USE DEF vars, sessionVars, processVars
<1>1. CASE OpenPty \/ SetCloexec \/ SetWinsize \/ Fork \/ Setsid \/ Dup2 \/ CloseSlave \/ CloseMaster
  BY <1>1 DEF OpenPty, SetCloexec, SetWinsize, Fork, Setsid, Dup2, CloseSlave, CloseMaster,
       SpawnInv, FailureReclaims
<1>2. CASE Exec
  <2>1. Named(fds', "slave") = {}
    BY <1>2, WithoutLemma DEF Exec
  <2> QED
    BY <1>2, <2>1 DEF Exec, SpawnInv, FailureReclaims, Named
<1>3. CASE SetNonblocking
  BY <1>3 DEF SetNonblocking, SpawnInv, FailureReclaims
<1>4. CASE Reclaimed
  <2>1. CanWait => child = "gone"
    BY <1>4 DEF Reclaimed, Inv, NoZombieLeft
  <2>2. CanWait => Named(child_fds, "slave") = {} /\ Named(child_fds, "master") = {}
    BY <1>4, <2>1, AllClosedLemma DEF Reclaimed, SpawnInv
  <2>3. Named(fds, "slave") = {} /\ Named(fds, "master") = {}
    BY <1>4 DEF Reclaimed, SpawnInv
  <2> QED
    BY <1>4, <2>2, <2>3 DEF Reclaimed, SpawnInv, FailureReclaims, Named, CanWait
<1>5. CASE SpawnFails
  <2>1. Named(fds', "slave") = {} /\ Named(fds', "master") = {}
    BY <1>5, WithoutLemma DEF SpawnFails
  <2>2. Named(child_fds', "slave") = {} /\ Named(child_fds', "master") = {}
    BY <1>5, AllClosedLemma DEF SpawnFails, AllClosed
  <2> QED
    BY <1>5, <2>1, <2>2 DEF SpawnFails, SpawnInv, FailureReclaims, Named, CanWait
<1> QED
  BY <1>1, <1>2, <1>3, <1>4, <1>5 DEF SpawnStep

(* Undoing a spawn kills a child that runs and closes the master. *)
LEMMA ReclaimInv == SpawnInv /\ Inv /\ Reclaim => SpawnInv'
<1> SUFFICES ASSUME SpawnInv, Inv, Reclaim PROVE SpawnInv'
  OBVIOUS
<1>1. child' = child
  <2>1. CASE exit_status # None
    BY <2>1 DEF Reclaim, Shutdown, processVars
  <2>2. CASE exit_status = None
    BY <2>2, SignalLemma DEF Reclaim, Shutdown
  <2> QED
    BY <2>1, <2>2
<1>2. Named(fds', "master") = {} /\ Named(fds', "slave") = {}
  BY WithoutLemma, WithoutShrinks DEF Reclaim, SpawnInv
<1> QED
  BY <1>1, <1>2 DEF Reclaim, SpawnInv, FailureReclaims, Named

(* A step of the lifecycle behind the spawn. *)
LEMMA LivesInv ==
    ASSUME SpawnInv, spawn_at \in {"nonblocking", "spawned", "reclaim"}, NEW step, Lives(step)
    PROVE  SpawnInv'
<1>1. Named(fds', "slave") = {}
  BY WithoutShrinks DEF Lives, SpawnInv
<1>2. spawn_at = "reclaim" => Named(fds', "master") = {}
  BY WithoutShrinks DEF Lives, SpawnInv
<1>3. child' # "running" => child_fds' = AllClosed
  BY DEF Lives, AllClosed
<1> QED
  BY <1>1, <1>2, <1>3 DEF Lives, SpawnInv, FailureReclaims, Named

(* Whichever step of a spawn fails, no descriptor of the pty stays open in    *)
(* this process, nor in a child it could wait for; and a session that is      *)
(* consumed has reaped its child if it could.                                 *)
THEOREM NothingStaysBehind == SpawnSpec => []NothingLeftBehind
<1>1. SpawnInit => SpawnInv
  BY DEF SpawnInit, Init, ProcessInit, SpawnInv, FailureReclaims
<1>2. SpawnInv /\ Inv /\ [SpawnNext]_allVars => SpawnInv'
  <2>1. SpawnInv /\ UNCHANGED allVars => SpawnInv'
    BY DEF SpawnInv, FailureReclaims, Named, CanWait, AllClosed, allVars, spawnVars, vars,
         sessionVars, processVars
  <2> QED
    BY <2>1, SpawnStepInv, ReclaimInv, LivesInv DEF SpawnNext
<1>3. SpawnInv /\ Inv => NothingLeftBehind
  BY DEF SpawnInv, Inv, NothingLeftBehind
<1> QED
  BY <1>1, <1>2, <1>3, InvHolds, PTL DEF SpawnSpec

-----------------------------------------------------------------------------
(* The descriptors of a spawn.                                                *)

Table == [Fd -> {"none", "std", "master", "slave"}]

(* openpty has the two highest descriptors to give, and one more at most.     *)
RoomForPty ==
    /\ fds[3] = "none" /\ fds[4] = "none"
    /\ \A n \in Fd : fds[n] \in {"none", "std"}
    /\ \A m, n \in 0..2 : fds[m] = "none" /\ fds[n] = "none" => m = n

(* The slave is none of the standard streams; the master may be one.          *)
PtyOpen ==
    /\ master \in Fd /\ slave \in {3, 4} /\ master # slave
    /\ \A n \in Fd : /\ fds[n] = "master" <=> n = master
                     /\ fds[n] = "slave" <=> n = slave

(* From the three dup2 to exec: the streams survive the exec, and what else   *)
(* the child still has of the pty does not.                                   *)
ChildPrepared ==
    /\ 0..2 \cap cloexec = {} /\ {master, slave} \ (0..2) \subseteq cloexec
    /\ \A n \in 0..2 : child_fds[n] = "slave"
    /\ \A n \in {3, 4} : /\ child_fds[n] = "master" => n = master
                         /\ child_fds[n] = "slave" => n = slave

FdInv ==
    /\ spawn_at \in {"openpty", "cloexec_master", "cloexec_slave", "winsize", "fork",
                      "setsid", "dup2", "close_slave", "close_master", "exec",
                      "nonblocking", "spawned", "reclaim", "failed"}
    /\ fds \in Table /\ child_fds \in Table /\ cloexec \subseteq Fd
    /\ master \in Fd \cup {None} /\ slave \in Fd \cup {None}
    /\ spawn_at = "openpty" => RoomForPty
    /\ spawn_at \in {"cloexec_master", "cloexec_slave", "winsize", "fork", "setsid", "dup2",
                      "close_slave", "close_master", "exec"} => PtyOpen
    /\ spawn_at = "cloexec_slave" => master \in cloexec
    /\ spawn_at \in {"winsize", "fork", "setsid", "dup2"} => {master, slave} \subseteq cloexec
    /\ spawn_at \in {"setsid", "dup2"} => child_fds = fds
    /\ spawn_at \in {"close_slave", "close_master", "exec"} => ChildPrepared
    /\ ChildHoldsStdioOnly

LEMMA LowestLemma ==
    ASSUME NEW S \in SUBSET Fd, S # {}
    PROVE  Lowest(S) \in S /\ \A m \in S : Lowest(S) <= m
<1>1. \E n \in S : \A m \in S : n <= m
  <2>1. CASE 0 \in S
    BY <2>1 DEF Fd
  <2>2. CASE 0 \notin S /\ 1 \in S
    <3>1. \A m \in S : 1 <= m
      BY <2>2 DEF Fd
    <3> QED
      BY <2>2, <3>1
  <2>3. CASE 0 \notin S /\ 1 \notin S /\ 2 \in S
    <3>1. \A m \in S : 2 <= m
      BY <2>3 DEF Fd
    <3> QED
      BY <2>3, <3>1
  <2>4. CASE S \subseteq {3, 4}
    <3>1. CASE 3 \in S
      <4>1. \A m \in S : 3 <= m
        BY <2>4
      <4> QED
        BY <3>1, <4>1
    <3>2. CASE 3 \notin S
      <4>1. S = {4}
        BY <2>4, <3>2
      <4> QED
        BY <4>1
    <3> QED
      BY <3>1, <3>2
  <2> QED
    BY <2>1, <2>2, <2>3, <2>4 DEF Fd
<1> QED
  BY <1>1 DEF Lowest

(* At most one standard stream is closed at the start. *)
LEMMA FdInit == SpawnInit => FdInv
<1> SUFFICES ASSUME SpawnInit PROVE FdInv
  OBVIOUS
<1>1. PICK closed \in SUBSET (0..2) :
        /\ Cardinality(closed) <= 1
        /\ fds = [n \in Fd |-> IF n <= 2 /\ n \notin closed THEN "std" ELSE "none"]
  BY DEF SpawnInit
<1>2. \A m, n \in closed : m = n
  <2> SUFFICES ASSUME NEW m \in closed, NEW n \in closed, m # n PROVE FALSE
    OBVIOUS
  <2>1. IsFiniteSet(closed)
    <3>1. IsFiniteSet(0..2)
      <4>1. 0 \in Int /\ 2 \in Int
        OBVIOUS
      <4> QED
        BY <4>1, FS_Interval
    <3> QED
      BY <3>1, FS_Subset
  <2>2. IsFiniteSet({m} \cup {n}) /\ Cardinality({m} \cup {n}) = 2
    <3>1. IsFiniteSet({m}) /\ Cardinality({m}) = 1 /\ n \notin {m}
      BY FS_Singleton
    <3>2. /\ IsFiniteSet({m} \cup {n})
          /\ Cardinality({m} \cup {n}) = IF n \in {m} THEN Cardinality({m}) ELSE Cardinality({m}) + 1
      BY <3>1, FS_AddElement
    <3> QED
      BY <3>1, <3>2
  <2>3. Cardinality({m} \cup {n}) <= Cardinality(closed)
    BY <2>1, FS_Subset
  <2>4. Cardinality(closed) \in Nat
    BY <2>1, FS_CardinalityType
  <2> QED
    BY <1>1, <2>2, <2>3, <2>4
<1>3. RoomForPty
  BY <1>1, <1>2 DEF RoomForPty, Fd
<1>4. fds \in Table /\ child_fds \in Table /\ cloexec \subseteq Fd
  BY <1>1 DEF SpawnInit, Table
<1> QED
  BY <1>3, <1>4 DEF SpawnInit, FdInv, ChildHoldsStdioOnly

(* openpty: the second number it takes is beyond the standard streams. *)
LEMMA OpenPtyFds == FdInv /\ OpenPty => FdInv'
<1> SUFFICES ASSUME FdInv, OpenPty PROVE FdInv'
  OBVIOUS
<1> DEFINE free == Named(fds, "none")
           m == Lowest(free)
           s == Lowest(free \ {m})
<1>1. RoomForPty /\ fds \in Table
  BY DEF FdInv, OpenPty
<1>2. free \in SUBSET Fd /\ 3 \in free /\ 4 \in free
  BY <1>1 DEF Named, RoomForPty, Fd
<1> HIDE DEF free
<1>3. m \in free /\ \A n \in free : m <= n
  BY <1>2, LowestLemma
<1> HIDE DEF m
<1>4. s \in free \ {m}
  <2>1. free \ {m} # {} /\ free \ {m} \in SUBSET Fd
    BY <1>2
  <2> QED
    BY <2>1, LowestLemma
<1> HIDE DEF s
<1>5. s \in {3, 4}
  <2>1. \A a, b \in 0..2 : a \in free /\ b \in free => a = b
    BY <1>1 DEF RoomForPty, free, Named
  <2> QED
    BY <1>2, <1>3, <1>4, <2>1 DEF Fd
<1>6. /\ fds' = [fds EXCEPT ![m] = "master", ![s] = "slave"]
      /\ master' = m /\ slave' = s /\ spawn_at' = "cloexec_master"
      /\ UNCHANGED <<cloexec, child_fds>>
  BY DEF OpenPty, m, s, free
<1>7. PtyOpen'
  BY <1>1, <1>2, <1>3, <1>4, <1>5, <1>6 DEF PtyOpen, RoomForPty, Table
<1>8. fds' \in Table /\ master' \in Fd /\ slave' \in Fd
  BY <1>1, <1>2, <1>3, <1>4, <1>6 DEF Table
<1> QED
  BY <1>6, <1>7, <1>8 DEF FdInv, ChildHoldsStdioOnly

LEMMA SpawnStepFds == FdInv /\ SpawnStep /\ UNCHANGED vars => FdInv'
<1> SUFFICES ASSUME FdInv, SpawnStep, UNCHANGED vars PROVE FdInv'
  OBVIOUS
<1>1. CASE SetCloexec
  <2>1. PtyOpen /\ UNCHANGED <<fds, child_fds, master, slave>> /\ cloexec \subseteq Fd
    BY <1>1 DEF SetCloexec, FdInv
  <2>2. PtyOpen' /\ cloexec' \subseteq Fd
    <3>1. PtyOpen'
      BY <2>1 DEF PtyOpen
    <3>2. master \in Fd /\ slave \in Fd
      BY <2>1 DEF PtyOpen, Fd
    <3> QED
      BY <1>1, <2>1, <3>1, <3>2 DEF SetCloexec
  <2>3. \/ spawn_at' = "cloexec_slave" /\ master' \in cloexec'
        \/ spawn_at' = "winsize" /\ {master', slave'} \subseteq cloexec'
    BY <1>1, <2>1 DEF SetCloexec, FdInv
  <2> QED
    BY <2>1, <2>2, <2>3 DEF FdInv, ChildHoldsStdioOnly
<1>2. CASE SetWinsize \/ Fork \/ Setsid
  BY <1>2 DEF SetWinsize, Fork, Setsid, FdInv, PtyOpen, ChildHoldsStdioOnly
<1>3. CASE Dup2
  <2>1. /\ PtyOpen /\ child_fds = fds /\ {master, slave} \subseteq cloexec /\ cloexec \subseteq Fd
        /\ child_fds \in Table
    BY <1>3 DEF Dup2, FdInv
  <2>2. /\ child_fds' = [n \in Fd |-> IF n <= 2 THEN child_fds[slave] ELSE child_fds[n]]
        /\ cloexec' = cloexec \ (0..2 \ {slave}) /\ UNCHANGED <<fds, master, slave>>
    BY <1>3 DEF Dup2
  <2>3. ChildPrepared'
    BY <2>1, <2>2 DEF PtyOpen, ChildPrepared, Fd
  <2>4. child_fds' \in Table /\ cloexec' \subseteq Fd /\ PtyOpen'
    BY <2>1, <2>2 DEF Table, PtyOpen, Fd
  <2> QED
    BY <1>3, <2>3, <2>4 DEF Dup2, FdInv, ChildHoldsStdioOnly
<1>4. CASE CloseSlave \/ CloseMaster
  <2>1. /\ PtyOpen /\ ChildPrepared /\ child_fds \in Table
        /\ UNCHANGED <<fds, cloexec, master, slave>>
    BY <1>4 DEF CloseSlave, CloseMaster, FdInv
  <2>2. \/ child_fds' = child_fds
        \/ \E n \in {3, 4} : child_fds' = [child_fds EXCEPT ![n] = "none"]
    BY <1>4, <2>1 DEF CloseSlave, CloseMaster, PtyOpen, Fd
  <2>3. ChildPrepared' /\ PtyOpen' /\ child_fds' \in Table
    BY <2>1, <2>2 DEF ChildPrepared, PtyOpen, Table, Fd
  <2> QED
    BY <1>4, <2>1, <2>3 DEF CloseSlave, CloseMaster, FdInv, ChildHoldsStdioOnly
<1>5. CASE Exec
  <2>1. /\ PtyOpen /\ ChildPrepared /\ child_fds \in Table /\ fds \in Table
        /\ child_fds' = [n \in Fd |-> IF n \in cloexec THEN "none" ELSE child_fds[n]]
        /\ fds' = Without(fds, {"slave"})
    BY <1>5 DEF Exec, FdInv
  <2>2. Named(fds', "slave") = {}
    BY <2>1, WithoutLemma
  <2>3. Named(child_fds', "slave") = 0..2 /\ Named(child_fds', "master") = {}
    BY <2>1 DEF Named, PtyOpen, ChildPrepared, Fd
  <2>4. fds' \in Table /\ child_fds' \in Table
    BY <2>1 DEF Table, Without
  <2> QED
    BY <1>5, <2>2, <2>3, <2>4 DEF Exec, FdInv, ChildHoldsStdioOnly
<1>6. CASE SetNonblocking \/ Reclaimed
  <2>1. /\ spawn_at' = "failed" \/ (spawn_at = "nonblocking" /\ spawn_at' = "spawned")
        /\ UNCHANGED <<fds, cloexec, child_fds, master, slave>> /\ child' = child
    BY <1>6 DEF SetNonblocking, Reclaimed, vars, processVars
  <2>2. Named(fds', "slave") = Named(fds, "slave") /\ Named(child_fds', "slave") = Named(child_fds, "slave")
        /\ Named(child_fds', "master") = Named(child_fds, "master")
    BY <2>1
  <2> QED
    BY <2>1, <2>2 DEF FdInv, ChildHoldsStdioOnly
<1>7. CASE SpawnFails
  BY <1>7 DEF SpawnFails, Without, Table, FdInv, ChildHoldsStdioOnly
<1> QED
  BY <1>1, <1>2, <1>3, <1>4, <1>5, <1>6, <1>7, OpenPtyFds DEF SpawnStep

(* A child that ended does not come back. *)
LEMMA NoneRevives == [Next]_vars /\ child' = "running" => child = "running"
<1> SUFFICES ASSUME [Next]_vars, child' = "running" PROVE child = "running"
  OBVIOUS
<1>1. CASE ProcessStep
  BY <1>1 DEF ProcessStep, ChildExits, GroupEnds, PidRecycled, ForeignReap
<1>2. CASE Reaping \/ PollsChild
  BY <1>2 DEF Reaping, PollsChild, WaitLive, WaitLiveFails, ReapCached, ReapRefused, ReapChild,
       ReapLost, ReapFails, TryWaitLive, PollExitKnown, PollExitObserved, Reaps, processVars
<1>3. CASE Terminate \/ ForceTerminate \/ Shutdown
  BY <1>3 DEF Terminate, ForceTerminate, Shutdown, signal_group, Kill, KillRefused, processVars
<1>4. CASE NoteEof \/ Close \/ PollExitLost \/ PollExitUnknown \/ BeginWait \/ UNCHANGED vars
  BY <1>4 DEF NoteEof, Close, PollExitLost, PollExitUnknown, BeginWait, vars, processVars
<1> QED
  BY <1>1, <1>2, <1>3, <1>4 DEF Next

(* What the lifecycle does behind a spawn closes descriptors only. *)
LEMMA LivesFds ==
    ASSUME FdInv, spawn_at \in {"nonblocking", "spawned", "reclaim"}, NEW step, Lives(step),
           child' = "running" => child = "running"
    PROVE  FdInv'
<1>1. /\ fds' = fds \/ fds' = Without(fds, {"master"})
      /\ child_fds' = IF child' = "running" THEN child_fds ELSE AllClosed
      /\ UNCHANGED <<spawn_at, cloexec, master, slave>>
  BY DEF Lives, AllClosed
<1>2. fds' \in Table /\ child_fds' \in Table
  BY <1>1 DEF FdInv, Table, Without, AllClosed
<1>3. Named(fds, "slave") = {} => Named(fds', "slave") = {}
  BY <1>1, WithoutShrinks
<1>4. child' = "running" => Named(child_fds', "slave") = Named(child_fds, "slave")
                            /\ Named(child_fds', "master") = Named(child_fds, "master")
  BY <1>1
<1>5. ChildHoldsStdioOnly'
  BY <1>1, <1>3, <1>4 DEF FdInv, ChildHoldsStdioOnly
<1> QED
  BY <1>1, <1>2, <1>5 DEF FdInv

LEMMA FdStep == Inv /\ FdInv /\ [SpawnNext]_allVars => FdInv'
<1> SUFFICES ASSUME Inv, FdInv, [SpawnNext]_allVars PROVE FdInv'
  OBVIOUS
<1>1. child' = "running" => child = "running"
  BY NoneRevives, SpawnStepsAreLifecycleSteps
<1>2. CASE UNCHANGED allVars
  <2>1. UNCHANGED <<spawn_at, fds, cloexec, child_fds, master, slave, child>>
    BY <1>2 DEF allVars, spawnVars, vars, processVars
  <2>2. UNCHANGED <<RoomForPty, PtyOpen, ChildPrepared, ChildHoldsStdioOnly>>
    BY <2>1 DEF RoomForPty, PtyOpen, ChildPrepared, ChildHoldsStdioOnly, Named
  <2> QED
    BY <2>1, <2>2 DEF FdInv
<1>3. CASE Reclaim
  <2>1. /\ spawn_at' = "reclaim" /\ UNCHANGED <<cloexec, child_fds, master, slave>>
        /\ fds' = Without(fds, {"master"})
    BY <1>3 DEF Reclaim
  <2>2. fds' \in Table
    BY <2>1 DEF FdInv, Table, Without
  <2> QED
    BY <2>1, <2>2 DEF FdInv, ChildHoldsStdioOnly
<1> QED
  BY <1>1, <1>2, <1>3, SpawnStepFds, LivesFds DEF SpawnNext

LEMMA FdsHold == SpawnSpec => []FdInv
BY FdInit, FdStep, InvHolds, PTL DEF SpawnSpec

(* The numbers openpty returned and the tables of both sides stay what they   *)
(* are meant to be, also when openpty got a standard stream of the caller.    *)
THEOREM SpawnTyping == SpawnSpec => []SpawnTypeOK
<1>1. Inv /\ FdInv => SpawnTypeOK
  BY DEF Inv, FdInv, Table, SpawnTypeOK
<1> QED
  BY <1>1, InvHolds, FdsHold, PTL

(* With at most one standard stream closed in the caller, the child runs its   *)
(* program with the slave on its three streams and nothing else of the pty,   *)
(* and this process has given the slave up.                                   *)
THEOREM ChildGetsTheSlaveOnly == SpawnSpec => []ChildHoldsStdioOnly
<1>1. FdInv => ChildHoldsStdioOnly
  BY DEF FdInv
<1> QED
  BY <1>1, FdsHold, PTL

=============================================================================
