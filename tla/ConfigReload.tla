---------------------------- MODULE ConfigReload ----------------------------
(***************************************************************************)
(* How a change of the linuxptp configuration reaches the tracking         *)
(* service: ConfigFileWatcher (config_watcher.py) debounces the events of  *)
(* the file system with a timer, whose thread asks the current daemon to   *)
(* reload, and the loop of ptptracking_start_v2.py builds a new daemon     *)
(* whenever one returns.  The watchdog library, which turns file           *)
(* operations into calls of the handler, is external.                      *)
(*                                                                         *)
(* Every change of the configuration has its number, and so has the timer  *)
(* it starts; config is the number of the last one.                        *)
(***************************************************************************)
EXTENDS Integers

CONSTANTS
  Debounce,            \* debounce_seconds, in ticks
  BuildTicks,          \* ticks from reading the directory to clearing the flag, at most
  Operations,          \* what is done to the files of the directory
  MaxChanges,          \* at most this many changes
  MaxCrashes           \* and this many restarts of the container

\* The loop needs milliseconds for what it does between the two, the timer 2 seconds.
ASSUME ConfigReloadAssumption ==
  /\ Debounce \in Nat /\ BuildTicks \in Nat /\ BuildTicks < Debounce
  /\ Operations \subseteq {"created", "modified", "deleted", "moved"}
  /\ MaxChanges \in Nat /\ MaxCrashes \in Nat

Changes == 1 .. MaxChanges

VARIABLES
  config,              \* the number of the last change of the directory
  pc,                  \* where the script is
  listed,              \* the change build_context has seen last
  building,            \* history: ticks since then
  daemon,              \* the script's variable: the number of its daemon, 0 for None
  reload,              \* reload_requested of that daemon
  timer,               \* what became of the timer of each change
  left,                \* the ticks it still waits
  target,              \* the daemon its callback has found
  crashes              \* history: how often the container was restarted

script == <<pc, listed, daemon>>
watcher == <<timer, left, target>>
vars == <<config, script, building, reload, watcher, crashes>>

Init ==
  /\ config = 0
  /\ pc = "boot" /\ listed = 0 /\ building = 0
  /\ daemon = 0 /\ reload = FALSE
  /\ timer = [c \in Changes |-> "unset"]
  /\ left = [c \in Changes |-> 0]
  /\ target = [c \in Changes |-> 0]
  /\ crashes = 0

Goto(from, to) == pc = from /\ pc' = to
-----------------------------------------------------------------------------
(***************************************************************************)
(* The watcher.                                                            *)
(***************************************************************************)

\* Mutant of Handled: deletions are not looked at.
HandledButDeleted == {"created", "modified"}

\* The operations _ConfigChangeHandler has a method for.
Handled == {"created", "modified", "deleted"}

\* Mutant of Cancelled: the timer of an earlier change is left to run.
NotCancelled == timer

Cancelled == [c \in Changes |-> IF timer[c] = "armed" THEN "cancelled" ELSE timer[c]]

\* A configuration file changes; _on_config_change cancels the timer that still waits,
\* which has no effect on one that has expired, and starts another.
Change(op) ==
  /\ config < MaxChanges /\ config' = config + 1
  /\ IF pc # "boot" /\ op \in Handled
     THEN /\ timer' = [Cancelled EXCEPT ![config'] = "armed"]
          /\ left' = [left EXCEPT ![config'] = Debounce]
     ELSE UNCHANGED <<timer, left>>
  /\ UNCHANGED <<script, building, reload, target, crashes>>

Expire(c) ==
  /\ timer[c] = "armed" /\ left[c] = 0
  /\ timer' = [timer EXCEPT ![c] = "expired"]
  /\ UNCHANGED <<config, script, building, reload, left, target, crashes>>

\* Mutant of FindDaemon: the callback is bound to the first daemon.
FindFirstDaemon(c) ==
  /\ timer[c] = "expired"
  /\ timer' = [timer EXCEPT ![c] = IF daemon = 0 THEN "done" ELSE "found"]
  /\ target' = [target EXCEPT ![c] = 1]
  /\ UNCHANGED <<config, script, building, reload, left, crashes>>

\* on_config_change finds no daemon, or one that may be the last one by the time ...
FindDaemon(c) ==
  /\ timer[c] = "expired"
  /\ timer' = [timer EXCEPT ![c] = IF daemon = 0 THEN "done" ELSE "found"]
  /\ target' = [target EXCEPT ![c] = daemon]
  /\ UNCHANGED <<config, script, building, reload, left, crashes>>

\* ... request_reload sets its flag.
RequestReload(c) ==
  /\ timer[c] = "found"
  /\ timer' = [timer EXCEPT ![c] = "done"]
  /\ reload' = (reload \/ target[c] = daemon)
  /\ UNCHANGED <<config, script, building, left, target, crashes>>
-----------------------------------------------------------------------------
(***************************************************************************)
(* The script.                                                             *)
(***************************************************************************)
StartWatcher ==
  /\ Goto("boot", "build")
  /\ UNCHANGED <<config, listed, daemon, building, reload, watcher, crashes>>

\* build_context; what the constructors of the monitors read, they read later.
BuildContext ==
  /\ Goto("build", "create")
  /\ listed' = config /\ building' = 0
  /\ UNCHANGED <<config, daemon, reload, watcher, crashes>>

CreateDaemon ==
  /\ Goto("create", "clear")
  /\ daemon' = daemon + 1
  /\ reload' = FALSE
  /\ UNCHANGED <<config, listed, building, watcher, crashes>>

ClearReload ==
  /\ Goto("clear", "run")
  /\ reload' = FALSE /\ building' = 0
  /\ UNCHANGED <<config, listed, daemon, watcher, crashes>>

\* Mutant of LeaveLoop: any wake-up of the daemon ends it.
LeaveLoopAnyway ==
  /\ Goto("run", "build")
  /\ UNCHANGED <<config, listed, daemon, building, reload, watcher, crashes>>

\* refresh returns when the daemon has seen its flag at the head of its loop.
LeaveLoop ==
  /\ Goto("run", "build") /\ reload
  /\ UNCHANGED <<config, listed, daemon, building, reload, watcher, crashes>>

\* The process ends, with all its threads, and is started again.
Crash ==
  /\ pc # "boot" /\ pc' = "boot"
  /\ crashes < MaxCrashes /\ crashes' = crashes + 1
  /\ daemon' = 0 /\ reload' = FALSE /\ listed' = 0 /\ building' = 0
  /\ timer' = [c \in Changes |-> "unset"]
  /\ left' = [c \in Changes |-> 0]
  /\ target' = [c \in Changes |-> 0]
  /\ UNCHANGED config
-----------------------------------------------------------------------------
\* A tick passes while a timer waits or the script builds, which takes its time too.
Tick ==
  /\ \E c \in Changes : timer[c] = "armed" /\ left[c] > 0
  /\ left' = [c \in Changes |-> IF timer[c] = "armed" /\ left[c] > 0 THEN left[c] - 1
                                                                   ELSE left[c]]
  /\ IF pc \in {"create", "clear"}
     THEN building < BuildTicks /\ building' = building + 1
     ELSE UNCHANGED building
  /\ UNCHANGED <<config, script, reload, timer, target, crashes>>

Script == StartWatcher \/ BuildContext \/ CreateDaemon \/ ClearReload \/ LeaveLoop

Callback(c) == Expire(c) \/ FindDaemon(c) \/ RequestReload(c)

Next ==
  \/ Script \/ Crash \/ Tick
  \/ \E op \in Operations : Change(op)
  \/ \E c \in Changes : Callback(c)

Spec == Init /\ [][Next]_vars

\* The threads run and time passes; no file has to change and nothing has to crash.
Fairness ==
  /\ WF_vars(Script) /\ WF_vars(Tick)
  /\ \A c \in Changes : WF_vars(Callback(c))

FairSpec == Spec /\ Fairness
-----------------------------------------------------------------------------
\* A daemon is built from a configuration there has been, by the script, and timers are of
\* changes (config_watcher.py:47-62).
TypeOK ==
  /\ config \in 0 .. MaxChanges /\ listed \in 0 .. config
  /\ pc \in {"boot", "build", "create", "clear", "run"}
  /\ building \in 0 .. BuildTicks
  /\ daemon \in Nat /\ reload \in BOOLEAN /\ crashes \in 0 .. MaxCrashes
  /\ timer \in [Changes -> {"unset", "armed", "cancelled", "expired", "found", "done"}]
  /\ left \in [Changes -> 0 .. Debounce]
  /\ target \in [Changes -> Nat]

\* The change is on its way to the daemon that is being built or runs.
OnItsWay(c) ==
  \/ timer[c] \in {"armed", "expired"}
  \/ timer[c] = "found" /\ target[c] = daemon

\* While a daemon works with an old configuration it has been asked to reload, or a
\* timer or a callback that will ask this very daemon is still under way: no change
\* falls between reading the directory and clearing the flag (ptptracking_start_v2.py
\* :131-147, config_watcher.py:47-63).
NoChangeIsLost ==
  pc \in {"create", "clear", "run"} /\ listed < config => reload \/ OnItsWay(config)

\* A burst of changes is one reload: only the timer of the last change expires
\* (config_watcher.py:47-55).
BurstIsOneReload ==
  [][\A c \in Changes : timer[c] = "armed" /\ timer'[c] = "expired" => c = config]_vars

\* There are never more reloads than changes, so that a daemon that has been built is
\* not stopped again for a change it has already read more than once.
ReloadsHaveCause == crashes = 0 => daemon <= config + 1

\* In the end the service works with the last configuration.
EndsUpToDate == <>[](pc = "run" /\ listed = config)
=============================================================================
