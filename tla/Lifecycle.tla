------------------------------ MODULE Lifecycle ------------------------------
(***************************************************************************)
(* The life of a bot process: the pid file of                              *)
(* src/src/utils/singleInstanceLock.ts, main() of src/src/index.ts, the    *)
(* hooks of GracefulShutdownCoordinator, and the script                    *)
(* src/scripts/ensure-single-bot.mjs that stops them all.                  *)
(*                                                                         *)
(* Every file operation is a step of its own, a pid may be used again once *)
(* its process is gone, and a file that is unlinked while it is open is    *)
(* written to in vain.  Windows, pm2 and what a hook does are left out.    *)
(* A definition D_Bug is a mutant of D.                                    *)
(***************************************************************************)
EXTENDS Integers

CONSTANTS
    Processes,   \* bound: starts at one time
    Script,      \* who runs ensure-single-bot.mjs --stop
    PidOf,       \* the pid each of them gets
    Hooks        \* bound: hooks of the shutdown

ASSUME LifecycleAssumption ==
    /\ DOMAIN PidOf = Processes /\ {Script, "none"} \cap Processes = {} /\ Hooks \in Nat
    /\ \A p \in Processes : PidOf[p] # "none"

VARIABLES
    lockFile,    \* who created it ("none" when there is none) and what it says
    proc,        \* where each process is, what it read, the hook it is at, and
                 \*   the signals that it has a handler for
    script,      \* where the script is, what it read
    contended    \* history: who was at the file while another was

lifeVars == <<lockFile, proc, script, contended>>

Pids == {PidOf[p] : p \in Processes}
NoFile == [by |-> "none", pid |-> "none"]
Off == [at |-> "off", read |-> "none", hook |-> 0, hears |-> {}]
Signals == {"INT", "TERM"}
Taking == {"look", "read", "judge", "unlink", "open", "write"}
Holding == {"starting", "running", "release", "remove"}

LifecycleTypeOK ==
    /\ lockFile \in [by: Processes \cup {"none"}, pid: Pids \cup {"none"}]
    /\ proc \in [Processes -> [at: {"off", "drain"} \cup Taking \cup Holding,
                               read: Pids \cup {"none"}, hook: 0 .. Hooks,
                               hears: SUBSET Signals]]
    /\ script \in [at: {"off", "wait", "read", "judge", "unlink"}, read: Pids \cup {"none"}]
    /\ contended \subseteq Processes \cup {Script}

LifecycleInit ==
    /\ lockFile = NoFile /\ proc = [p \in Processes |-> Off]
    /\ script = [at |-> "off", read |-> "none"] /\ contended = {}

Exists == lockFile.by # "none"
Goes(p, at) == proc' = [proc EXCEPT ![p].at = at]
Exits(p) == proc' = [proc EXCEPT ![p] = Off]

(* kill(pid, 0)                                                            *)
Alive(pid) == \E q \in Processes : proc[q].at # "off" /\ PidOf[q] = pid

(* Who is between the first look at the file and the last change of it.    *)
Meddling == {q \in Processes : proc[q].at \in Taking \cup {"release", "remove"}}
            \cup (IF script.at \in {"read", "judge", "unlink"} THEN {Script} ELSE {})

-----------------------------------------------------------------------------
(* acquireSingleInstanceLock                                               *)

Start(p) ==
    /\ proc[p].at = "off" /\ ~Alive(PidOf[p])
    /\ Goes(p, "look")
    /\ UNCHANGED <<lockFile, script>>

Looks(p) ==
    /\ proc[p].at = "look"
    /\ Goes(p, IF Exists THEN "read" ELSE "open")
    /\ UNCHANGED <<lockFile, script>>

(* A file that is gone by now makes readFileSync throw out of main().      *)
Reads(p) ==
    /\ proc[p].at = "read"
    /\ IF Exists THEN proc' = [proc EXCEPT ![p].at = "judge", ![p].read = lockFile.pid] ELSE Exits(p)
    /\ UNCHANGED <<lockFile, script>>

(* The pid of a live process: this one's own pid, left by an earlier       *)
(* process, counts as its lock; any other one ends the start.              *)
Judges_OwnPidOnly(p) ==
    /\ proc[p].at = "judge"
    /\ Goes(p, IF proc[p].read = PidOf[p] THEN "starting" ELSE "unlink")
    /\ UNCHANGED <<lockFile, script>>

Judges(p) ==
    /\ proc[p].at = "judge"
    /\ IF proc[p].read = "none" \/ ~Alive(proc[p].read) THEN Goes(p, "unlink")
       ELSE IF proc[p].read = PidOf[p] THEN Goes(p, "starting")
       ELSE Exits(p)
    /\ UNCHANGED <<lockFile, script>>

Unlinks(p) ==
    /\ proc[p].at = "unlink"
    /\ IF Exists THEN Goes(p, "open") ELSE Exits(p)
    /\ lockFile' = NoFile
    /\ UNCHANGED script

(* openSync with "wx"                                                      *)
Opens(p) ==
    /\ proc[p].at = "open"
    /\ IF Exists THEN Exits(p) /\ UNCHANGED lockFile
       ELSE Goes(p, "write") /\ lockFile' = [by |-> p, pid |-> "none"]
    /\ UNCHANGED script

Writes(p) ==
    /\ proc[p].at = "write"
    /\ proc' = [proc EXCEPT ![p].at = "starting", ![p].read = "none"]
    /\ lockFile' = IF lockFile.by = p THEN [lockFile EXCEPT !.pid = PidOf[p]] ELSE lockFile
    /\ UNCHANGED script

-----------------------------------------------------------------------------
(* main() and PipelineBotRunner                                            *)

StartupDone(p) ==
    /\ proc[p].at = "starting"
    /\ proc' = [proc EXCEPT ![p].at = "running", ![p].hears = Signals]
    /\ UNCHANGED <<lockFile, script>>

(* The safety gate blocks, the startup guard throws, or the process is     *)
(* killed: nothing releases the lock.                                      *)
Dies(p) ==
    /\ proc[p].at # "off" /\ Exits(p)
    /\ UNCHANGED <<lockFile, script>>

(* A signal that has no handler kills.  The handlers of the first one      *)
(* release the lock (a reentrant one has nothing to release) and abort the *)
(* loop; those of the other kind find nothing left to do.                  *)
Signalled(r, signal) ==
    IF signal \notin r.hears THEN Off
    ELSE [r EXCEPT !.hears = @ \ {signal},
                   !.at = IF @ # "running" THEN @
                          ELSE IF r.read # "none" THEN "drain" ELSE "release"]

Signal(p, signal) ==
    /\ proc[p].at # "off"
    /\ proc' = [proc EXCEPT ![p] = Signalled(@, signal)]
    /\ UNCHANGED <<lockFile, script>>

ReleaseReads(p) ==
    /\ proc[p].at = "release"
    /\ Goes(p, IF Exists /\ lockFile.pid = PidOf[p] THEN "remove" ELSE "drain")
    /\ UNCHANGED <<lockFile, script>>

ReleaseRemoves(p) ==
    /\ proc[p].at = "remove"
    /\ Goes(p, "drain") /\ lockFile' = NoFile
    /\ UNCHANGED script

(* A hook that ends, throws or runs into its timeout makes way for the     *)
(* next; with the last of them the process is over.                        *)
HookEnds(p) ==
    /\ proc[p].at = "drain"
    /\ IF proc[p].hook < Hooks THEN proc' = [proc EXCEPT ![p].hook = @ + 1] ELSE Exits(p)
    /\ UNCHANGED <<lockFile, script>>

-----------------------------------------------------------------------------
(* stopBots: SIGINT to all it lists, then twice SIGTERM to who is left,    *)
(* the second of which may come before the handler of the first is gone;   *)
(* then removeStaleLock.                                                   *)

SignalledAll(signal) == [p \in Processes |-> Signalled(proc[p], signal)]

StopBots ==
    /\ script.at = "off" /\ script' = [at |-> "wait", read |-> "none"]
    /\ proc' = SignalledAll("INT")
    /\ UNCHANGED lockFile

KillBots ==
    /\ script.at = "wait" /\ script' = [at |-> "read", read |-> "none"]
    /\ \E survivors \in SUBSET Processes :
        proc' = [p \in Processes |-> IF p \in survivors THEN SignalledAll("TERM")[p] ELSE Off]
    /\ UNCHANGED lockFile

(* parseLockPid: a file that is not there and an empty one read the same.  *)
ScriptReads ==
    /\ script.at = "read"
    /\ script' = [at |-> "judge", read |-> lockFile.pid]
    /\ UNCHANGED <<lockFile, proc>>

(* Without a pid the script looks for the file a second time: one that was *)
(* created since goes.  So does one of a dead process.                     *)
ScriptJudges ==
    /\ script.at = "judge"
    /\ script' = IF \/ script.read = "none" /\ Exists
                    \/ script.read # "none" /\ ~Alive(script.read)
                 THEN [script EXCEPT !.at = "unlink"] ELSE [at |-> "off", read |-> "none"]
    /\ UNCHANGED <<lockFile, proc>>

ScriptUnlinks ==
    /\ script.at = "unlink"
    /\ script' = [at |-> "off", read |-> "none"] /\ lockFile' = NoFile
    /\ UNCHANGED proc

LifecycleStep ==
    \/ \E p \in Processes :
        \/ Start(p) \/ Looks(p) \/ Reads(p) \/ Judges(p) \/ Unlinks(p) \/ Opens(p) \/ Writes(p)
        \/ StartupDone(p) \/ Dies(p) \/ \E signal \in Signals : Signal(p, signal)
        \/ ReleaseReads(p) \/ ReleaseRemoves(p) \/ HookEnds(p)
    \/ StopBots \/ KillBots \/ ScriptReads \/ ScriptJudges \/ ScriptUnlinks

LifecycleNext ==
    /\ LifecycleStep
    /\ contended' = {p \in contended : p # Script /\ proc'[p].at # "off"}
                    \cup {p \in Meddling' : Meddling' # {p}}

LifecycleSpec == LifecycleInit /\ [][LifecycleNext]_lifeVars

-----------------------------------------------------------------------------
(* Properties *)

(* Two processes have the lock only if one of them took it while another   *)
(* start, a release or the script was at the file: crashes, stale files and*)
(* pids used again by themselves never lead there                          *)
(* (singleInstanceLock.ts:15-17, "exclusive").                             *)
SoleUnlessContended ==
    \A p, q \in Processes :
        p # q /\ {proc[p].at, proc[q].at} \subseteq Holding => {p, q} \cap contended # {}

(* Violated: "Acquire an exclusive PID lock file. Returns null when        *)
(* another live instance holds the lock." (singleInstanceLock.ts:16).  A   *)
(* file that is created and not written yet reads like a stale one.        *)
OneHolder ==
    \A p, q \in Processes : p # q => ~({proc[p].at, proc[q].at} \subseteq Holding)
=============================================================================
