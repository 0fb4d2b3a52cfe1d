--------------------------- MODULE MonitorsProofs ---------------------------
(***************************************************************************)
(* Proofs about the components that watch the chain and about what they    *)
(* run on, one section each.  They share no state: each section uses the   *)
(* definitions and the assumption of one module only.                      *)
(***************************************************************************)
EXTENDS Lifecycle, Bootstrap, ArbScan, Watchlist, OracleCache, Detection, NearLiquidation,
        FiniteSetTheorems, SequenceTheorems, WellFoundedInduction, TLAPS

-----------------------------------------------------------------------------
(* Lifecycle: who has the lock.  A process that nobody was at the file     *)
(* with finds there what it read or wrote; once it has the lock the file   *)
(* says its pid, and whoever comes to the file sees a live process.        *)

LiveDistinct ==
    \A p, q \in Processes :
        p # q /\ proc[p].at # "off" /\ proc[q].at # "off" => PidOf[p] # PidOf[q]

MeddlersKnown == \A x, y \in Meddling : x # y => x \in contended

TakerInv ==
    \A p \in Processes \ contended :
        /\ proc[p].at = "judge" => proc[p].read = lockFile.pid
        /\ proc[p].at = "write" => lockFile.by = p

(* Not about to change the file, and not going to for what it read there.  *)
Harmless(r, pid) ==
    r.at \notin {"unlink", "open", "write", "remove"} /\ (r.at = "judge" => r.read = pid)

HolderInv ==
    \A p \in Processes \ contended : proc[p].at \in Holding =>
        /\ lockFile.pid = PidOf[p]
        /\ \A q \in Processes \ {p} : Harmless(proc[q], PidOf[p])
        /\ Harmless(script, PidOf[p])

LifeInv ==
    /\ LifecycleTypeOK /\ LiveDistinct /\ MeddlersKnown /\ TakerInv /\ HolderInv
    /\ lockFile.by = "none" => lockFile.pid = "none"

LEMMA LifeInit == LifecycleInit => LifeInv
<1> SUFFICES ASSUME LifecycleInit PROVE LifeInv
  OBVIOUS
<1>1. /\ \A p \in Processes : proc[p] = Off
      /\ lockFile = NoFile /\ script.at = "off" /\ contended = {}
  BY DEF LifecycleInit
<1>2. LifecycleTypeOK
  BY LifecycleAssumption DEF LifecycleInit, LifecycleTypeOK, Off, NoFile
<1>3. Meddling = {}
  BY <1>1 DEF Meddling, Off, Taking
<1>4. LiveDistinct /\ TakerInv /\ HolderInv
  BY <1>1 DEF LiveDistinct, TakerInv, HolderInv, Off, Holding
<1> QED BY <1>1, <1>2, <1>3, <1>4 DEF LifeInv, MeddlersKnown, NoFile

LEMMA PidsTyped == \A p \in Processes : PidOf[p] \in Pids /\ PidOf[p] # "none"
BY LifecycleAssumption DEF Pids

Places == {"off", "drain"} \cup Taking \cup Holding
ProcRecs == [at: Places, read: Pids \cup {"none"}, hook: 0 .. Hooks, hears: SUBSET Signals]
FileRecs == [by: Processes \cup {"none"}, pid: Pids \cup {"none"}]
ScriptRecs == [at: {"off", "wait", "read", "judge", "unlink"}, read: Pids \cup {"none"}]

LEMMA ProcUpdates ==
    /\ Off \in ProcRecs
    /\ \A r \in ProcRecs, at \in Places : [r EXCEPT !.at = at] \in ProcRecs
    /\ \A r \in ProcRecs, at \in Places, pid \in Pids \cup {"none"} :
          [r EXCEPT !.at = at, !.read = pid] \in ProcRecs
    /\ \A r \in ProcRecs, at \in Places : [r EXCEPT !.at = at, !.hears = Signals] \in ProcRecs
    /\ \A r \in ProcRecs : r.hook < Hooks => [r EXCEPT !.hook = @ + 1] \in ProcRecs
    /\ \A r \in ProcRecs : \A signal : Signalled(r, signal) \in ProcRecs
<1>1. Off \in ProcRecs
  BY LifecycleAssumption DEF Off, ProcRecs, Places
<1>2. ASSUME NEW r \in ProcRecs, NEW at \in Places
      PROVE  /\ [r EXCEPT !.at = at] \in ProcRecs
             /\ \A pid \in Pids \cup {"none"} : [r EXCEPT !.at = at, !.read = pid] \in ProcRecs
             /\ [r EXCEPT !.at = at, !.hears = Signals] \in ProcRecs
  <2>1. [r EXCEPT !.at = at] \in ProcRecs
    BY DEF ProcRecs
  <2>2. ASSUME NEW pid \in Pids \cup {"none"} PROVE [r EXCEPT !.at = at, !.read = pid] \in ProcRecs
    BY DEF ProcRecs
  <2>3. [r EXCEPT !.at = at, !.hears = Signals] \in ProcRecs
    BY DEF ProcRecs
  <2> QED BY <2>1, <2>2, <2>3
<1>3. \A r \in ProcRecs : r.hook < Hooks => [r EXCEPT !.hook = @ + 1] \in ProcRecs
  BY LifecycleAssumption DEF ProcRecs
<1>4. ASSUME NEW r \in ProcRecs, NEW signal PROVE Signalled(r, signal) \in ProcRecs
  <2> DEFINE at == IF r.at # "running" THEN r.at
                   ELSE IF r.read # "none" THEN "drain" ELSE "release"
  <2>1. at \in Places
    BY DEF ProcRecs, Places, Holding
  <2> HIDE DEF at
  <2>2. [r EXCEPT !.hears = @ \ {signal}, !.at = at] \in ProcRecs
    BY <2>1 DEF ProcRecs
  <2> QED BY <1>1, <2>2 DEF Signalled, at
<1> QED BY <1>1, <1>2, <1>3, <1>4

LEMMA PlacesNamed ==
    {"off", "look", "read", "judge", "unlink", "open", "write", "starting", "running", "release",
     "remove", "drain"} \subseteq Places
BY DEF Places, Taking, Holding

LEMMA LifeTypes == LifecycleTypeOK /\ LifecycleNext => LifecycleTypeOK'
<1> SUFFICES ASSUME LifecycleTypeOK, LifecycleNext PROVE LifecycleTypeOK'
  OBVIOUS
<1>t. proc \in [Processes -> ProcRecs] /\ lockFile \in FileRecs /\ script \in ScriptRecs
  BY DEF LifecycleTypeOK, ProcRecs, FileRecs, ScriptRecs, Places
<1>f. \A p \in Processes : lockFile.pid \in Pids \cup {"none"} /\ PidOf[p] \in Pids
  BY <1>t, PidsTyped DEF FileRecs
<1>g. /\ NoFile \in FileRecs
      /\ \A p \in Processes : [by |-> p, pid |-> "none"] \in FileRecs
      /\ \A p \in Processes : [lockFile EXCEPT !.pid = PidOf[p]] \in FileRecs
  BY <1>t, <1>f DEF FileRecs, NoFile
<1>1. contended' \subseteq Processes \cup {Script}
  <2>1. Meddling' \subseteq Processes \cup {Script}
    BY DEF Meddling
  <2>2. contended \subseteq Processes \cup {Script}
    BY DEF LifecycleTypeOK
  <2> QED BY <2>1, <2>2 DEF LifecycleNext
<1>2. proc' \in [Processes -> ProcRecs]
  <2>1. ASSUME NEW p \in Processes, NEW r \in ProcRecs, proc' = [proc EXCEPT ![p] = r]
        PROVE  proc' \in [Processes -> ProcRecs]
    BY <1>t, <2>1
  <2>2. ASSUME NEW p \in Processes, NEW at \in Places, Goes(p, at)
        PROVE  proc' \in [Processes -> ProcRecs]
    <3>1. proc' = [proc EXCEPT ![p] = [proc[p] EXCEPT !.at = at]]
      BY <2>2 DEF Goes
    <3> QED BY <1>t, <2>1, <3>1, ProcUpdates
  <2>3. ASSUME NEW p \in Processes, Exits(p) PROVE proc' \in [Processes -> ProcRecs]
    BY <2>1, <2>3, ProcUpdates DEF Exits
  <2>4. ASSUME NEW p \in Processes,
               \/ Start(p) \/ Looks(p) \/ Judges(p) \/ Unlinks(p) \/ Opens(p) \/ Dies(p)
               \/ ReleaseReads(p) \/ ReleaseRemoves(p)
        PROVE  \/ Exits(p)
               \/ \E at \in Places : Goes(p, at)
    BY <2>4, PlacesNamed DEF Start, Looks, Judges, Unlinks, Opens, Dies, ReleaseReads, ReleaseRemoves
  <2>5. ASSUME NEW p \in Processes,
               \/ Reads(p) \/ Writes(p) \/ StartupDone(p) \/ HookEnds(p)
               \/ \E signal \in Signals : Signal(p, signal)
        PROVE  proc' \in [Processes -> ProcRecs]
    <3>1. CASE Reads(p)
      <4>1. proc' = [proc EXCEPT ![p] = [proc[p] EXCEPT !.at = "judge", !.read = lockFile.pid]]
            \/ Exits(p)
        BY <3>1, <1>t DEF Reads
      <4> QED BY <4>1, <1>t, <1>f, <2>1, <2>3, ProcUpdates, PlacesNamed
    <3>2. CASE Writes(p)
      <4>1. proc' = [proc EXCEPT ![p] = [proc[p] EXCEPT !.at = "starting", !.read = "none"]]
        BY <3>2, <1>t DEF Writes
      <4> QED BY <4>1, <1>t, <2>1, ProcUpdates, PlacesNamed
    <3>3. CASE StartupDone(p)
      <4>1. proc' = [proc EXCEPT ![p] = [proc[p] EXCEPT !.at = "running", !.hears = Signals]]
        BY <3>3, <1>t DEF StartupDone
      <4> QED BY <4>1, <1>t, <2>1, ProcUpdates, PlacesNamed
    <3>4. CASE HookEnds(p)
      <4>1. \/ proc[p].hook < Hooks /\ proc' = [proc EXCEPT ![p] = [proc[p] EXCEPT !.hook = @ + 1]]
            \/ Exits(p)
        BY <3>4, <1>t DEF HookEnds
      <4> QED BY <4>1, <1>t, <2>1, <2>3, ProcUpdates
    <3>5. CASE \E signal \in Signals : Signal(p, signal)
      BY <3>5, <1>t, <2>1, ProcUpdates DEF Signal
    <3> QED BY <2>5, <3>1, <3>2, <3>3, <3>4, <3>5
  <2>6. CASE StopBots \/ KillBots
    <3>1. \A signal : \A p \in Processes :
             SignalledAll(signal)[p] = Signalled(proc[p], signal) /\ Signalled(proc[p], signal) \in ProcRecs
      BY <1>t, ProcUpdates DEF SignalledAll
    <3>2. CASE StopBots
      <4>1. proc' = [p \in Processes |-> Signalled(proc[p], "INT")]
        BY <3>2 DEF StopBots, SignalledAll
      <4> QED BY <3>1, <4>1
    <3>3. CASE KillBots
      <4>1. PICK survivors \in SUBSET Processes :
               proc' = [p \in Processes |-> IF p \in survivors THEN SignalledAll("TERM")[p] ELSE Off]
        BY <3>3 DEF KillBots
      <4> QED BY <3>1, <4>1, ProcUpdates
    <3> QED BY <2>6, <3>2, <3>3
  <2>7. CASE ScriptReads \/ ScriptJudges \/ ScriptUnlinks
    BY <2>7, <1>t DEF ScriptReads, ScriptJudges, ScriptUnlinks
  <2> QED BY <2>2, <2>3, <2>4, <2>5, <2>6, <2>7 DEF LifecycleNext, LifecycleStep
<1>3. lockFile' \in FileRecs
  <2>1. \/ lockFile' = lockFile \/ lockFile' = NoFile
        \/ \E p \in Processes : \/ lockFile' = [by |-> p, pid |-> "none"]
                                \/ lockFile' = [lockFile EXCEPT !.pid = PidOf[p]]
    BY DEF LifecycleNext, LifecycleStep, Start, Looks, Reads, Judges, Unlinks, Opens, Writes,
           StartupDone, Dies, Signal, ReleaseReads, ReleaseRemoves, HookEnds, StopBots, KillBots,
           ScriptReads, ScriptJudges, ScriptUnlinks
  <2> QED BY <1>t, <1>g, <2>1
<1>4. script' \in ScriptRecs
  <2>1. CASE StopBots \/ KillBots \/ ScriptReads \/ ScriptUnlinks
    BY <2>1, <1>t, <1>f DEF StopBots, KillBots, ScriptReads, ScriptUnlinks, ScriptRecs, FileRecs
  <2>2. CASE ScriptJudges
    BY <2>2, <1>t DEF ScriptJudges, ScriptRecs
  <2>3. CASE script' = script
    BY <2>3, <1>t
  <2> QED BY <2>1, <2>2, <2>3
          DEF LifecycleNext, LifecycleStep, Start, Looks, Reads, Judges, Unlinks, Opens, Writes,
              StartupDone, Dies, Signal, ReleaseReads, ReleaseRemoves, HookEnds
<1> QED BY <1>1, <1>2, <1>3, <1>4 DEF LifecycleTypeOK, ProcRecs, FileRecs, ScriptRecs, Places

(* Whoever is not contended and at the file is alone there.                *)
LEMMA Alone ==
    ASSUME LifeInv, NEW p \in Processes \ contended, proc[p].at \in Taking \cup {"release", "remove"}
    PROVE  /\ \A q \in Processes \ {p} :
                /\ proc[q].at \notin Taking \cup {"release", "remove"}
                /\ \A pid : Harmless(proc[q], pid)
           /\ script.at \notin {"read", "judge", "unlink"}
           /\ \A pid : Harmless(script, pid)
<1>1. p \in Meddling /\ p # Script
  BY LifecycleAssumption DEF Meddling
<1>2. Meddling \subseteq {p}
  BY <1>1 DEF LifeInv, MeddlersKnown
<1>3. \A q \in Processes \ {p} : proc[q].at \notin Taking \cup {"release", "remove"}
  BY <1>2 DEF Meddling
<1>4. script.at \notin {"read", "judge", "unlink"}
  BY <1>1, <1>2 DEF Meddling
<1>5. \A pid : Harmless(script, pid)
  BY <1>4 DEF Harmless, LifeInv, LifecycleTypeOK
<1> QED BY <1>3, <1>4, <1>5 DEF Harmless, Taking

LEMMA Contention ==
    ASSUME LifecycleNext
    PROVE  /\ MeddlersKnown'
           /\ \A p \in Processes \ contended' : proc'[p].at # "off" => p \notin contended
BY LifecycleAssumption DEF LifecycleNext, MeddlersKnown

(* The steps that leave the file alone and take nobody nearer to it.       *)
CalmMove(r, s) ==
    \/ s.at = "off"
    \/ s.read = r.read /\ s.at = r.at
    \/ r.at \in {"starting", "running"} /\ s.at \in {"running", "release", "drain"}

Calm ==
    /\ lockFile' = lockFile
    /\ \A p \in Processes : CalmMove(proc[p], proc'[p])
    /\ script' = script \/ script'.at \in {"wait", "read"}

FileInv ==
    /\ LiveDistinct /\ TakerInv /\ HolderInv
    /\ lockFile.by = "none" => lockFile.pid = "none"

LEMMA SignalCalm == \A r \in ProcRecs : \A signal : CalmMove(r, Signalled(r, signal))
<1> SUFFICES ASSUME NEW r \in ProcRecs, NEW signal, signal \in r.hears
             PROVE  CalmMove(r, Signalled(r, signal))
  BY DEF Signalled, Off, CalmMove
<1> DEFINE at == IF r.at # "running" THEN r.at ELSE IF r.read # "none" THEN "drain" ELSE "release"
<1>1. CalmMove(r, [r EXCEPT !.hears = @ \ {signal}, !.at = at])
  BY DEF CalmMove, ProcRecs
<1> QED BY <1>1 DEF Signalled

LEMMA CalmSteps ==
    ASSUME LifecycleTypeOK,
           \/ StopBots \/ KillBots
           \/ \E p \in Processes : \/ StartupDone(p) \/ Dies(p) \/ HookEnds(p)
                                   \/ \E signal \in Signals : Signal(p, signal)
    PROVE  Calm
<1>t. proc \in [Processes -> ProcRecs]
  BY DEF LifecycleTypeOK, ProcRecs, Places
<1>0. \A r : CalmMove(r, r) /\ CalmMove(r, Off)
  BY DEF CalmMove, Off
<1>1. ASSUME NEW p \in Processes, NEW r, proc' = [proc EXCEPT ![p] = r], CalmMove(proc[p], r)
      PROVE  \A q \in Processes : CalmMove(proc[q], proc'[q])
  BY <1>t, <1>0, <1>1
<1>2. \A signal : \A p \in Processes :
         SignalledAll(signal)[p] = Signalled(proc[p], signal)
  BY DEF SignalledAll
<1>3. CASE StopBots
  <2>1. proc' = SignalledAll("INT") /\ lockFile' = lockFile /\ script'.at = "wait"
    BY <1>3 DEF StopBots
  <2> QED BY <2>1, <1>t, <1>2, SignalCalm DEF Calm
<1>4. CASE KillBots
  <2>1. PICK survivors \in SUBSET Processes :
           proc' = [p \in Processes |-> IF p \in survivors THEN SignalledAll("TERM")[p] ELSE Off]
    BY <1>4 DEF KillBots
  <2>2. lockFile' = lockFile /\ script'.at = "read"
    BY <1>4 DEF KillBots
  <2>3. \A p \in Processes : CalmMove(proc[p], proc'[p])
    BY <2>1, <1>t, <1>0, <1>2, SignalCalm
  <2> QED BY <2>2, <2>3 DEF Calm
<1>5. ASSUME NEW p \in Processes,
             \/ StartupDone(p) \/ Dies(p) \/ HookEnds(p)
             \/ \E signal \in Signals : Signal(p, signal)
      PROVE  Calm
  <2>1. lockFile' = lockFile /\ script' = script
    BY <1>5 DEF StartupDone, Dies, HookEnds, Signal
  <2>2. CASE StartupDone(p)
    <3>1. /\ proc' = [proc EXCEPT ![p] = [proc[p] EXCEPT !.at = "running", !.hears = Signals]]
          /\ proc[p].at = "starting"
      BY <2>2 DEF StartupDone
    <3>2. CalmMove(proc[p], [proc[p] EXCEPT !.at = "running", !.hears = Signals])
      BY <3>1, <1>t DEF CalmMove, ProcRecs
    <3> QED BY <1>1, <2>1, <3>1, <3>2 DEF Calm
  <2>3. CASE Dies(p)
    BY <2>3, <2>1, <1>0, <1>1 DEF Calm, Dies, Exits
  <2>4. CASE HookEnds(p)
    <3>1. \/ proc' = [proc EXCEPT ![p] = [proc[p] EXCEPT !.hook = @ + 1]]
          \/ proc' = [proc EXCEPT ![p] = Off]
      BY <2>4 DEF HookEnds, Exits
    <3>2. CalmMove(proc[p], [proc[p] EXCEPT !.hook = @ + 1])
      BY <1>t DEF CalmMove, ProcRecs
    <3> QED BY <1>0, <1>1, <2>1, <3>1, <3>2 DEF Calm
  <2>5. CASE \E signal \in Signals : Signal(p, signal)
    <3>1. PICK signal \in Signals : proc' = [proc EXCEPT ![p] = Signalled(proc[p], signal)]
      BY <2>5 DEF Signal
    <3> QED BY <1>t, <1>1, <2>1, <3>1, SignalCalm DEF Calm
  <2> QED BY <1>5, <2>2, <2>3, <2>4, <2>5
<1> QED BY <1>3, <1>4, <1>5

LEMMA CalmKeeps ==
    ASSUME LifeInv, LifecycleNext, Calm
    PROVE  FileInv'
<1>1. LiveDistinct'
  BY DEF LifeInv, LiveDistinct, Calm, CalmMove
<1>2. TakerInv'
  BY Contention DEF LifeInv, TakerInv, Calm, CalmMove
<1>3. ASSUME NEW p \in Processes \ contended', proc'[p].at \in Holding
      PROVE  /\ lockFile'.pid = PidOf[p]
             /\ \A q \in Processes \ {p} : Harmless(proc'[q], PidOf[p])
             /\ Harmless(script', PidOf[p])
  <2>1. p \notin contended /\ proc[p].at \in Holding
    BY <1>3, Contention DEF Calm, CalmMove, Holding
  <2>2. /\ lockFile.pid = PidOf[p]
        /\ \A q \in Processes \ {p} : Harmless(proc[q], PidOf[p])
        /\ Harmless(script, PidOf[p])
    BY <2>1 DEF LifeInv, HolderInv
  <2> QED BY <2>2 DEF Calm, CalmMove, Harmless
<1> QED BY <1>1, <1>2, <1>3 DEF FileInv, HolderInv, LifeInv, Calm

(* One process moves, and the file is as before or it was at it.           *)
FileSteps(p) ==
    \/ Start(p) \/ Looks(p) \/ Reads(p) \/ Judges(p) \/ Unlinks(p) \/ Opens(p) \/ Writes(p)
    \/ ReleaseReads(p) \/ ReleaseRemoves(p)

LEMMA OneMoves ==
    ASSUME LifecycleTypeOK, NEW p \in Processes, FileSteps(p)
    PROVE  script' = script /\ \A q \in Processes \ {p} : proc'[q] = proc[q]
BY DEF FileSteps, Start, Looks, Reads, Judges, Unlinks, Opens, Writes, ReleaseReads, ReleaseRemoves,
       Goes, Exits, LifecycleTypeOK

(* Somebody else has the lock, and nobody was at the file with it.         *)
LEMMA OthersHolder ==
    ASSUME LifeInv, LifecycleNext, NEW p \in Processes, FileSteps(p),
           NEW q \in Processes \ contended', q # p, proc'[q].at \in Holding
    PROVE  lockFile' = lockFile /\ lockFile.pid = PidOf[q] /\ Harmless(proc'[p], PidOf[q])
           /\ \A r \in Processes \ {q} : Harmless(proc'[r], PidOf[q])
           /\ Harmless(script', PidOf[q])
<1>t. proc \in [Processes -> ProcRecs] /\ LiveDistinct
  BY DEF LifeInv, LifecycleTypeOK, ProcRecs, Places
<1>1. script' = script /\ \A r \in Processes \ {p} : proc'[r] = proc[r]
  BY OneMoves DEF LifeInv
<1>2. q \notin contended /\ proc[q].at \in Holding /\ proc[q].at # "off"
  BY <1>1, Contention DEF Holding
<1>3. /\ lockFile.pid = PidOf[q] /\ Exists
      /\ \A r \in Processes \ {q} : Harmless(proc[r], PidOf[q])
      /\ Harmless(script, PidOf[q])
  BY <1>2, PidsTyped DEF LifeInv, HolderInv, Exists
<1>4. Alive(PidOf[q])
  BY <1>2 DEF Alive
<1>5. Harmless(Off, PidOf[q]) /\ proc[p] \in ProcRecs
  BY <1>t DEF Harmless, Off
<1>6. ASSUME NEW at, Goes(p, at), at \notin {"unlink", "open", "write", "remove", "judge"}
      PROVE  Harmless(proc'[p], PidOf[q])
  BY <1>t, <1>6 DEF Goes, Harmless, ProcRecs
<1>7. ASSUME Exits(p) PROVE Harmless(proc'[p], PidOf[q])
  BY <1>t, <1>5, <1>7 DEF Exits
<1>8. lockFile' = lockFile /\ Harmless(proc'[p], PidOf[q])
  <2>1. CASE Start(p)
    BY <2>1, <1>6 DEF Start
  <2>2. CASE Looks(p)
    BY <2>2, <1>3, <1>6 DEF Looks
  <2>3. CASE Reads(p)
    <3>1. proc' = [proc EXCEPT ![p] = [proc[p] EXCEPT !.at = "judge", !.read = PidOf[q]]]
      BY <2>3, <1>3 DEF Reads
    <3>2. Harmless([proc[p] EXCEPT !.at = "judge", !.read = PidOf[q]], PidOf[q])
      BY <1>5 DEF Harmless, ProcRecs
    <3> QED BY <1>t, <2>3, <3>1, <3>2 DEF Reads
  <2>4. CASE Judges(p)
    <3>1. proc[p].at = "judge" /\ proc[p].read = PidOf[q]
      BY <2>4, <1>3 DEF Judges, Harmless
    <3>2. PidOf[p] # PidOf[q]
      BY <3>1, <1>2, <1>t DEF LiveDistinct
    <3> QED BY <2>4, <1>4, <1>7, <3>1, <3>2, PidsTyped DEF Judges
  <2>5. CASE Unlinks(p) \/ Opens(p) \/ Writes(p) \/ ReleaseRemoves(p)
    BY <2>5, <1>3 DEF Unlinks, Opens, Writes, ReleaseRemoves, Harmless
  <2>6. CASE ReleaseReads(p)
    <3>1. PidOf[p] # PidOf[q]
      BY <2>6, <1>2, <1>t DEF LiveDistinct, ReleaseReads
    <3> QED BY <2>6, <1>3, <1>6, <3>1 DEF ReleaseReads
  <2> QED BY <2>1, <2>2, <2>3, <2>4, <2>5, <2>6 DEF FileSteps
<1> QED BY <1>1, <1>3, <1>8

(* It has the lock itself: it just took it, alone at the file.             *)
LEMMA NewHolder ==
    ASSUME LifeInv, LifecycleNext, NEW p \in Processes \ contended', FileSteps(p), proc'[p].at \in Holding
    PROVE  /\ lockFile'.pid = PidOf[p]
           /\ \A q \in Processes \ {p} : Harmless(proc'[q], PidOf[p])
           /\ Harmless(script', PidOf[p])
<1>t. proc \in [Processes -> ProcRecs] /\ lockFile \in FileRecs
  BY DEF LifeInv, LifecycleTypeOK, ProcRecs, Places, FileRecs
<1>1. script' = script /\ \A r \in Processes \ {p} : proc'[r] = proc[r]
  BY OneMoves DEF LifeInv
<1>2. p \notin contended
  BY Contention DEF Holding
<1>3. ASSUME NEW at, Goes(p, at) PROVE proc'[p].at = at
  BY <1>t, <1>3 DEF Goes, ProcRecs
<1>4. ~ Exits(p)
  BY <1>t DEF Exits, Off, Holding
<1>5. \/ Judges(p) /\ proc[p].at = "judge" /\ proc[p].read = PidOf[p]
      \/ Writes(p)
      \/ ReleaseReads(p)
  <2>1. ~ Reads(p)
    <3>1. Reads(p) => proc'[p].at = "judge"
      BY <1>t, <1>4 DEF Reads, ProcRecs
    <3> QED BY <3>1 DEF Holding
  <2> QED BY <1>3, <1>4, <2>1
          DEF FileSteps, Start, Looks, Judges, Unlinks, Opens, ReleaseReads, ReleaseRemoves, Holding
<1>6. proc[p].at \in Taking \cup {"release", "remove"}
  BY <1>5 DEF Writes, ReleaseReads, Taking
<1>7. lockFile'.pid = PidOf[p]
  <2>1. CASE Judges(p) /\ proc[p].at = "judge" /\ proc[p].read = PidOf[p]
    BY <2>1, <1>2 DEF LifeInv, TakerInv, Judges
  <2>2. CASE Writes(p)
    <3>1. lockFile.by = p
      BY <2>2, <1>2 DEF Writes, LifeInv, TakerInv
    <3> QED BY <2>2, <3>1, <1>t DEF Writes, FileRecs
  <2>3. CASE ReleaseReads(p)
    BY <2>3, <1>2 DEF ReleaseReads, LifeInv, HolderInv, Holding
  <2> QED BY <1>5, <2>1, <2>2, <2>3
<1> QED BY <1>1, <1>2, <1>6, <1>7, Alone

LEMMA FileStepKeeps ==
    ASSUME LifeInv, LifecycleNext, NEW p \in Processes, FileSteps(p)
    PROVE  FileInv'
<1>t. proc \in [Processes -> ProcRecs] /\ lockFile \in FileRecs /\ LiveDistinct
  BY DEF LifeInv, LifecycleTypeOK, ProcRecs, Places, FileRecs
<1>1. script' = script /\ \A r \in Processes \ {p} : proc'[r] = proc[r]
  BY OneMoves DEF LifeInv
<1>2. LiveDistinct'
  <2>1. CASE Start(p)
    <3>1. \A q \in Processes : proc[q].at # "off" => PidOf[q] # PidOf[p]
      BY <2>1 DEF Start, Alive
    <3> QED BY <1>1, <1>t, <3>1 DEF LiveDistinct
  <2>2. CASE proc[p].at # "off"
    BY <1>1, <1>t, <2>2 DEF LiveDistinct
  <2> QED BY <2>1, <2>2 DEF FileSteps, Looks, Reads, Judges, Unlinks, Opens, Writes,
                            ReleaseReads, ReleaseRemoves
<1>3. ASSUME NEW q \in Processes \ contended', proc'[q].at \in {"judge", "write"}
      PROVE  /\ proc'[q].at = "judge" => proc'[q].read = lockFile'.pid
             /\ proc'[q].at = "write" => lockFile'.by = q
  <2>0. q \notin contended
    BY <1>3, Contention
  <2>1. CASE q # p
    <3>1. proc'[q] = proc[q]
      BY <1>1, <2>1
    <3>2. proc[p].at \notin Taking \cup {"release", "remove"}
      BY <1>3, <2>0, <2>1, <3>1, Alone DEF Taking
    <3>3. lockFile' = lockFile
      BY <3>2 DEF FileSteps, Start, Looks, Reads, Judges, Unlinks, Opens, Writes, ReleaseReads,
                  ReleaseRemoves, Taking
    <3> QED BY <2>0, <3>1, <3>3 DEF LifeInv, TakerInv
  <2>2. CASE q = p
    <3>1. ASSUME NEW at, Goes(p, at) PROVE proc'[p].at = at
      BY <1>t, <3>1 DEF Goes, ProcRecs
    <3>2. ~ Exits(p)
      BY <1>t, <1>3, <2>2 DEF Exits, Off
    <3>3. CASE Reads(p)
      <4>1. proc' = [proc EXCEPT ![p] = [proc[p] EXCEPT !.at = "judge", !.read = lockFile.pid]]
        BY <3>2, <3>3 DEF Reads
      <4>2. proc'[p].at = "judge" /\ proc'[p].read = lockFile.pid
        BY <4>1, <1>t DEF ProcRecs
      <4> QED BY <2>2, <3>3, <4>2 DEF Reads
    <3>4. CASE Opens(p)
      <4>1. proc'[p].at = "write" /\ lockFile' = [by |-> p, pid |-> "none"]
        BY <3>1, <3>2, <3>4 DEF Opens
      <4> QED BY <2>2, <4>1
    <3>5. CASE Writes(p)
      <4>1. proc'[p].at = "starting"
        BY <3>5, <1>t DEF Writes, ProcRecs
      <4> QED BY <1>3, <2>2, <4>1
    <3> QED BY <1>3, <2>2, <3>1, <3>2, <3>3, <3>4, <3>5
            DEF FileSteps, Start, Looks, Judges, Unlinks, ReleaseReads, ReleaseRemoves
  <2> QED BY <2>1, <2>2
<1>4. ASSUME NEW q \in Processes \ contended', proc'[q].at \in Holding
      PROVE  /\ lockFile'.pid = PidOf[q]
             /\ \A r \in Processes \ {q} : Harmless(proc'[r], PidOf[q])
             /\ Harmless(script', PidOf[q])
  BY <1>4, OthersHolder, NewHolder
<1>5. lockFile'.by = "none" => lockFile'.pid = "none"
  <2>1. lockFile.by = "none" => lockFile.pid = "none"
    BY DEF LifeInv
  <2>2. p # "none"
    BY LifecycleAssumption
  <2> QED BY <1>t, <2>1, <2>2
          DEF FileSteps, Start, Looks, Reads, Judges, Unlinks, Opens, Writes, ReleaseReads,
              ReleaseRemoves, NoFile, FileRecs
<1>6. TakerInv'
  BY <1>3 DEF TakerInv
<1>7. HolderInv'
  BY <1>4 DEF HolderInv
<1> QED BY <1>2, <1>5, <1>6, <1>7 DEF FileInv

LEMMA ScriptKeeps ==
    ASSUME LifeInv, LifecycleNext, ScriptReads \/ ScriptJudges \/ ScriptUnlinks
    PROVE  FileInv'
<1>t. script \in ScriptRecs /\ LiveDistinct /\ proc' = proc
  BY DEF LifeInv, LifecycleTypeOK, ScriptRecs, ScriptReads, ScriptJudges, ScriptUnlinks
<1>1. LiveDistinct'
  BY <1>t DEF LiveDistinct
<1>2. ASSUME NEW p \in Processes \ contended', proc'[p].at \in {"judge", "write"}
      PROVE  /\ p \notin contended /\ lockFile' = lockFile
             /\ proc'[p].at = "judge" => proc'[p].read = lockFile.pid
             /\ proc'[p].at = "write" => lockFile.by = p
  <2>1. p \notin contended
    BY <1>2, Contention
  <2>2. script.at \notin {"read", "judge", "unlink"}
    BY <1>t, <1>2, <2>1, Alone DEF Taking
  <2> QED BY <1>t, <2>1, <2>2 DEF LifeInv, TakerInv, ScriptReads, ScriptJudges, ScriptUnlinks
<1>3. TakerInv'
  BY <1>2 DEF TakerInv
<1>4. ASSUME NEW p \in Processes \ contended', proc'[p].at \in Holding
      PROVE  /\ lockFile'.pid = PidOf[p]
             /\ \A q \in Processes \ {p} : Harmless(proc'[q], PidOf[p])
             /\ Harmless(script', PidOf[p])
  <2>1. p \notin contended /\ proc[p].at \in Holding /\ proc[p].at # "off"
    BY <1>t, <1>4, Contention DEF Holding
  <2>2. /\ lockFile.pid = PidOf[p] /\ PidOf[p] # "none" /\ Alive(PidOf[p])
        /\ \A q \in Processes \ {p} : Harmless(proc[q], PidOf[p])
        /\ Harmless(script, PidOf[p])
    BY <2>1, PidsTyped DEF LifeInv, HolderInv, Alive
  <2>3. lockFile' = lockFile /\ Harmless(script', PidOf[p])
    BY <2>2 DEF ScriptReads, ScriptJudges, ScriptUnlinks, Harmless
  <2> QED BY <1>t, <2>2, <2>3
<1>5. HolderInv'
  BY <1>4 DEF HolderInv
<1>6. (lockFile.by = "none" => lockFile.pid = "none")'
  BY DEF LifeInv, ScriptReads, ScriptJudges, ScriptUnlinks, NoFile
<1> QED BY <1>1, <1>3, <1>5, <1>6 DEF FileInv

LEMMA LifeStep == LifeInv /\ LifecycleNext => LifeInv'
<1> SUFFICES ASSUME LifeInv, LifecycleNext PROVE LifeInv'
  OBVIOUS
<1>1. LifecycleTypeOK' /\ MeddlersKnown'
  BY LifeTypes, Contention DEF LifeInv
<1>2. FileInv'
  <2>1. \/ StopBots \/ KillBots
        \/ \E p \in Processes : \/ StartupDone(p) \/ Dies(p) \/ HookEnds(p)
                                \/ \E signal \in Signals : Signal(p, signal)
        \/ \E p \in Processes : FileSteps(p)
        \/ ScriptReads \/ ScriptJudges \/ ScriptUnlinks
    BY DEF LifecycleNext, LifecycleStep, FileSteps
  <2>2. LifecycleTypeOK
    BY DEF LifeInv
  <2> QED BY <2>1, <2>2, CalmSteps, CalmKeeps, FileStepKeeps, ScriptKeeps
<1> QED BY <1>1, <1>2 DEF LifeInv, FileInv

LEMMA LifeInvHolds == LifecycleSpec => []LifeInv
<1>1. LifeInv /\ UNCHANGED lifeVars => LifeInv'
  BY DEF LifeInv, LifecycleTypeOK, LiveDistinct, MeddlersKnown, Meddling, TakerInv, HolderInv, lifeVars
<1> QED BY LifeInit, LifeStep, <1>1, PTL DEF LifecycleSpec

(* Two processes have the lock only if one of them was at the file while   *)
(* another start, a release or the script was                              *)
(* (singleInstanceLock.ts:15-17), however many there are.                  *)
THEOREM SoleHolder == LifecycleSpec => []SoleUnlessContended
<1>1. LifeInv => SoleUnlessContended
  <2> SUFFICES ASSUME LifeInv, NEW p \in Processes, NEW q \in Processes, p # q,
                      proc[p].at \in Holding, proc[q].at \in Holding, p \notin contended
               PROVE  q \in contended
    BY DEF SoleUnlessContended
  <2>1. CASE q \notin contended
    <3>1. PidOf[p] = PidOf[q]
      BY <2>1 DEF LifeInv, HolderInv
    <3> QED BY <3>1 DEF LifeInv, LiveDistinct, Holding
  <2> QED BY <2>1
<1> QED BY <1>1, LifeInvHolds, PTL

(* The pids in the lock file and in what was read of it, and the hooks that*)
(* a process has left to run, are what they can be.                        *)
THEOREM LifecycleTypeCorrect == LifecycleSpec => []LifecycleTypeOK
<1>1. LifeInv => LifecycleTypeOK
  BY DEF LifeInv
<1> QED BY <1>1, LifeInvHolds, PTL

-----------------------------------------------------------------------------
(* Bootstrap: what a scan owes.  The accounts that an event of the scanned *)
(* blocks names, less those whose debt ended or whose row failed, are at   *)
(* every stage somewhere: in the events still to ask for, in the list, in  *)
(* the rows, in the model or in the file the next process starts from.     *)

Window == DOMAIN poolChain \cap (scan.from .. scan.to)
Due == {poolChain[b].account : b \in Window} \cap (steady \ unread)
Wanted == {a \in Due : HasAllowlist => a \in Holders}
InModel == {a \in Debtors : model[a] = "full"}

BootRecs == [at: {"down", "logs", "subgraph", "filter", "accounts", "reserves", "up"},
             event: DOMAIN EventNames, start: Nat, client: Nat, attempt: Nat,
             todo: SUBSET Debtors, kept: SUBSET Debtors, rows: SUBSET Debtors, seeded: Nat]
PoolEvents == [name: ToSet(EventNames), account: Debtors]

ChainOK == poolChain \in Seq(PoolEvents) /\ owing \subseteq Debtors /\ steady \subseteq owing
ScanOK == /\ scan \in [from: Nat, to: Nat, source: {"logs", "subgraph"}]
          /\ scan.to <= Len(poolChain) /\ discovery.block <= scan.to
BootOK == boot \in BootRecs /\ model \in [Debtors -> {"none", "bare", "full"}]
FilesOK == /\ snapshot \in [age: Nat, full: SUBSET Debtors]
           /\ discovery \in [age: Nat, block: Nat, withDebt: SUBSET Debtors]

(* What has been asked for: all of the earlier events, and of this one the *)
(* blocks before the chunk.                                                *)
LogsAsked ==
    boot.at = "logs" =>
        /\ scan.source = "logs"
        /\ \A b \in Window, i \in 1 .. boot.event :
              poolChain[b].name = EventNames[i] /\ (i < boot.event \/ b < boot.start)
                  => poolChain[b].account \in boot.todo

Carried ==
    scan.source = "logs" =>
        /\ boot.at = "filter" => Due \subseteq boot.todo \cup boot.kept
        /\ boot.at = "accounts" => Wanted \subseteq boot.todo \cup InModel
        /\ boot.at = "reserves" => Wanted \subseteq boot.todo \cup boot.rows \cup InModel
        /\ boot.at = "up" => Wanted \subseteq InModel

SnapshotCovers ==
    CacheEnabled /\ snapshot.age <= FileTtl =>
        /\ boot.at \in {"down", "up"}
        /\ scan.source = "logs" => Wanted \subseteq snapshot.full

DiscoveryCovers ==
    ~ForceRefresh /\ discovery.age <= FileTtl /\ discovery.block = scan.to /\ scan.source = "logs"
        => Due \subseteq discovery.withDebt

BootInv ==
    /\ ChainOK /\ ScanOK /\ BootOK /\ FilesOK
    /\ LogsAsked /\ Carried /\ SnapshotCovers /\ DiscoveryCovers

LEMMA DownTyped == Down \in BootRecs /\ Down.at = "down"
BY BootstrapAssumption DEF Down, BootRecs

LEMMA BootInitOK == BootstrapInit => BootInv
<1> SUFFICES ASSUME BootstrapInit PROVE BootInv
  OBVIOUS
<1>1. ChainOK
  <2>1. DOMAIN History = 1 .. Len(History) /\ Len(History) \in Nat
    BY BootstrapAssumption DEF PoolEvents
  <2> QED BY <2>1, BootstrapAssumption DEF BootstrapInit, ChainOK, PoolEvents
<1>2. ScanOK /\ FilesOK
  BY <1>1, BootstrapAssumption DEF BootstrapInit, ScanOK, FilesOK, NoSnapshot, NoDiscovery, ChainOK
<1>3. BootOK
  BY DownTyped DEF BootstrapInit, BootOK, NoPositions
<1>4. LogsAsked /\ Carried
  BY DownTyped DEF BootstrapInit, LogsAsked, Carried
<1>5. SnapshotCovers
  BY DownTyped, BootstrapAssumption DEF BootstrapInit, SnapshotCovers, NoSnapshot
<1>6. DiscoveryCovers
  BY BootstrapAssumption DEF BootstrapInit, DiscoveryCovers, NoDiscovery
<1> QED BY <1>1, <1>2, <1>3, <1>4, <1>5, <1>6 DEF BootInv


(* What is owed for a scan only shrinks.                                   *)
LEMMA DueShrinks ==
    ASSUME ChainOK, ScanOK, UNCHANGED scan,
           poolChain' = poolChain \/ \E e \in PoolEvents : poolChain' = Append(poolChain, e),
           steady' \subseteq steady, unread \subseteq unread'
    PROVE  /\ Window' = Window /\ \A b \in Window : poolChain'[b] = poolChain[b]
           /\ Due' \subseteq Due /\ Wanted' \subseteq Wanted
<1>1. /\ DOMAIN poolChain = 1 .. Len(poolChain) /\ Len(poolChain) \in Nat
      /\ scan.from \in Nat /\ scan.to \in Nat /\ scan.to <= Len(poolChain)
  BY DEF ChainOK, ScanOK
<1>2. Window' = Window /\ \A b \in Window : poolChain'[b] = poolChain[b]
  <2>1. CASE poolChain' = poolChain
    BY <2>1 DEF Window
  <2>2. ASSUME NEW e \in PoolEvents, poolChain' = Append(poolChain, e)
        PROVE  Window' = Window /\ \A b \in Window : poolChain'[b] = poolChain[b]
    <3>1. /\ DOMAIN poolChain' = 1 .. Len(poolChain) + 1
          /\ \A b \in 1 .. Len(poolChain) : poolChain'[b] = poolChain[b]
      BY <2>2 DEF ChainOK
    <3> QED BY <1>1, <3>1 DEF Window
  <2> QED BY <2>1, <2>2
<1>3. Due' \subseteq Due
  BY <1>2 DEF Due
<1> QED BY <1>2, <1>3 DEF Wanted

LEMMA PoolEventKeeps ==
    ASSUME BootInv, NEW name \in ToSet(EventNames), NEW a \in Debtors, PoolEvent(name, a)
    PROVE  BootInv'
<1> USE DEF BootInv, PoolEvent, processVars
<1>1. ChainOK'
  <2>1. [name |-> name, account |-> a] \in PoolEvents
    BY DEF PoolEvents
  <2>2. poolChain' \in Seq(PoolEvents)
    BY <2>1 DEF ChainOK
  <2>3. owing' \subseteq owing \cup {a} /\ owing' \subseteq Debtors
    BY DEF ChainOK
  <2> QED BY <2>2, <2>3 DEF ChainOK
<1>2. /\ Due' \subseteq Due /\ Wanted' \subseteq Wanted
      /\ Window' = Window /\ \A b \in Window : poolChain'[b] = poolChain[b]
  BY DueShrinks DEF PoolEvents
<1>3. ScanOK'
  BY DEF ScanOK, ChainOK
<1>4. BootOK' /\ FilesOK'
  BY DEF BootOK, FilesOK
<1>5. LogsAsked'
  <2>1. UNCHANGED <<boot, scan>> /\ LogsAsked
    OBVIOUS
  <2> QED BY ONLY <1>2, <2>1 DEF LogsAsked
<1>6. Carried'
  BY <1>2 DEF Carried, InModel
<1>7. SnapshotCovers' /\ DiscoveryCovers'
  BY <1>2 DEF SnapshotCovers, DiscoveryCovers
<1> QED BY <1>1, <1>3, <1>4, <1>5, <1>6, <1>7

(* A step that leaves the scan alone and nothing in the files but what it  *)
(* ages or breaks.                                                         *)
LEMMA FilesKept ==
    ASSUME BootInv, UNCHANGED scan, FilesOK', Due' \subseteq Due, Wanted' \subseteq Wanted,
           snapshot.age <= snapshot'.age, snapshot'.full = snapshot.full \/ snapshot'.age > FileTtl,
           discovery.age <= discovery'.age,
           \/ discovery'.block = discovery.block /\ discovery'.withDebt = discovery.withDebt
           \/ discovery'.age > FileTtl,
           CacheEnabled /\ snapshot'.age <= FileTtl => boot'.at \in {"down", "up"}
    PROVE  SnapshotCovers' /\ DiscoveryCovers'
<1> USE BootstrapAssumption DEF BootInv, FilesOK
<1>1. SnapshotCovers'
  BY DEF SnapshotCovers
<1>2. DiscoveryCovers'
  BY DEF DiscoveryCovers
<1> QED BY <1>1, <1>2


LEMMA DueSame ==
    ASSUME BootInv, UNCHANGED <<poolChain, scan>>, steady' \subseteq steady, unread \subseteq unread'
    PROVE  Window' = Window /\ Due' \subseteq Due /\ Wanted' \subseteq Wanted
BY DueShrinks DEF BootInv

LEMMA FilesAgeKeeps == ASSUME BootInv, FilesAge PROVE BootInv'
<1> USE DEF BootInv, FilesAge, processVars, scanVars
<1>1. Due' \subseteq Due /\ Wanted' \subseteq Wanted /\ Window' = Window
  BY DueSame
<1>2. /\ FilesOK' /\ snapshot.age <= snapshot'.age /\ discovery.age <= discovery'.age
      /\ snapshot'.full = snapshot.full
      /\ discovery'.block = discovery.block /\ discovery'.withDebt = discovery.withDebt
  <2>1. FileTtl \in Nat
    BY BootstrapAssumption
  <2>2. /\ snapshot' = [snapshot EXCEPT !.age = IF @ <= FileTtl THEN @ + 1 ELSE @]
        /\ discovery' = [discovery EXCEPT !.age = IF @ <= FileTtl THEN @ + 1 ELSE @]
    OBVIOUS
  <2> HIDE DEF FilesAge
  <2>3. /\ snapshot' \in [age: Nat, full: SUBSET Debtors] /\ snapshot.age <= snapshot'.age
        /\ snapshot'.full = snapshot.full
    BY <2>1, <2>2 DEF FilesOK
  <2>4. /\ discovery' \in [age: Nat, block: Nat, withDebt: SUBSET Debtors]
        /\ discovery.age <= discovery'.age
        /\ discovery'.block = discovery.block /\ discovery'.withDebt = discovery.withDebt
    BY <2>1, <2>2 DEF FilesOK
  <2> QED BY <2>3, <2>4 DEF FilesOK
<1>3. ChainOK' /\ ScanOK' /\ BootOK'
  BY <1>2 DEF ChainOK, ScanOK, BootOK
<1>4. LogsAsked' /\ Carried'
  BY <1>1 DEF LogsAsked, Carried, InModel
<1>5. CacheEnabled /\ snapshot'.age <= FileTtl => boot'.at \in {"down", "up"}
  BY <1>2, BootstrapAssumption DEF SnapshotCovers, FilesOK
<1>6. SnapshotCovers' /\ DiscoveryCovers'
  BY <1>1, <1>2, <1>5, FilesKept
<1> QED BY <1>2, <1>3, <1>4, <1>6

(* The end of a process, whatever it does to a file it is writing.         *)
LEMMA EndKeeps ==
    ASSUME BootInv, Ends, UNCHANGED <<poolChain, owing, scanVars>>,
           discovery' \in {discovery, NoDiscovery}, snapshot' \in {snapshot, NoSnapshot}
    PROVE  BootInv'
<1> USE DEF BootInv, Ends, scanVars
<1>1. Due' \subseteq Due /\ Wanted' \subseteq Wanted /\ Window' = Window
  BY DueSame
<1>2. BootOK' /\ boot'.at = "down"
  BY DownTyped DEF BootOK, NoPositions
<1>3. LogsAsked' /\ Carried'
  BY <1>2 DEF LogsAsked, Carried
<1>4. ChainOK' /\ ScanOK' /\ FilesOK'
  <2>1. NoSnapshot \in [age: Nat, full: SUBSET Debtors]
    BY BootstrapAssumption DEF NoSnapshot
  <2>2. /\ NoDiscovery \in [age: Nat, block: Nat, withDebt: SUBSET Debtors]
        /\ NoDiscovery.block = 0
    BY BootstrapAssumption DEF NoDiscovery
  <2>3. ChainOK' /\ FilesOK'
    BY <2>1, <2>2 DEF ChainOK, FilesOK
  <2>4. scan.to \in Nat /\ Len(poolChain') = Len(poolChain) /\ scan' = scan
    BY DEF ScanOK
  <2> QED BY <2>2, <2>3, <2>4 DEF ScanOK
<1>5. SnapshotCovers'
  BY <1>1, <1>2, BootstrapAssumption DEF SnapshotCovers, NoSnapshot
<1>6. DiscoveryCovers'
  BY <1>1, BootstrapAssumption DEF DiscoveryCovers, NoDiscovery
<1> QED BY <1>2, <1>3, <1>4, <1>5, <1>6

LEMMA FromSnapshotKeeps == ASSUME BootInv, FromSnapshot PROVE BootInv'
<1> USE DEF BootInv, FromSnapshot, scanVars
<1>1. Due' \subseteq Due /\ Wanted' \subseteq Wanted /\ Window' = Window
  BY DueSame
<1>2. boot' \in BootRecs /\ boot'.at = "up"
  BY DownTyped DEF BootRecs
<1>3. BootOK'
  BY <1>2 DEF BootOK
<1>4. InModel' = snapshot.full
  BY DEF InModel, FilesOK
<1>5. Wanted \subseteq snapshot.full \/ scan.source # "logs"
  BY DEF SnapshotCovers
<1>6. LogsAsked' /\ Carried'
  BY <1>1, <1>2, <1>4, <1>5 DEF LogsAsked, Carried
<1>7. SnapshotCovers' /\ DiscoveryCovers'
  BY <1>1, <1>2 DEF SnapshotCovers, DiscoveryCovers
<1> QED BY <1>3, <1>6, <1>7 DEF ChainOK, ScanOK, FilesOK

LEMMA FromDiscoveryKeeps == ASSUME BootInv, FromDiscovery PROVE BootInv'
<1> USE DEF BootInv, FromDiscovery, scanVars
<1>1. Due' \subseteq Due /\ Wanted' \subseteq Wanted /\ Window' = Window
  BY DueSame
<1>2. boot' \in BootRecs /\ boot'.at = "accounts" /\ boot'.todo = discovery.withDebt
  BY DownTyped DEF BootRecs, FilesOK
<1>3. BootOK'
  BY <1>2 DEF BootOK
<1>4. scan.source = "logs" => Due \subseteq discovery.withDebt
  <2>1. discovery.block = scan.to
    BY DEF Known, ChainHead, ScanOK, ChainOK, FilesOK
  <2> QED BY <2>1 DEF DiscoveryCovers, Known
<1>5. LogsAsked' /\ Carried'
  BY <1>1, <1>2, <1>4 DEF LogsAsked, Carried, Wanted
<1>6. SnapshotCovers' /\ DiscoveryCovers'
  BY <1>1, <1>2 DEF SnapshotCovers, DiscoveryCovers
<1> QED BY <1>3, <1>5, <1>6 DEF ChainOK, ScanOK, FilesOK

LEMMA FromLogsKeeps == ASSUME BootInv, FromLogs PROVE BootInv'
<1> USE DEF BootInv, FromLogs
<1>1. PICK from \in Nat : /\ boot' = [Down EXCEPT !.at = "logs", !.start = from]
                          /\ scan' = [from |-> from, to |-> ChainHead, source |-> "logs"]
  <2> DEFINE from == IF ChainHead > LookbackBlocks THEN ChainHead - LookbackBlocks ELSE 0
  <2>1. from \in Nat
    BY BootstrapAssumption DEF ChainHead, ChainOK
  <2> QED BY <2>1
<1>2. /\ boot' \in BootRecs /\ boot'.at = "logs" /\ boot'.event = 1 /\ boot'.start = scan'.from
      /\ scan'.source = "logs"
      /\ scan'.to = ChainHead /\ scan' \in [from: Nat, to: Nat, source: {"logs", "subgraph"}]
  <2>1. /\ boot' \in BootRecs /\ boot'.at = "logs" /\ boot'.event = 1 /\ boot'.start = from
    BY <1>1, DownTyped DEF BootRecs, Down
  <2>2. ChainHead \in Nat
    BY DEF ChainHead, ChainOK
  <2> QED BY <1>1, <2>1, <2>2
<1>3. ChainOK' /\ BootOK' /\ FilesOK'
  BY <1>2 DEF ChainOK, BootOK, FilesOK
<1>4. ScanOK'
  BY <1>2 DEF ScanOK, ChainOK, FilesOK, ChainHead
<1>5. LogsAsked'
  <2> SUFFICES ASSUME NEW b \in Window', NEW i \in 1 .. 1, i < 1 \/ b < scan'.from PROVE FALSE
    BY <1>2 DEF LogsAsked
  <2>1. b >= scan'.from
    BY <1>2 DEF Window, ChainOK
  <2> QED BY <2>1, <1>2 DEF Window, ChainOK
<1>6. Carried'
  BY <1>2 DEF Carried
<1>7. SnapshotCovers'
  BY <1>2 DEF SnapshotCovers
<1>8. DiscoveryCovers'
  BY <1>2, BootstrapAssumption DEF DiscoveryCovers, Known
<1> QED BY <1>3, <1>4, <1>5, <1>6, <1>7, <1>8


(* A step within a sweep, which finds no snapshot to start from.           *)
LEMMA SweepFiles ==
    ASSUME BootInv, UNCHANGED <<poolChain, scan, snapshot, discovery>>, steady' \subseteq steady,
           unread \subseteq unread', boot.at \notin {"down", "up"}
    PROVE  SnapshotCovers' /\ DiscoveryCovers'
<1>1. Due' \subseteq Due /\ Wanted' \subseteq Wanted
  BY DueSame
<1> QED BY <1>1 DEF BootInv, SnapshotCovers, DiscoveryCovers

LEMMA ChunkAsked ==
    ASSUME BootInv, NEW b \in Window, ChunkBlocks \in Nat \ {0}
    PROVE  /\ b \in Nat /\ b <= scan.to /\ boot.start \in Nat /\ scan.to \in Nat
           /\ b >= boot.start /\ (b < boot.start + ChunkBlocks \/ ~(boot.start + ChunkBlocks <= scan.to))
                 => b \in boot.start .. ChunkEnd
<1>1. b \in Nat /\ b <= scan.to /\ boot.start \in Nat /\ scan.to \in Nat
  BY DEF BootInv, ScanOK, BootOK, BootRecs, Window
<1> QED BY <1>1 DEF ChunkEnd

LEMMA LogsAnswerKeeps == ASSUME BootInv, LogsAnswer PROVE BootInv'
<1> USE DEF BootInv, LogsAnswer, scanVars
<1> DEFINE hits == {b \in DOMAIN poolChain : b \in boot.start .. ChunkEnd
                                             /\ poolChain[b].name = EventNames[boot.event]}
           asked == [boot EXCEPT !.todo = @ \cup {poolChain[b].account : b \in hits},
                                 !.client = 1, !.attempt = 1]
<1>1. Due' \subseteq Due /\ Wanted' \subseteq Wanted /\ Window' = Window
  BY DueSame
<1>2. \A b \in DOMAIN poolChain : poolChain[b] \in PoolEvents
  BY DEF ChainOK
<1>3. /\ asked \in BootRecs /\ asked.at = "logs" /\ asked.start = boot.start /\ asked.event = boot.event
      /\ asked.todo = boot.todo \cup {poolChain[b].account : b \in hits}
  <2>1. boot.todo \cup {poolChain[b].account : b \in hits} \in SUBSET Debtors
    BY <1>2 DEF BootOK, BootRecs, PoolEvents
  <2>2. asked \in BootRecs
    <3>1. boot \in BootRecs
      BY DEF BootOK
    <3>2. \A T \in SUBSET Debtors : [boot EXCEPT !.todo = T, !.client = 1, !.attempt = 1] \in BootRecs
      BY ONLY <3>1 DEF BootRecs
    <3> QED BY <2>1, <3>2
  <2> QED BY <2>2 DEF BootOK, BootRecs
<1>4. boot' = NextChunk(asked) /\ scan' = scan /\ poolChain' = poolChain
  OBVIOUS
<1>5. /\ ChunkBlocks \in Nat \ {0} /\ scan.to \in Nat /\ scan.from \in Nat
      /\ boot.event \in 1 .. Len(EventNames) /\ boot.start \in Nat
      /\ Len(EventNames) \in Nat /\ DOMAIN EventNames = 1 .. Len(EventNames)
      /\ ToSet(EventNames) = {EventNames[i] : i \in 1 .. Len(EventNames)}
  <2>1. /\ ChunkBlocks \in Nat \ {0} /\ scan.to \in Nat /\ scan.from \in Nat
        /\ boot.event \in DOMAIN EventNames /\ boot.start \in Nat
    BY BootstrapAssumption DEF ScanOK, BootOK, BootRecs
  <2>2. Len(EventNames) \in Nat /\ DOMAIN EventNames = 1 .. Len(EventNames)
    BY BootstrapAssumption
  <2> QED BY <2>1, <2>2 DEF ToSet
<1>6. \A b \in Window, i \in 1 .. boot.event :
         poolChain[b].name = EventNames[i]
           /\ (i < boot.event \/ b < boot.start + ChunkBlocks \/ ~(boot.start + ChunkBlocks <= scan.to))
         => poolChain[b].account \in asked.todo
  <2> SUFFICES ASSUME NEW b \in Window, NEW i \in 1 .. boot.event, poolChain[b].name = EventNames[i],
                      i < boot.event \/ b < boot.start + ChunkBlocks \/ ~(boot.start + ChunkBlocks <= scan.to)
               PROVE  poolChain[b].account \in asked.todo
    OBVIOUS
  <2>1. CASE i < boot.event \/ b < boot.start
    BY <2>1, <1>3 DEF LogsAsked
  <2>2. CASE ~(i < boot.event \/ b < boot.start)
    <3>1. i = boot.event /\ b \in boot.start .. ChunkEnd
      BY <2>2, <1>5, ChunkAsked
    <3>2. b \in hits
      BY <3>1 DEF Window
    <3> QED BY <3>2, <1>3
  <2> QED BY <2>1, <2>2
<1> HIDE DEF asked, hits, LogsAnswer
<1>7. ASSUME boot.start + ChunkBlocks <= scan.to
      PROVE  boot' \in BootRecs /\ LogsAsked' /\ Carried'
  <2>1. boot' = [asked EXCEPT !.start = @ + ChunkBlocks]
    BY <1>3, <1>4, <1>7 DEF NextChunk
  <2>2. boot' \in BootRecs
    <3>1. boot.start + ChunkBlocks \in Nat
      BY <1>5
    <3>2. [asked EXCEPT !.start = boot.start + ChunkBlocks] \in BootRecs
      BY ONLY <3>1, <1>3 DEF BootRecs
    <3> QED BY <2>1, <3>2, <1>3
  <2>4. /\ boot'.at = "logs" /\ boot'.event = boot.event
        /\ boot'.start = boot.start + ChunkBlocks /\ boot'.todo = asked.todo
    BY <2>1, <1>3 DEF BootRecs
  <2>3. LogsAsked'
    BY <1>1, <1>4, <1>6, <2>4 DEF LogsAsked, LogsAnswer
  <2> QED BY <2>2, <2>3, <2>4 DEF Carried
<1>8. ASSUME ~(boot.start + ChunkBlocks <= scan.to) /\ boot.event < Len(EventNames)
      PROVE  boot' \in BootRecs /\ LogsAsked' /\ Carried'
  <2>1. boot' = [asked EXCEPT !.event = @ + 1, !.start = scan.from]
    BY <1>3, <1>4, <1>8 DEF NextChunk
  <2>2. boot' \in BootRecs
    <3>1. boot.event + 1 \in DOMAIN EventNames
      BY <1>5, <1>8
    <3>2. [asked EXCEPT !.event = boot.event + 1, !.start = scan.from] \in BootRecs
      BY ONLY <3>1, <1>3, <1>5 DEF BootRecs
    <3> QED BY <2>1, <3>2, <1>3
  <2>4. /\ boot'.at = "logs" /\ boot'.event = boot.event + 1
        /\ boot'.start = scan.from /\ boot'.todo = asked.todo
    BY <2>1, <1>3 DEF BootRecs
  <2>3. LogsAsked'
    <3> SUFFICES ASSUME NEW b \in Window, NEW i \in 1 .. boot.event + 1,
                        poolChain[b].name = EventNames[i], i < boot.event + 1 \/ b < scan.from
                 PROVE  poolChain[b].account \in asked.todo
      BY <1>1, <1>4, <2>4 DEF LogsAsked, LogsAnswer
    <3>1. i \in 1 .. boot.event
      BY <1>5 DEF Window
    <3> QED BY <3>1, <1>6, <1>8
  <2> QED BY <2>2, <2>3, <2>4 DEF Carried
<1>9. ASSUME ~(boot.start + ChunkBlocks <= scan.to) /\ ~(boot.event < Len(EventNames))
      PROVE  boot' \in BootRecs /\ LogsAsked' /\ Carried'
  <2>1. boot' = [asked EXCEPT !.at = "filter"]
    BY <1>3, <1>4, <1>9 DEF NextChunk
  <2>2. boot' \in BootRecs /\ boot'.at = "filter" /\ boot'.todo = asked.todo
    <3>1. [asked EXCEPT !.at = "filter"] \in BootRecs
      BY ONLY <1>3 DEF BootRecs
    <3> QED BY <2>1, <3>1, <1>3 DEF BootRecs
  <2>3. boot.event = Len(EventNames)
    BY <1>5, <1>9
  <2>4. Due \subseteq asked.todo
    <3> SUFFICES ASSUME NEW b \in Window PROVE poolChain[b].account \in asked.todo
      BY DEF Due
    <3>1. poolChain[b] \in PoolEvents
      BY <1>2 DEF Window
    <3>2. PICK i \in 1 .. boot.event : poolChain[b].name = EventNames[i]
      BY <3>1, <2>3, <1>5 DEF PoolEvents
    <3> QED BY <3>2, <1>6, <1>9
  <2>5. LogsAsked' /\ Carried'
    BY <1>1, <2>2, <2>4 DEF LogsAsked, Carried
  <2> QED BY <2>2, <2>5
<1>10. SnapshotCovers' /\ DiscoveryCovers'
  BY SweepFiles DEF LogsAnswer
<1>11. ChainOK' /\ ScanOK' /\ FilesOK' /\ UNCHANGED model
  BY DEF ChainOK, ScanOK, FilesOK, LogsAnswer
<1> QED BY <1>7, <1>8, <1>9, <1>10, <1>11 DEF BootOK

LEMMA LogsRetriedKeeps == ASSUME BootInv, LogsRetried PROVE BootInv'
<1> USE DEF BootInv, LogsRetried, scanVars
<1>1. Due' \subseteq Due /\ Wanted' \subseteq Wanted /\ Window' = Window
  BY DueSame
<1>2. /\ boot' \in BootRecs /\ boot'.at = "logs" /\ boot'.event = boot.event
      /\ boot'.start = boot.start /\ boot'.todo = boot.todo
  <2>1. boot \in BootRecs /\ boot.attempt + 1 \in Nat /\ boot.client + 1 \in Nat
    BY DEF BootOK, BootRecs
  <2>2. CASE boot' = [boot EXCEPT !.attempt = boot.attempt + 1]
    <3>1. [boot EXCEPT !.attempt = boot.attempt + 1] \in BootRecs
      BY ONLY <2>1 DEF BootRecs
    <3> QED BY <2>1, <2>2, <3>1 DEF BootRecs
  <2>3. CASE boot' = [boot EXCEPT !.attempt = 1, !.client = boot.client + 1]
    <3>1. [boot EXCEPT !.attempt = 1, !.client = boot.client + 1] \in BootRecs
      BY ONLY <2>1 DEF BootRecs
    <3> QED BY <2>1, <2>3, <3>1 DEF BootRecs
  <2> QED BY <2>2, <2>3
<1>3. LogsAsked' /\ Carried'
  BY <1>1, <1>2 DEF LogsAsked, Carried
<1>4. SnapshotCovers' /\ DiscoveryCovers'
  BY SweepFiles
<1> QED BY <1>2, <1>3, <1>4 DEF ChainOK, ScanOK, FilesOK, BootOK


LEMMA ToSubgraphKeeps ==
    ASSUME BootInv, boot.at = "logs", boot' = [Down EXCEPT !.at = "subgraph"],
           UNCHANGED <<poolChain, owing, model, snapshot, discovery, scanVars>>
    PROVE  BootInv'
<1> USE DEF BootInv, scanVars
<1>1. boot' \in BootRecs /\ boot'.at = "subgraph"
  BY DownTyped DEF BootRecs
<1>2. LogsAsked' /\ Carried'
  BY <1>1 DEF LogsAsked, Carried
<1>3. SnapshotCovers' /\ DiscoveryCovers'
  BY SweepFiles
<1> QED BY <1>1, <1>2, <1>3 DEF ChainOK, ScanOK, FilesOK, BootOK

LEMMA SubgraphAnswersKeeps == ASSUME BootInv, SubgraphAnswers PROVE BootInv'
<1> USE DEF BootInv, SubgraphAnswers
<1>1. PICK listed \in SUBSET Debtors : boot' = [boot EXCEPT !.at = "filter", !.todo = listed]
  OBVIOUS
<1>2. boot \in BootRecs
  BY DEF BootOK
<1>3. [boot EXCEPT !.at = "filter", !.todo = listed] \in BootRecs
  BY ONLY <1>2, listed \in SUBSET Debtors DEF BootRecs
<1>4. boot' \in BootRecs /\ boot'.at = "filter"
  BY <1>1, <1>2, <1>3 DEF BootRecs
<1>5. /\ scan' = [scan EXCEPT !.source = "subgraph"]
      /\ scan \in [from: Nat, to: Nat, source: {"logs", "subgraph"}]
  BY DEF ScanOK
<1>6. /\ scan' \in [from: Nat, to: Nat, source: {"logs", "subgraph"}]
      /\ scan'.source = "subgraph" /\ scan'.to = scan.to
  BY <1>5
<1>7. ScanOK' /\ ChainOK' /\ FilesOK' /\ BootOK'
  BY <1>4, <1>6 DEF ScanOK, ChainOK, FilesOK, BootOK
<1>8. LogsAsked' /\ Carried' /\ SnapshotCovers' /\ DiscoveryCovers'
  BY <1>4, <1>6 DEF LogsAsked, Carried, SnapshotCovers, DiscoveryCovers
<1> QED BY <1>7, <1>8

LEMMA BatchTyped == \A batch \in NextBatches : batch \subseteq boot.todo
BY DEF NextBatches, kSubset

LEMMA FilterBatchKeeps == ASSUME BootInv, FilterBatch PROVE BootInv'
<1> USE DEF BootInv, FilterBatch
<1>1. PICK batch \in NextBatches : \E failed \in SUBSET batch :
         /\ boot' = [boot EXCEPT !.todo = @ \ batch, !.kept = @ \cup ((batch \ failed) \cap owing)]
         /\ unread' = unread \cup failed
  OBVIOUS
<1>2. PICK failed \in SUBSET batch :
         /\ boot' = [boot EXCEPT !.todo = boot.todo \ batch,
                                 !.kept = boot.kept \cup ((batch \ failed) \cap owing)]
         /\ unread' = unread \cup failed
  BY <1>1
<1>3. Due' \subseteq Due /\ Wanted' \subseteq Wanted /\ Window' = Window
  BY <1>2, DueSame
<1>4. boot \in BootRecs /\ batch \subseteq boot.todo
  BY <1>1, BatchTyped DEF BootOK
<1>5. boot' \in BootRecs
  <2>1. /\ boot.todo \ batch \in SUBSET Debtors
        /\ boot.kept \cup ((batch \ failed) \cap owing) \in SUBSET Debtors
    BY <1>4 DEF BootRecs
  <2>2. \A T, K \in SUBSET Debtors : [boot EXCEPT !.todo = T, !.kept = K] \in BootRecs
    BY ONLY <1>4 DEF BootRecs
  <2> QED BY <1>2, <2>1, <2>2
<1>6. /\ boot'.at = "filter" /\ boot'.todo = boot.todo \ batch
      /\ boot'.kept = boot.kept \cup ((batch \ failed) \cap owing)
  BY <1>2, <1>4 DEF BootRecs
<1>7. scan.source = "logs" => Due' \subseteq boot'.todo \cup boot'.kept
  <2>1. Due' \cap unread' = {} /\ Due' \subseteq owing
    BY DEF Due, ChainOK
  <2> QED BY <1>2, <1>3, <1>6, <2>1 DEF Carried
<1>8. LogsAsked' /\ Carried'
  BY <1>6, <1>7 DEF LogsAsked, Carried
<1>9. SnapshotCovers' /\ DiscoveryCovers'
  BY <1>2, SweepFiles
<1> QED BY <1>5, <1>8, <1>9 DEF ChainOK, ScanOK, FilesOK, BootOK

LEMMA SaveDiscoveryKeeps == ASSUME BootInv, SaveDiscovery PROVE BootInv'
<1> USE DEF BootInv, SaveDiscovery, scanVars
<1>1. Due' \subseteq Due /\ Wanted' \subseteq Wanted /\ Window' = Window
  BY DueSame
<1>2. boot \in BootRecs /\ boot.kept \in SUBSET Debtors
  BY DEF BootOK, BootRecs
<1>3. boot' \in BootRecs /\ boot'.at = "accounts" /\ boot'.todo = boot.kept
  BY <1>2, DownTyped DEF BootRecs
<1>4. FilesOK' /\ discovery'.block = scan.to /\ discovery'.withDebt = boot.kept
  BY <1>2 DEF FilesOK, ScanOK
<1>5. scan.source = "logs" => Due \subseteq boot.kept
  BY DEF Carried
<1>6. ScanOK'
  BY <1>4 DEF ScanOK
<1>7. LogsAsked' /\ Carried'
  BY <1>1, <1>3, <1>5 DEF LogsAsked, Carried, Wanted
<1>8. SnapshotCovers'
  BY <1>1, <1>3 DEF SnapshotCovers
<1>9. DiscoveryCovers'
  BY <1>1, <1>4, <1>5 DEF DiscoveryCovers
<1> QED BY <1>3, <1>4, <1>6, <1>7, <1>8, <1>9 DEF ChainOK, BootOK


LEMMA AccountRowsKeeps == ASSUME BootInv, AccountRows PROVE BootInv'
<1> USE DEF BootInv, AccountRows
<1>1. PICK batch \in NextBatches : \E failed \in SUBSET batch :
         /\ boot' = [boot EXCEPT !.at = "reserves", !.todo = @ \ batch, !.rows = (batch \ failed) \cap owing]
         /\ unread' = unread \cup failed
  OBVIOUS
<1>2. PICK failed \in SUBSET batch :
         /\ boot' = [boot EXCEPT !.at = "reserves", !.todo = boot.todo \ batch,
                                 !.rows = (batch \ failed) \cap owing]
         /\ unread' = unread \cup failed
  BY <1>1
<1>3. Due' \subseteq Due /\ Wanted' \subseteq Wanted /\ Window' = Window
  BY <1>2, DueSame
<1>4. boot \in BootRecs /\ batch \subseteq boot.todo
  BY <1>1, BatchTyped DEF BootOK
<1>5. boot' \in BootRecs
  <2>1. boot.todo \ batch \in SUBSET Debtors /\ (batch \ failed) \cap owing \in SUBSET Debtors
    BY <1>4 DEF BootRecs
  <2>2. \A T, R \in SUBSET Debtors : [boot EXCEPT !.at = "reserves", !.todo = T, !.rows = R] \in BootRecs
    BY ONLY <1>4 DEF BootRecs
  <2> QED BY <1>2, <2>1, <2>2
<1>6. /\ boot'.at = "reserves" /\ boot'.todo = boot.todo \ batch
      /\ boot'.rows = (batch \ failed) \cap owing
  BY <1>2, <1>4 DEF BootRecs
<1>7. scan.source = "logs" => Wanted' \subseteq boot'.todo \cup boot'.rows \cup InModel'
  <2>1. Wanted' \cap unread' = {} /\ Wanted' \subseteq owing /\ InModel' = InModel
    BY DEF Wanted, Due, ChainOK, InModel
  <2> QED BY <1>2, <1>3, <1>6, <2>1 DEF Carried
<1>8. LogsAsked' /\ Carried'
  BY <1>6, <1>7 DEF LogsAsked, Carried
<1>9. SnapshotCovers' /\ DiscoveryCovers'
  BY <1>2, SweepFiles
<1> QED BY <1>5, <1>8, <1>9 DEF ChainOK, ScanOK, FilesOK, BootOK

LEMMA ReserveRowsKeeps == ASSUME BootInv, ReserveRows PROVE BootInv'
<1> USE DEF BootInv, ReserveRows
<1>1. PICK failed \in SUBSET boot.rows :
        LET taken == IF HasAllowlist THEN (boot.rows \ failed) \cap Holders ELSE boot.rows
        IN  /\ model' = [a \in Debtors |-> IF a \notin taken THEN model[a]
                                           ELSE IF a \in failed THEN "bare" ELSE "full"]
            /\ boot' = [boot EXCEPT !.at = "accounts", !.rows = {}, !.seeded = @ + Cardinality(taken)]
            /\ unread' = unread \cup failed
  OBVIOUS
<1> DEFINE taken == IF HasAllowlist THEN (boot.rows \ failed) \cap Holders ELSE boot.rows
<1>2. Due' \subseteq Due /\ Wanted' \subseteq Wanted /\ Window' = Window
  BY <1>1, DueSame
<1>3. boot \in BootRecs /\ boot.rows \subseteq Debtors /\ taken \subseteq Debtors
  BY DEF BootOK, BootRecs
<1>4. boot' \in BootRecs /\ boot'.at = "accounts" /\ boot'.todo = boot.todo
  <2>1. boot.seeded + Cardinality(taken) \in Nat
    <3>1. IsFiniteSet(taken)
      BY <1>3, FS_Subset, BootstrapAssumption
    <3>2. Cardinality(taken) \in Nat
      BY <3>1, FS_CardinalityType
    <3> QED BY <1>3, <3>2 DEF BootRecs
  <2>2. boot' = [boot EXCEPT !.at = "accounts", !.rows = {}, !.seeded = boot.seeded + Cardinality(taken)]
    BY <1>1
  <2> HIDE DEF taken
  <2>3. \A n \in Nat : [boot EXCEPT !.at = "accounts", !.rows = {}, !.seeded = n] \in BootRecs
    BY ONLY <1>3 DEF BootRecs
  <2>4. boot' \in BootRecs
    BY <2>1, <2>2, <2>3
  <2> QED BY <2>2, <2>4, <1>3 DEF BootRecs
<1>5. model' \in [Debtors -> {"none", "bare", "full"}]
  <2>1. model \in [Debtors -> {"none", "bare", "full"}]
    BY DEF BootOK
  <2> QED BY <1>1, <2>1
<1>6. scan.source = "logs" => Wanted' \subseteq boot'.todo \cup InModel'
  <2>1. ASSUME NEW a \in Wanted', a \in InModel \/ a \in boot.rows PROVE a \in InModel'
    <3>1. a \notin failed /\ (HasAllowlist => a \in Holders)
      BY <1>1 DEF Wanted, Due
    <3> QED BY <1>1, <1>3, <2>1, <3>1 DEF InModel
  <2> QED BY <1>2, <1>4, <2>1 DEF Carried
<1>7. LogsAsked' /\ Carried'
  BY <1>4, <1>6 DEF LogsAsked, Carried
<1>8. SnapshotCovers' /\ DiscoveryCovers'
  BY <1>1, SweepFiles
<1> QED BY <1>4, <1>5, <1>7, <1>8 DEF ChainOK, ScanOK, FilesOK, BootOK

LEMMA SaveSnapshotKeeps == ASSUME BootInv, SaveSnapshot PROVE BootInv'
<1> USE DEF BootInv, SaveSnapshot, scanVars
<1>1. Due' \subseteq Due /\ Wanted' \subseteq Wanted /\ Window' = Window
  BY DueSame
<1>2. boot' \in BootRecs /\ boot'.at = "up"
  BY DownTyped DEF BootRecs
<1>3. scan.source = "logs" => Wanted \subseteq InModel
  BY DEF Carried
<1>4. FilesOK' /\ (snapshot' = snapshot \/ snapshot'.full = InModel)
  <2>1. InModel \in SUBSET Debtors
    BY DEF InModel
  <2>2. snapshot' = snapshot \/ snapshot' = [age |-> 0, full |-> InModel]
    BY DEF InModel
  <2> QED BY <2>1, <2>2 DEF FilesOK
<1>5. InModel' = InModel
  BY DEF InModel
<1>6. LogsAsked' /\ Carried'
  BY <1>1, <1>2, <1>3, <1>5 DEF LogsAsked, Carried
<1>7. SnapshotCovers' /\ DiscoveryCovers'
  BY <1>1, <1>2, <1>3, <1>4 DEF SnapshotCovers, DiscoveryCovers
<1> QED BY <1>2, <1>4, <1>6, <1>7 DEF ChainOK, ScanOK, BootOK

LEMMA BootStep == BootInv /\ [BootstrapNext]_bootstrapVars => BootInv'
<1>1. ASSUME BootInv, Stops PROVE BootInv'
  BY <1>1, EndKeeps DEF Stops
<1>2. ASSUME BootInv, LogsFail PROVE BootInv'
  BY <1>2, EndKeeps, ToSubgraphKeeps DEF LogsFail
<1>3. ASSUME BootInv, SweepThrows PROVE BootInv'
  BY <1>3, EndKeeps DEF SweepThrows
<1>4. ASSUME BootInv, UNCHANGED bootstrapVars PROVE BootInv'
  BY <1>4 DEF bootstrapVars, BootInv, ChainOK, ScanOK, BootOK, FilesOK, LogsAsked, Carried, SnapshotCovers,
              DiscoveryCovers, Window, Due, Wanted, InModel
<1> QED BY <1>1, <1>2, <1>3, <1>4, PoolEventKeeps, FilesAgeKeeps, FromSnapshotKeeps, FromDiscoveryKeeps,
           FromLogsKeeps, LogsAnswerKeeps, LogsRetriedKeeps, SubgraphAnswersKeeps, FilterBatchKeeps,
           SaveDiscoveryKeeps, AccountRowsKeeps, ReserveRowsKeeps, SaveSnapshotKeeps DEF BootstrapNext

(* When a sweep of the logs is over, or a process starts from a file of it,*)
(* the model has everybody the scanned blocks name, but for who stopped to *)
(* owe, the rows that failed and the allowlist                             *)
(* (partialBootstrapSweep.ts:120-210,373-399,536-566), however many blocks,*)
(* chunks, events, clients and accounts there are.                         *)
THEOREM SweepComplete == BootstrapSpec => []SweepMissesNone
<1>1. BootInv => SweepMissesNone
  <2> SUFFICES ASSUME BootInv, boot.at = "up", scan.source = "logs", NEW b \in DOMAIN poolChain,
                      b \in scan.from .. scan.to, poolChain[b].account \in steady \ unread,
                      HasAllowlist => poolChain[b].account \in Holders
               PROVE  model[poolChain[b].account] = "full"
    BY DEF SweepMissesNone
  <2>1. poolChain[b].account \in Wanted
    BY DEF Wanted, Due, Window
  <2> QED BY <2>1 DEF BootInv, Carried, InModel
<1> QED BY <1>1, BootInitOK, BootStep, PTL DEF BootstrapSpec

-----------------------------------------------------------------------------
(* ArbScan: identities are unique.  A signature is taken once in a tick,   *)
(* so that no two candidates of the workers have one identity, nor one the *)
(* queue knows; whoever has one of this tick has the signature.            *)

ArbPlaces == {"idle", "quote", "simulate", "price", "evaluate"}
WorkerRecs == [at: ArbPlaces, route: ToSet(Routes), probe: 1 .. Probes, quotes: {0, 1},
               best: 0 .. Probes, since: Nat, revenue: 0 .. 2]
Identities == [sig: Signatures, at: Nat]
SeenRecs == [sig: Signatures, at: Nat, seen: Nat]

ArbTypes ==
    /\ now \in Nat /\ routesLeft \in Seq(ToSet(Routes)) /\ worker \in [QuoteWorkers -> WorkerRecs]
    /\ signed \in [Signatures -> Int]
    /\ queue \in Seq(Identities) /\ Len(queue) <= QueueLimit /\ seenIds \subseteq SeenRecs
    /\ counts \in [approved: Nat, drained: Nat, displaced: Nat]
    /\ \A w \in QuoteWorkers : worker[w].at = "evaluate" => worker[w].best # 0

(* The identities in flight, and those that wait or were seen.             *)
HasBest(w) == worker[w].best # 0
IdKnown(id) == \/ \E i \in DOMAIN queue : queue[i] = id
             \/ \E s \in seenIds : s.sig = id.sig /\ s.at = id.at

Signed(id) == id.at <= now /\ (id.at = now => signed[id.sig] = now)
SignedAll ==
    /\ \A w \in QuoteWorkers : HasBest(w) => Signed(Identity(worker[w]))
    /\ \A id \in Identities : IdKnown(id) => Signed(id)
FlightsDiffer ==
    \A w, v \in QuoteWorkers : w # v /\ HasBest(w) /\ HasBest(v) => Identity(worker[w]) # Identity(worker[v])
FlightsUnknown == \A w \in QuoteWorkers : HasBest(w) => ~ IdKnown(Identity(worker[w]))

ArbInv == ArbTypes /\ (~stopped => SignedAll /\ FlightsDiffer /\ FlightsUnknown /\ ApprovedIsAccounted)

LEMMA RestTyped == Resting \in WorkerRecs /\ Resting.at = "idle" /\ Resting.best = 0
BY ArbScanAssumption DEF Resting, WorkerRecs, ArbPlaces, ToSet

LEMMA ArbInitOK == ArbInit => ArbInv
<1> SUFFICES ASSUME ArbInit PROVE ArbInv
  OBVIOUS
<1>1. ArbTypes
  BY RestTyped, ArbScanAssumption DEF ArbInit, ArbTypes
<1>2. \A w \in QuoteWorkers : ~ HasBest(w)
  BY RestTyped DEF ArbInit, HasBest
<1>3. \A id : ~ IdKnown(id)
  BY DEF ArbInit, IdKnown
<1>4. ApprovedIsAccounted
  BY DEF ArbInit, ApprovedIsAccounted
<1> QED BY <1>1, <1>2, <1>3, <1>4 DEF ArbInv, SignedAll, FlightsDiffer, FlightsUnknown

LEMMA IdentityTyped == \A r \in WorkerRecs : r.best # 0 => Identity(r) \in Identities
BY DEF WorkerRecs, Identity, Identities, Signatures

(* A step after which nobody has a new identity, and nothing of this tick  *)
(* is forgotten.                                                           *)
LEMMA NoNewIdentity ==
    ASSUME ArbInv, ArbTypes', stopped => stopped', now' >= now,
           \A w \in QuoteWorkers : HasBest(w)' => HasBest(w) /\ Identity(worker'[w]) = Identity(worker[w]),
           \A id \in Identities : IdKnown(id)' => IdKnown(id),
           now' = now => \A s \in Signatures : signed[s] = now => signed'[s] = now,
           ~stopped' => ApprovedIsAccounted'
    PROVE  ArbInv'
<1> SUFFICES ASSUME ~stopped' PROVE SignedAll' /\ FlightsDiffer' /\ FlightsUnknown'
  BY DEF ArbInv
<1>1. SignedAll /\ FlightsDiffer /\ FlightsUnknown /\ now \in Nat /\ now' \in Nat
  BY DEF ArbInv, ArbTypes
<1>2. ASSUME NEW id \in Identities, Signed(id) PROVE Signed(id)'
  BY <1>1, <1>2 DEF Signed, Identities
<1>3. \A w \in QuoteWorkers : HasBest(w) => Identity(worker[w]) \in Identities
  BY IdentityTyped DEF ArbInv, ArbTypes, HasBest
<1>4. SignedAll'
  BY <1>1, <1>2, <1>3 DEF SignedAll
<1>5. FlightsDiffer' /\ FlightsUnknown'
  BY <1>1, <1>3 DEF FlightsDiffer, FlightsUnknown
<1> QED BY <1>4, <1>5


(* What a worker does that leaves the queue alone: it keeps its identity   *)
(* or gives it up.                                                         *)
Follows(r, w) ==
    /\ r \in WorkerRecs /\ (r.at = "evaluate" => r.best # 0)
    /\ r.best # 0 => worker[w].best # 0 /\ Identity(r) = Identity(worker[w])

LEMMA WorkerFollows ==
    ASSUME ArbInv, NEW w \in QuoteWorkers, NEW r, Becomes(w, r), Follows(r, w),
           UNCHANGED <<signed, queue, seenIds, counts, stopped>>,
           now' \in Nat, now' >= now, routesLeft' \in Seq(ToSet(Routes))
    PROVE  ArbInv'
<1>1. /\ worker' \in [QuoteWorkers -> WorkerRecs]
      /\ \A v \in QuoteWorkers : worker'[v] = IF v = w THEN r ELSE worker[v]
  BY DEF ArbInv, ArbTypes, Becomes, Follows
<1>2. ArbTypes'
  BY <1>1 DEF ArbInv, ArbTypes, Follows
<1>3. \A v \in QuoteWorkers : HasBest(v)' => HasBest(v) /\ Identity(worker'[v]) = Identity(worker[v])
  BY <1>1 DEF HasBest, Follows
<1>4. \A id \in Identities : IdKnown(id)' => IdKnown(id)
  BY DEF IdKnown
<1>5. ~stopped' => ApprovedIsAccounted'
  BY DEF ArbInv, ApprovedIsAccounted
<1> QED BY <1>2, <1>3, <1>4, <1>5, NoNewIdentity

LEMMA RestFollows == \A w \in QuoteWorkers : Follows(Resting, w)
BY RestTyped DEF Follows

LEMMA QuietSteps ==
    ASSUME ArbInv,
           \/ ClockTicks \/ PruneTimers \/ StopScanner \/ PollStarts \/ GasPriceRead \/ PollEnds
           \/ \E pool \in MirrorPools : MirrorLog(pool)
    PROVE  ArbInv'
<1>1. ArbTypes /\ now \in Nat /\ QuoteWindow \in Nat
  BY ArbScanAssumption DEF ArbInv, ArbTypes
<1>2. UNCHANGED <<worker, queue, counts>> /\ seenIds' \subseteq seenIds /\ now' \in Nat /\ now' >= now
  BY <1>1 DEF ClockTicks, PruneTimers, StopScanner, PollStarts, GasPriceRead, PollEnds, MirrorLog, PrunedSeen
<1>3. \/ StopScanner
      \/ stopped' = stopped /\ (signed' = signed \/ signed' = PrunedSigned)
  BY DEF ClockTicks, PruneTimers, StopScanner, PollStarts, GasPriceRead, PollEnds, MirrorLog
<1>4. signed' \in [Signatures -> Int]
  BY <1>1, <1>3 DEF ArbTypes, StopScanner, PrunedSigned
<1>5. routesLeft' \in Seq(ToSet(Routes))
  <2>1. Routes \in Seq(ToSet(Routes)) /\ routesLeft \in Seq(ToSet(Routes))
    BY <1>1, ArbScanAssumption DEF ArbTypes
  <2>2. routesLeft' = routesLeft \/ routesLeft' = routesLeft \o Routes
    BY DEF ClockTicks, PruneTimers, StopScanner, PollStarts, GasPriceRead, PollEnds, MirrorLog
  <2> QED BY <2>1, <2>2, ConcatProperties
<1>6. ArbTypes'
  BY <1>1, <1>2, <1>4, <1>5 DEF ArbTypes
<1>7. CASE StopScanner
  BY <1>6, <1>7 DEF ArbInv, StopScanner
<1>8. CASE stopped' = stopped /\ (signed' = signed \/ signed' = PrunedSigned)
  <2>1. now' = now => \A s \in Signatures : signed[s] = now => signed'[s] = now
    BY <1>1, <1>8 DEF PrunedSigned
  <2>2. \A id \in Identities : IdKnown(id)' => IdKnown(id)
    BY <1>2 DEF IdKnown
  <2>3. ~stopped' => ApprovedIsAccounted'
    BY <1>2, <1>8 DEF ArbInv, ApprovedIsAccounted
  <2>4. \A w \in QuoteWorkers : HasBest(w)' => HasBest(w) /\ Identity(worker'[w]) = Identity(worker[w])
    BY <1>2 DEF HasBest
  <2> QED BY <1>2, <1>6, <1>8, <2>1, <2>2, <2>3, <2>4, NoNewIdentity
<1> QED BY <1>3, <1>7, <1>8

LEMMA DrainKeeps == ASSUME ArbInv, Drain PROVE ArbInv'
<1> USE DEF Drain
<1>1. /\ ArbTypes /\ Len(queue) \in Nat /\ counts \in [approved: Nat, drained: Nat, displaced: Nat]
  BY DEF ArbInv, ArbTypes
<1>2. /\ counts' \in [approved: Nat, drained: Nat, displaced: Nat]
      /\ counts'.approved = counts.approved /\ counts'.displaced = counts.displaced
      /\ counts'.drained = counts.drained + Len(queue)
  BY <1>1
<1>3. ArbTypes'
  BY <1>1, <1>2, ArbScanAssumption DEF ArbTypes
<1>4. \A id \in Identities : IdKnown(id)' => IdKnown(id)
  BY DEF IdKnown
<1>5. ~stopped' => ApprovedIsAccounted'
  BY <1>1, <1>2 DEF ArbInv, ApprovedIsAccounted
<1>6. \A w \in QuoteWorkers : HasBest(w)' => HasBest(w) /\ Identity(worker'[w]) = Identity(worker[w])
  BY DEF HasBest
<1> QED BY <1>1, <1>3, <1>4, <1>5, <1>6, NoNewIdentity DEF ArbTypes


LEMMA NextProbeFollows ==
    ASSUME NEW r \in WorkerRecs
    PROVE  /\ NextProbe(r) \in WorkerRecs /\ (NextProbe(r).at = "evaluate" => NextProbe(r).best # 0)
           /\ NextProbe(r).best # 0 => r.best # 0 /\ Identity(NextProbe(r)) = Identity(r)
<1>1. CASE r.probe < Probes
  <2>1. r.probe + 1 \in 1 .. Probes
    BY <1>1, ArbScanAssumption DEF WorkerRecs
  <2>2. NextProbe(r) = [r EXCEPT !.at = "quote", !.probe = r.probe + 1, !.quotes = 0]
    BY <1>1 DEF NextProbe
  <2>3. NextProbe(r) \in WorkerRecs
    BY <2>1, <2>2 DEF WorkerRecs, ArbPlaces
  <2>4. NextProbe(r).at = "quote" /\ NextProbe(r).best = r.best /\ Identity(NextProbe(r)) = Identity(r)
    BY <2>2 DEF WorkerRecs, Identity
  <2> QED BY <2>3, <2>4
<1>2. CASE ~(r.probe < Probes) /\ r.best # 0
  <2>1. NextProbe(r) = [r EXCEPT !.at = "evaluate", !.quotes = 0]
    BY <1>2 DEF NextProbe
  <2>2. NextProbe(r) \in WorkerRecs
    BY <2>1 DEF WorkerRecs, ArbPlaces
  <2>3. NextProbe(r).best = r.best /\ Identity(NextProbe(r)) = Identity(r)
    BY <2>1 DEF WorkerRecs, Identity
  <2> QED BY <1>2, <2>2, <2>3
<1>3. CASE ~(r.probe < Probes) /\ r.best = 0
  BY <1>3, RestTyped DEF NextProbe
<1> QED BY <1>1, <1>2, <1>3

LEMMA AtOnly ==
    ASSUME NEW r \in WorkerRecs
    PROVE  /\ \A at \in ArbPlaces : /\ [r EXCEPT !.at = at] \in WorkerRecs /\ [r EXCEPT !.at = at].at = at
                                    /\ [r EXCEPT !.at = at].best = r.best
                                    /\ Identity([r EXCEPT !.at = at]) = Identity(r)
           /\ [r EXCEPT !.quotes = 1] \in WorkerRecs /\ [r EXCEPT !.quotes = 1].at = r.at
           /\ [r EXCEPT !.quotes = 1].best = r.best /\ Identity([r EXCEPT !.quotes = 1]) = Identity(r)
BY DEF WorkerRecs, Identity

LEMMA ProbingKeeps ==
    ASSUME ArbInv, NEW w \in QuoteWorkers,
           \/ TakeRoute(w) \/ QuoteAnswers(w) \/ QuoteFails(w) \/ Simulated(w) \/ PriceThrows(w)
           \/ EvaluationThrows(w)
    PROVE  ArbInv'
<1> DEFINE r == worker[w]
<1>1. /\ r \in WorkerRecs /\ now \in Nat /\ routesLeft \in Seq(ToSet(Routes)) /\ now + 1 >= now
      /\ (r.at = "evaluate" => r.best # 0) /\ <<>> \in Seq(ToSet(Routes))
  BY DEF ArbInv, ArbTypes
<1> USE DEF Works
<1>2. CASE TakeRoute(w)
  <2>1. /\ routesLeft' \in Seq(ToSet(Routes)) /\ Head(routesLeft) \in ToSet(Routes)
    BY <1>1, <1>2 DEF TakeRoute
  <2>2. Follows([Resting EXCEPT !.at = "quote", !.route = Head(routesLeft)], w)
    <3>1. [Resting EXCEPT !.at = "quote", !.route = Head(routesLeft)] \in WorkerRecs
      BY <2>1, RestTyped DEF WorkerRecs, ArbPlaces
    <3> QED BY <3>1, RestTyped DEF Follows, WorkerRecs
  <2> QED BY <1>1, <1>2, <2>1, <2>2, WorkerFollows DEF TakeRoute
<1>3. CASE QuoteAnswers(w)
  <2>1. /\ Follows([r EXCEPT !.quotes = 1], w)
        /\ Follows([r EXCEPT !.at = "simulate"], w) /\ Follows(NextProbe(r), w)
    <3>1. "simulate" \in ArbPlaces
      BY DEF ArbPlaces
    <3> QED BY <1>1, <3>1, AtOnly, NextProbeFollows DEF Follows
  <2>2. \E q : Becomes(w, q) /\ Follows(q, w)
    BY <1>3, <2>1 DEF QuoteAnswers
  <2> QED BY <1>1, <1>3, <2>2, WorkerFollows DEF QuoteAnswers
<1>4. CASE QuoteFails(w)
  BY <1>1, <1>4, NextProbeFollows, WorkerFollows DEF QuoteFails, Follows
<1>5. CASE Simulated(w)
  <2>1. Follows([r EXCEPT !.at = "price"], w) /\ Follows(NextProbe(r), w)
    <3>1. "price" \in ArbPlaces
      BY DEF ArbPlaces
    <3> QED BY <1>1, <3>1, AtOnly, NextProbeFollows DEF Follows
  <2>2. \E q : Becomes(w, q) /\ Follows(q, w)
    BY <1>5, <2>1 DEF Simulated
  <2> QED BY <1>1, <1>5, <2>2, WorkerFollows DEF Simulated
<1>6. CASE PriceThrows(w)
  BY <1>1, <1>6, RestFollows, WorkerFollows DEF PriceThrows
<1>7. CASE EvaluationThrows(w)
  <2>1. Becomes(w, Resting) /\ now' \in Nat /\ now' >= now /\ routesLeft' \in Seq(ToSet(Routes))
    BY <1>1, <1>7 DEF EvaluationThrows
  <2> QED BY <1>7, <2>1, RestFollows, WorkerFollows DEF EvaluationThrows
<1> QED BY <1>2, <1>3, <1>4, <1>5, <1>6, <1>7


(* A signature that is free has not been taken in this tick.               *)
LEMMA FreeIsNew ==
    ASSUME ArbInv, ~stopped, NEW s \in Signatures, PrunedSigned[s] = -1
    PROVE  /\ \A v \in QuoteWorkers : HasBest(v) => Identity(worker[v]) # [sig |-> s, at |-> now]
           /\ ~ IdKnown([sig |-> s, at |-> now])
<1> DEFINE new == [sig |-> s, at |-> now]
<1>1. now \in Nat /\ QuoteWindow \in Nat /\ new \in Identities
  BY ArbScanAssumption DEF ArbInv, ArbTypes, Identities
<1>2. ~ Signed(new)
  BY <1>1 DEF Signed, PrunedSigned
<1> QED BY <1>1, <1>2 DEF ArbInv, SignedAll

LEMMA PriceAnswersKeeps == ASSUME ArbInv, NEW w \in QuoteWorkers, PriceAnswers(w) PROVE ArbInv'
<1> DEFINE r == worker[w]
           new == [sig |-> Sig(w), at |-> now]
<1>1. /\ ArbTypes /\ r \in WorkerRecs
      /\ now \in Nat /\ QuoteWindow \in Nat /\ signed \in [Signatures -> Int]
      /\ Sig(w) \in Signatures /\ PrunedSigned \in [Signatures -> Int]
  <2>1. ArbTypes /\ r \in WorkerRecs /\ now \in Nat /\ QuoteWindow \in Nat /\ signed \in [Signatures -> Int]
    BY ArbScanAssumption DEF ArbInv, ArbTypes
  <2>2. Sig(w) \in Signatures
    BY <2>1 DEF Sig, Signatures, WorkerRecs
  <2>3. PrunedSigned \in [Signatures -> Int]
    BY <2>1 DEF PrunedSigned
  <2> QED BY <2>1, <2>2, <2>3
<1>2. \A s \in Signatures : signed[s] = now => PrunedSigned[s] = now
  BY <1>1 DEF PrunedSigned
<1>3. UNCHANGED <<now, routesLeft, queue, seenIds, counts, stopped>> /\ now >= now
  BY <1>1 DEF PriceAnswers
<1>4. CASE Becomes(w, NextProbe(r)) /\ UNCHANGED signed
  BY <1>1, <1>3, <1>4, NextProbeFollows, WorkerFollows DEF Follows, ArbTypes
<1>5. CASE Becomes(w, NextProbe(r)) /\ signed' = PrunedSigned
  <2>1. /\ worker' \in [QuoteWorkers -> WorkerRecs]
        /\ \A v \in QuoteWorkers : worker'[v] = IF v = w THEN NextProbe(r) ELSE worker[v]
    BY <1>1, <1>5, NextProbeFollows DEF ArbTypes, Becomes
  <2>2. ArbTypes'
    BY <1>1, <1>3, <1>5, <2>1, NextProbeFollows DEF ArbTypes
  <2>3. \A v \in QuoteWorkers : HasBest(v)' => HasBest(v) /\ Identity(worker'[v]) = Identity(worker[v])
    BY <1>1, <2>1, NextProbeFollows DEF HasBest
  <2>4. (\A id \in Identities : IdKnown(id)' => IdKnown(id)) /\ (~stopped' => ApprovedIsAccounted')
    BY <1>3 DEF IdKnown, ArbInv, ApprovedIsAccounted
  <2> QED BY <1>2, <1>3, <1>5, <2>2, <2>3, <2>4, NoNewIdentity
<1>6. ASSUME NEW q \in WorkerRecs, Becomes(w, NextProbe(q)), PrunedSigned[Sig(w)] = -1,
             signed' = [PrunedSigned EXCEPT ![Sig(w)] = now],
             q = r \/ (q.best # 0 /\ Identity(q) = new)
      PROVE  ArbInv'
  <2>1. /\ worker' \in [QuoteWorkers -> WorkerRecs]
        /\ \A v \in QuoteWorkers : worker'[v] = IF v = w THEN NextProbe(q) ELSE worker[v]
    BY <1>1, <1>6, NextProbeFollows DEF ArbTypes, Becomes
  <2>2. ArbTypes'
    <3>1. signed' \in [Signatures -> Int]
      BY <1>1, <1>6
    <3>2. \A v \in QuoteWorkers : worker'[v].at = "evaluate" => worker'[v].best # 0
      BY <1>1, <2>1, NextProbeFollows DEF ArbTypes
    <3> QED BY <1>1, <1>3, <2>1, <3>1, <3>2 DEF ArbTypes
  <2>3. \A s \in Signatures : signed'[s] = IF s = Sig(w) THEN now ELSE PrunedSigned[s]
    BY <1>1, <1>6
  <2>4. SUFFICES ASSUME ~stopped PROVE SignedAll' /\ FlightsDiffer' /\ FlightsUnknown' /\ ApprovedIsAccounted'
    BY <1>3, <2>2 DEF ArbInv
  <2>5. SignedAll /\ FlightsDiffer /\ FlightsUnknown /\ ApprovedIsAccounted
    BY <2>4 DEF ArbInv
  <2>6. /\ \A v \in QuoteWorkers : HasBest(v) => Identity(worker[v]) # new
        /\ ~ IdKnown(new) /\ \A id : IdKnown(id)' <=> IdKnown(id)
    BY <1>1, <1>3, <1>6, <2>4, FreeIsNew DEF IdKnown
  <2>7. ASSUME NEW v \in QuoteWorkers, HasBest(v)'
        PROVE  \/ HasBest(v) /\ Identity(worker'[v]) = Identity(worker[v])
               \/ v = w /\ Identity(worker'[v]) = new
    BY <1>1, <1>6, <2>1, <2>7, NextProbeFollows DEF HasBest
  <2>8. new \in Identities /\ \A id \in Identities : id = new \/ Signed(id) => Signed(id)'
    <3>1. new \in Identities
      BY <1>1 DEF Identities
    <3>2. ASSUME NEW id \in Identities, id = new \/ Signed(id) PROVE Signed(id)'
      BY <1>1, <1>2, <1>3, <2>3, <3>2 DEF Identities, Signed
    <3> QED BY <3>1, <3>2
  <2>9. SignedAll'
    <3>1. \A v \in QuoteWorkers : HasBest(v) => Identity(worker[v]) \in Identities
      BY <1>1, IdentityTyped DEF ArbTypes, HasBest
    <3>2. ASSUME NEW v \in QuoteWorkers, HasBest(v)' PROVE Signed(Identity(worker[v]))'
      <4>1. PICK id \in Identities : id = Identity(worker'[v]) /\ (id = new \/ Signed(id))
        BY <2>5, <2>7, <2>8, <3>1, <3>2 DEF SignedAll
      <4> QED BY <2>8, <4>1
    <3>3. \A id \in Identities : IdKnown(id)' => Signed(id)'
      BY <2>5, <2>6, <2>8 DEF SignedAll
    <3> QED BY <3>2, <3>3 DEF SignedAll
  <2>10. FlightsDiffer'
    BY <2>5, <2>6, <2>7 DEF FlightsDiffer
  <2>11. FlightsUnknown'
    BY <2>5, <2>6, <2>7 DEF FlightsUnknown
  <2> QED BY <1>3, <2>5, <2>9, <2>10, <2>11 DEF ApprovedIsAccounted
<1>7. ASSUME PrunedSigned[Sig(w)] = -1, signed' = [PrunedSigned EXCEPT ![Sig(w)] = now],
             NEW revenue \in 1 .. 2,
             Becomes(w, NextProbe(IF r.best = 0 \/ revenue > r.revenue
                                  THEN [r EXCEPT !.best = r.probe, !.since = now, !.revenue = revenue]
                                  ELSE r))
      PROVE  ArbInv'
  <2> DEFINE q == [r EXCEPT !.best = r.probe, !.since = now, !.revenue = revenue]
  <2>1. q \in WorkerRecs /\ q.best # 0
    <3>1. r.probe \in 1 .. Probes /\ r.probe \in 0 .. Probes /\ r.probe # 0 /\ revenue \in 0 .. 2
      BY <1>1, ArbScanAssumption DEF WorkerRecs
    <3>2. r \in WorkerRecs
      BY <1>1
    <3> QED BY ONLY <3>1, <3>2, <1>1 DEF WorkerRecs
  <2>2. Identity(q) = new
    BY <1>1 DEF WorkerRecs, Identity, Sig
  <2> HIDE DEF q
  <2>3. Becomes(w, NextProbe(q)) \/ Becomes(w, NextProbe(r))
    BY <1>7 DEF q
  <2> QED BY <1>1, <1>6, <1>7, <2>1, <2>2, <2>3
<1> QED BY <1>4, <1>5, <1>7 DEF PriceAnswers


(* The queue after a push: the identity is known, and whoever made room was*)
(* counted.                                                                *)
LEMMA PushCounts ==
    ASSUME ArbTypes, NEW id \in Identities, Push(id)
    PROVE  /\ queue' \in Seq(Identities) /\ Len(queue') <= QueueLimit /\ seenIds' \subseteq SeenRecs
           /\ counts' \in [approved: Nat, drained: Nat, displaced: Nat]
           /\ \A x \in Identities : IdKnown(x)' => IdKnown(x) \/ x = id
           /\ ~ IdKnown(id) /\ ApprovedIsAccounted /\ UNCHANGED stopped => ApprovedIsAccounted'
<1>1. /\ now \in Nat /\ queue \in Seq(Identities) /\ Len(queue) \in Nat /\ Len(queue) <= QueueLimit
      /\ seenIds \subseteq SeenRecs /\ counts \in [approved: Nat, drained: Nat, displaced: Nat]
      /\ QueueLimit \in Nat \ {0}
  BY ArbScanAssumption DEF ArbTypes
<1>2. PrunedSeen \subseteq seenIds
  BY DEF PrunedSeen
<1>3. /\ counts' \in [approved: Nat, drained: Nat, displaced: Nat]
      /\ counts'.approved = counts.approved + 1 /\ counts'.drained = counts.drained
      /\ counts'.displaced = IF Len(queue) = QueueLimit /\ queue' # queue THEN counts.displaced + 1
                             ELSE counts.displaced
  <2> DEFINE d == IF Len(queue) = QueueLimit /\ queue' # queue THEN counts.displaced + 1
                  ELSE counts.displaced
  <2>1. counts' = [counts EXCEPT !.approved = counts.approved + 1, !.displaced = d]
    BY DEF Push
  <2>2. d \in Nat /\ counts.approved + 1 \in Nat
    BY <1>1
  <2>3. counts \in [approved: Nat, drained: Nat, displaced: Nat]
    BY <1>1
  <2> HIDE DEF d
  <2>4. /\ counts' \in [approved: Nat, drained: Nat, displaced: Nat]
        /\ counts'.approved = counts.approved + 1 /\ counts'.drained = counts.drained
        /\ counts'.displaced = d
    BY ONLY <2>1, <2>2, <2>3
  <2> QED BY <2>4 DEF d
<1>4. CASE \E s \in PrunedSeen : s.sig = id.sig /\ s.at = id.at
  <2>1. queue' = queue /\ seenIds' = PrunedSeen
    BY <1>4 DEF Push
  <2>2. IdKnown(id) /\ \A x \in Identities : IdKnown(x)' => IdKnown(x)
    BY <1>2, <1>4, <2>1 DEF IdKnown
  <2>3. seenIds' \subseteq SeenRecs
    BY <1>1, <1>2, <2>1
  <2> QED BY <1>1, <1>3, <2>1, <2>2, <2>3
<1>5. CASE ~ \E s \in PrunedSeen : s.sig = id.sig /\ s.at = id.at
  <2>1. /\ queue' = IF Len(queue) < QueueLimit THEN Append(queue, id) ELSE Append(Tail(queue), id)
        /\ seenIds' = PrunedSeen \cup {[sig |-> id.sig, at |-> id.at, seen |-> now]}
    BY <1>5 DEF Push
  <2>2. seenIds' \subseteq SeenRecs
    BY <1>1, <1>2, <2>1 DEF SeenRecs, Identities
  <2>3. CASE Len(queue) < QueueLimit
    <3>1. queue' \in Seq(Identities) /\ Len(queue') = Len(queue) + 1
      BY <1>1, <2>1, <2>3
    <3>2. \A i \in DOMAIN queue' : queue'[i] = id \/ \E j \in DOMAIN queue : queue'[i] = queue[j]
      BY <1>1, <2>1, <2>3
    <3>3. \A x \in Identities : IdKnown(x)' => IdKnown(x) \/ x = id
      BY <1>2, <2>1, <3>2 DEF IdKnown, Identities
    <3>4. ApprovedIsAccounted /\ UNCHANGED stopped => ApprovedIsAccounted'
      <4>1. Len(queue) # QueueLimit
        BY <1>1, <2>3
      <4>2. /\ {counts.approved, counts.drained, counts.displaced} \subseteq Nat
            /\ counts'.displaced = counts.displaced
        BY <1>1, <1>3, <4>1
      <4> QED BY <1>1, <1>3, <3>1, <4>2 DEF ApprovedIsAccounted
    <3>5. Len(queue') <= QueueLimit
      BY <1>1, <2>3, <3>1
    <3> QED BY <1>3, <2>2, <3>1, <3>3, <3>4, <3>5
  <2>4. CASE ~(Len(queue) < QueueLimit)
    <3>1. Len(queue) = QueueLimit /\ queue # <<>>
      BY <1>1, <2>4
    <3>2. /\ Tail(queue) \in Seq(Identities) /\ Len(Tail(queue)) = Len(queue) - 1
          /\ \A i \in 1 .. Len(queue) - 1 : Tail(queue)[i] = queue[i + 1]
      BY <1>1, <3>1
    <3> DEFINE rest == Tail(queue)
    <3> HIDE DEF rest
    <3>3. /\ queue' \in Seq(Identities) /\ Len(queue') = Len(queue) /\ queue'[Len(queue)] = id
          /\ \A i \in 1 .. Len(queue) - 1 : queue'[i] = rest[i]
      <4>1. queue' = Append(rest, id)
        BY <2>1, <2>4 DEF rest
      <4>2. rest \in Seq(Identities) /\ Len(rest) = Len(queue) - 1
        BY <3>2 DEF rest
      <4> QED BY <1>1, <4>1, <4>2
    <3>4. \A i \in DOMAIN queue' : queue'[i] = id \/ \E j \in DOMAIN queue : queue'[i] = queue[j]
      <4> SUFFICES ASSUME NEW i \in DOMAIN queue', i # Len(queue)
                   PROVE  \E j \in DOMAIN queue : queue'[i] = queue[j]
        BY <3>3
      <4>1. i \in 1 .. Len(queue) - 1 /\ i + 1 \in DOMAIN queue
        BY <1>1, <3>3
      <4> QED BY <3>2, <3>3, <4>1 DEF rest
    <3>5. \A x \in Identities : IdKnown(x)' => IdKnown(x) \/ x = id
      BY <1>2, <2>1, <3>4 DEF IdKnown, Identities
    <3>6. ~ IdKnown(id) => queue' # queue
      <4>1. Len(queue) \in DOMAIN queue
        BY <1>1, <3>1
      <4> QED BY <3>3, <4>1 DEF IdKnown
    <3>7. ~ IdKnown(id) /\ ApprovedIsAccounted /\ UNCHANGED stopped => ApprovedIsAccounted'
      <4> SUFFICES ASSUME ~ IdKnown(id), ApprovedIsAccounted, UNCHANGED stopped PROVE ApprovedIsAccounted'
        OBVIOUS
      <4>1. /\ {counts.approved, counts.drained, counts.displaced} \subseteq Nat
            /\ counts'.displaced = counts.displaced + 1
        BY <1>1, <1>3, <3>1, <3>6
      <4>2. /\ counts'.approved = counts.approved + 1
            /\ counts'.drained = counts.drained /\ Len(queue') = Len(queue)
        BY <1>3, <3>3
      <4>3. Len(queue) \in Nat
        BY <1>1
      <4> QED BY <4>1, <4>2, <4>3 DEF ApprovedIsAccounted
    <3>8. Len(queue') <= QueueLimit
      BY <1>1, <3>3
    <3> QED BY <1>3, <2>2, <3>3, <3>5, <3>7, <3>8
  <2> QED BY <2>3, <2>4
<1> QED BY <1>4, <1>5

LEMMA EvaluatedKeeps == ASSUME ArbInv, NEW w \in QuoteWorkers, Evaluated(w) PROVE ArbInv'
<1>1. /\ ArbTypes /\ worker[w] \in WorkerRecs /\ worker[w].best # 0 /\ now \in Nat /\ now >= now
      /\ routesLeft \in Seq(ToSet(Routes))
  BY DEF ArbInv, ArbTypes, Evaluated, Works
<1>2. Becomes(w, Resting) /\ UNCHANGED <<now, routesLeft, signed, stopped>>
  BY DEF Evaluated
<1>3. CASE UNCHANGED <<queue, seenIds, counts>>
  BY <1>1, <1>2, <1>3, RestFollows, WorkerFollows
<1>4. ASSUME NEW id \in Identities, id = Identity(worker[w]), Push(id) PROVE ArbInv'
  <2>1. /\ worker' \in [QuoteWorkers -> WorkerRecs]
        /\ \A v \in QuoteWorkers : worker'[v] = IF v = w THEN Resting ELSE worker[v]
    BY <1>1, <1>2, RestTyped DEF ArbTypes, Becomes
  <2>2. ArbTypes'
    BY <1>1, <1>2, <1>4, <2>1, PushCounts, RestTyped DEF ArbTypes
  <2>3. SUFFICES ASSUME ~stopped PROVE SignedAll' /\ FlightsDiffer' /\ FlightsUnknown' /\ ApprovedIsAccounted'
    BY <1>2, <2>2 DEF ArbInv
  <2>4. SignedAll /\ FlightsDiffer /\ FlightsUnknown /\ ApprovedIsAccounted
    BY <2>3 DEF ArbInv
  <2>5. /\ \A v \in QuoteWorkers : HasBest(v)' => v # w /\ HasBest(v) /\ worker'[v] = worker[v]
        /\ HasBest(w) /\ \A v \in QuoteWorkers : HasBest(v) => Identity(worker[v]) \in Identities
    BY <1>1, <2>1, RestTyped, IdentityTyped DEF HasBest, ArbTypes
  <2>6. Signed(id) /\ ~ IdKnown(id) /\ \A x \in Identities : Signed(x)' <=> Signed(x)
    BY <1>2, <1>4, <2>4, <2>5 DEF SignedAll, FlightsUnknown, Signed
  <2>7. \A x \in Identities : IdKnown(x)' => IdKnown(x) \/ x = id
    BY <1>1, <1>4, PushCounts
  <2>8. SignedAll'
    BY <2>4, <2>5, <2>6, <2>7 DEF SignedAll
  <2>9. FlightsDiffer'
    BY <2>4, <2>5 DEF FlightsDiffer
  <2>10. FlightsUnknown'
    BY <1>4, <2>4, <2>5, <2>7 DEF FlightsUnknown, FlightsDiffer
  <2>11. ApprovedIsAccounted'
    BY <1>1, <1>2, <1>4, <2>4, <2>6, PushCounts
  <2> QED BY <2>8, <2>9, <2>10, <2>11
<1> QED BY <1>1, <1>3, <1>4, IdentityTyped DEF Evaluated

LEMMA ArbStep == ArbInv /\ [ArbNext]_arbVars => ArbInv'
<1>1. ASSUME ArbInv, UNCHANGED arbVars PROVE ArbInv'
  BY <1>1 DEF arbVars, ArbInv, ArbTypes, SignedAll, FlightsDiffer, FlightsUnknown, ApprovedIsAccounted,
              Signed, IdKnown, HasBest
<1> QED BY <1>1, QuietSteps, DrainKeeps, ProbingKeeps, PriceAnswersKeeps, EvaluatedKeeps DEF ArbNext

(* What was approved is drained once, waits or made room for a newer one,  *)
(* until stop() (arbitrageScanner.ts:449-462, arbitrageOpportunityQueue.ts *)
(* :24-37), with however many workers, polls and routes.                   *)
THEOREM ApprovedAccounted == ArbSpec => []ApprovedIsAccounted
<1>1. ArbInv => ApprovedIsAccounted
  BY DEF ArbInv, ApprovedIsAccounted
<1> QED BY <1>1, ArbInitOK, ArbStep, PTL DEF ArbSpec

-----------------------------------------------------------------------------
(* Watchlist: what a replay has behind it, and how the list grows.         *)

ListOK(list) ==
    /\ IsFiniteSet(DOMAIN list)
    /\ \A a \in DOMAIN list : "seen" \in DOMAIN list[a] /\ list[a].seen \in Int

WatchTypes ==
    /\ head \in 1 .. LastBlock /\ cursor \in Nat /\ wire \subseteq Nat
    /\ replay \in [from: Nat, next: Nat, to: Nat]
    /\ found.accounts \subseteq Borrowers /\ found.block \in Nat
    /\ ListOK(watchlist)

WatchInv == WatchTypes /\ ReplayCovers

(* One step of add(), or a run of it, from one list to the next.           *)
Grows(old, new) ==
    /\ \A a \in DOMAIN new \ DOMAIN old : new[a].hf = "unread"
    /\ Cardinality(DOMAIN new) > MaxListed =>
          \A a \in DOMAIN new \ DOMAIN old, x \in DOMAIN new : new[a].seen - new[x].seen <= StaleBlocks

LEMMA EvictStaleOK ==
    ASSUME NEW list, ListOK(list), NEW b \in Nat
    PROVE  /\ ListOK(EvictStale(list, b)) /\ DOMAIN EvictStale(list, b) \subseteq DOMAIN list
           /\ \A a \in DOMAIN EvictStale(list, b) :
                 /\ EvictStale(list, b)[a] = list[a]
                 /\ b - list[a].seen <= StaleBlocks
<1>1. /\ DOMAIN EvictStale(list, b) = {a \in DOMAIN list : b - list[a].seen <= StaleBlocks}
      /\ \A a \in DOMAIN EvictStale(list, b) : EvictStale(list, b)[a] = list[a]
  BY DEF EvictStale, Restrict
<1>2. IsFiniteSet(DOMAIN EvictStale(list, b))
  BY <1>1, FS_Subset DEF ListOK
<1> QED BY <1>1, <1>2 DEF ListOK

(* new is old with the accounts set at block b.                            *)
AddedTo(new, old, accounts, b) ==
    /\ ListOK(new) /\ DOMAIN new = DOMAIN old \cup accounts
    /\ \A a \in DOMAIN old \cup accounts :
          /\ a \in accounts => new[a].seen = b
          /\ a \notin accounts => new[a] = old[a]
          /\ a \notin DOMAIN old => new[a].hf = "unread"

LEMMA AddedOK ==
    ASSUME NEW list, ListOK(list), NEW accounts, IsFiniteSet(accounts), NEW b \in Nat
    PROVE  AddedTo(Added(list, accounts, b), list, accounts, b)
<1> DEFINE new == Added(list, accounts, b)
<1>1. /\ DOMAIN new = DOMAIN list \cup accounts
      /\ \A a \in DOMAIN list \cup accounts :
            new[a] = IF a \notin accounts THEN list[a]
                     ELSE [seen |-> b, hf |-> IF a \in DOMAIN list THEN list[a].hf ELSE "unread"]
  BY DEF Added
<1>2. IsFiniteSet(DOMAIN new)
  BY <1>1, FS_Union DEF ListOK
<1> HIDE DEF new
<1>3. ASSUME NEW a \in DOMAIN list \cup accounts
      PROVE  /\ a \in accounts => new[a].seen = b /\ "seen" \in DOMAIN new[a]
             /\ a \notin accounts => new[a] = list[a]
             /\ a \notin DOMAIN list => new[a].hf = "unread"
  <2>1. CASE a \notin accounts
    BY <1>1, <2>1
  <2>2. CASE a \in accounts
    <3> DEFINE h == IF a \in DOMAIN list THEN list[a].hf ELSE "unread"
    <3>1. new[a] = [seen |-> b, hf |-> h]
      BY <1>1, <2>2
    <3>2. a \notin DOMAIN list => h = "unread"
      OBVIOUS
    <3> HIDE DEF h
    <3> QED BY <2>2, <3>1, <3>2
  <2> QED BY <2>1, <2>2
<1>4. ListOK(new)
  BY <1>1, <1>2, <1>3 DEF ListOK
<1> QED BY <1>1, <1>3, <1>4 DEF new, AddedTo

(* add(): over the limit there is nothing stale.                           *)
LEMMA ListingGrows ==
    ASSUME NEW list, ListOK(list), NEW a, NEW b \in Nat
    PROVE  ListOK(Listing(list, a, b)) /\ Grows(list, Listing(list, a, b))
<1> DEFINE room == Room(list, b)
           new == Listing(list, a, b)
<1>1. IsFiniteSet({a}) /\ StaleBlocks \in Nat /\ MaxListed \in Nat
  BY FS_Singleton, WatchlistAssumption
<1>2. ListOK(room) /\ DOMAIN room \subseteq DOMAIN list
  BY EvictStaleOK DEF Room
<1>3. /\ ListOK(new) /\ DOMAIN new = DOMAIN room \cup {a} /\ new[a].seen = b
      /\ \A x \in DOMAIN room \ {a} : new[x] = room[x]
      /\ a \notin DOMAIN room => new[a].hf = "unread"
  <2>1. new = Added(room, {a}, b)
    BY DEF Listing
  <2>2. AddedTo(new, room, {a}, b)
    BY <1>1, <1>2, <2>1, AddedOK
  <2> HIDE DEF room, new
  <2> QED BY <2>2 DEF AddedTo
<1>4. ASSUME Cardinality(DOMAIN new) > MaxListed, NEW x \in DOMAIN new PROVE b - new[x].seen <= StaleBlocks
  <2>1. Cardinality(DOMAIN list) >= MaxListed
    <3>1. /\ Cardinality(DOMAIN new) <= Cardinality(DOMAIN room) + 1
          /\ Cardinality(DOMAIN room) \in Nat /\ Cardinality(DOMAIN new) \in Nat
      BY <1>2, <1>3, FS_AddElement, FS_CardinalityType DEF ListOK
    <3>2. Cardinality(DOMAIN room) <= Cardinality(DOMAIN list) /\ Cardinality(DOMAIN list) \in Nat
      BY <1>2, FS_Subset, FS_CardinalityType DEF ListOK
    <3> QED BY <1>1, <1>4, <3>1, <3>2
  <2>2. room = EvictStale(list, b)
    BY <2>1 DEF Room
  <2>3. CASE x = a
    BY <1>1, <1>3, <2>3
  <2>4. CASE x \in DOMAIN room \ {a}
    BY <1>3, <2>2, <2>4, EvictStaleOK
  <2> QED BY <1>3, <1>4, <2>3, <2>4
<1>5. \A y \in DOMAIN new \ DOMAIN list : y = a /\ a \notin DOMAIN room
  BY <1>2, <1>3
<1> QED BY <1>3, <1>4, <1>5 DEF Grows

(* A run of add(): the new entries come with block b, unread, and when the *)
(* list had to make room everything that is left is recent.                *)
LEMMA ListAllGrows ==
    ASSUME NEW list, ListOK(list), NEW accounts, IsFiniteSet(accounts), NEW b \in Nat,
           NEW new \in ListAll(list, accounts, b)
    PROVE  ListOK(new) /\ Grows(list, new)
<1>0. StaleBlocks \in Nat /\ MaxListed \in Nat
  BY WatchlistAssumption
<1>1. CASE new = Added(list, accounts, b) /\ accounts = {}
  <2>1. ListOK(new) /\ DOMAIN new = DOMAIN list
    <3>1. ListOK(new) /\ DOMAIN new = DOMAIN list \cup accounts
      BY <1>1, AddedOK DEF AddedTo
    <3> QED BY <1>1, <3>1
  <2> QED BY <2>1 DEF Grows
<1>2. ASSUME NEW last \in accounts, new = Added(list, accounts, b), HasRoom(list, accounts \ {last})
      PROVE  ListOK(new) /\ Grows(list, new)
  <2> DEFINE others == DOMAIN list \cup (accounts \ {last})
  <2>1. /\ ListOK(new) /\ DOMAIN new = DOMAIN list \cup accounts
        /\ \A a \in DOMAIN new \ DOMAIN list : new[a].hf = "unread"
    <3>1. /\ ListOK(new) /\ DOMAIN new = DOMAIN list \cup accounts
          /\ \A a \in DOMAIN list \cup accounts : a \notin DOMAIN list => new[a].hf = "unread"
      <4>1. AddedTo(new, list, accounts, b)
        BY <1>2, AddedOK
      <4> QED BY <4>1 DEF AddedTo
    <3> QED BY <3>1
  <2>2. DOMAIN new = others \cup {last}
    BY <2>1
  <2>3. IsFiniteSet(others) /\ IsFiniteSet(DOMAIN new)
    BY <2>1, FS_Subset DEF ListOK
  <2>4. Cardinality(others) < MaxListed
    BY <1>2 DEF HasRoom
  <2> HIDE DEF others
  <2>5. /\ Cardinality(DOMAIN new) <= Cardinality(others) + 1
        /\ Cardinality(others) \in Nat /\ Cardinality(DOMAIN new) \in Nat
    BY <2>2, <2>3, FS_AddElement, FS_CardinalityType
  <2>6. ~(Cardinality(DOMAIN new) > MaxListed)
    BY <1>0, <2>4, <2>5
  <2> QED BY <2>1, <2>6 DEF Grows
<1>3. ASSUME NEW early \in SUBSET accounts,
             new = Added(EvictStale(Added(list, early, b), b), accounts \ early, b)
      PROVE  ListOK(new) /\ Grows(list, new)
  <2> DEFINE mid == Added(list, early, b)
             room == EvictStale(mid, b)
  <2>1. IsFiniteSet(early) /\ IsFiniteSet(accounts \ early)
    BY FS_Subset
  <2>2. /\ ListOK(mid) /\ DOMAIN mid = DOMAIN list \cup early
        /\ \A a \in DOMAIN mid \ DOMAIN list : mid[a].seen = b /\ mid[a].hf = "unread"
    <3>1. /\ ListOK(mid) /\ DOMAIN mid = DOMAIN list \cup early
          /\ \A a \in DOMAIN list \cup early :
                /\ a \in early => mid[a].seen = b
                /\ a \notin DOMAIN list => mid[a].hf = "unread"
      <4>1. AddedTo(mid, list, early, b)
        BY <2>1, AddedOK
      <4> HIDE DEF mid
      <4> QED BY <4>1 DEF AddedTo
    <3> QED BY <3>1
  <2> HIDE DEF mid
  <2>3. /\ ListOK(room) /\ DOMAIN room \subseteq DOMAIN mid
        /\ \A a \in DOMAIN room : room[a] = mid[a] /\ b - mid[a].seen <= StaleBlocks
    BY <2>2, EvictStaleOK
  <2> HIDE DEF room
  <2>4. /\ ListOK(new) /\ DOMAIN new = DOMAIN room \cup (accounts \ early)
        /\ \A a \in DOMAIN new : /\ a \in accounts \ early => new[a].seen = b
                                 /\ a \notin accounts \ early => new[a] = room[a]
                                 /\ a \notin DOMAIN room => new[a].hf = "unread"
    <3> DEFINE late == accounts \ early
    <3>1. new = Added(room, late, b) /\ IsFiniteSet(late)
      BY <1>3, <2>1 DEF mid, room
    <3> HIDE DEF late
    <3>2. /\ ListOK(new) /\ DOMAIN new = DOMAIN room \cup late
          /\ \A a \in DOMAIN room \cup late :
                /\ a \in late => new[a].seen = b
                /\ a \notin late => new[a] = room[a]
                /\ a \notin DOMAIN room => new[a].hf = "unread"
      <4>1. AddedTo(new, room, late, b)
        BY <2>3, <3>1, AddedOK
      <4> QED BY <4>1 DEF AddedTo
    <3> QED BY <3>2 DEF late
  <2>5. \A x \in DOMAIN new : b - new[x].seen <= StaleBlocks
    BY <1>0, <2>3, <2>4
  <2>6. ASSUME NEW a \in DOMAIN new \ DOMAIN list
        PROVE  new[a].seen = b /\ new[a].hf = "unread"
    <3>1. CASE a \in accounts \ early
      BY <2>2, <2>3, <2>4, <3>1
    <3>2. CASE a \notin accounts \ early
      BY <2>2, <2>3, <2>4, <3>2
    <3> QED BY <3>1, <3>2
  <2> QED BY <2>4, <2>5, <2>6 DEF Grows
<1>4. \/ \E early \in SUBSET accounts :
            new = Added(EvictStale(Added(list, early, b), b), accounts \ early, b)
      \/ /\ new = Added(list, accounts, b)
         /\ accounts = {} \/ \E last \in accounts : HasRoom(list, accounts \ {last})
  BY DEF ListAll
<1> QED BY <1>1, <1>2, <1>3, <1>4

(* What leaves the list to the same or fewer, whatever the entries say.    *)
LEMMA ShrinkGrows ==
    ASSUME NEW old, ListOK(old), NEW new, DOMAIN new \subseteq DOMAIN old
    PROVE  Grows(old, new)
BY DEF Grows

LEMMA RestrictOK ==
    ASSUME NEW list, ListOK(list), NEW S
    PROVE  LET kept == Restrict(list, DOMAIN list \ S)
           IN  ListOK(kept) /\ DOMAIN kept \subseteq DOMAIN list
<1> DEFINE kept == Restrict(list, DOMAIN list \ S)
<1>1. /\ DOMAIN kept = DOMAIN list \ S
      /\ \A a \in DOMAIN kept : kept[a] = list[a]
  BY DEF Restrict
<1> HIDE DEF kept
<1>2. IsFiniteSet(DOMAIN kept)
  BY <1>1, FS_Subset DEF ListOK
<1>3. ListOK(kept) /\ DOMAIN kept \subseteq DOMAIN list
  BY <1>1, <1>2 DEF ListOK
<1> QED BY <1>3 DEF kept

LEMMA WithHealthOK ==
    ASSUME NEW list, ListOK(list), NEW answer
    PROVE  ListOK(WithHealth(list, answer)) /\ DOMAIN WithHealth(list, answer) = DOMAIN list
<1> DEFINE new == WithHealth(list, answer)
<1>1. /\ DOMAIN new = DOMAIN list
      /\ \A a \in DOMAIN list :
            new[a] = IF a \in DOMAIN answer THEN [list[a] EXCEPT !.hf = answer[a]] ELSE list[a]
  BY DEF WithHealth
<1> HIDE DEF new
<1>2. ASSUME NEW a \in DOMAIN list PROVE "seen" \in DOMAIN new[a] /\ new[a].seen \in Int
  <2>1. "seen" \in DOMAIN list[a] /\ list[a].seen \in Int
    BY DEF ListOK
  <2>2. CASE a \notin DOMAIN answer
    BY <1>1, <2>1, <2>2
  <2>3. CASE a \in DOMAIN answer
    <3>1. new[a] = [list[a] EXCEPT !.hf = answer[a]]
      BY <1>1, <2>3
    <3> QED BY <2>1, <3>1
  <2> QED BY <2>2, <2>3
<1> QED BY <1>1, <1>2 DEF ListOK, new

LEMMA HeadTyped == WatchInv => SafeHead \in Nat
<1>1. LastBlock \in Nat /\ ReorgDepth \in Nat
  BY WatchlistAssumption, LenProperties DEF LastBlock
<1> QED BY <1>1 DEF WatchInv, WatchTypes, SafeHead

LEMMA WatchInitOK == WatchInit => WatchInv
<1> SUFFICES ASSUME WatchInit PROVE WatchInv
  OBVIOUS
<1>1. LastBlock \in Nat /\ LastBlock >= 1
  BY WatchlistAssumption, EmptySeq, LenProperties DEF LastBlock
<1>2. ListOK(watchlist)
  <2>1. watchlist = <<>>
    BY DEF WatchInit
  <2>2. DOMAIN watchlist = {}
    BY <2>1
  <2> QED BY <2>2, FS_EmptySet DEF ListOK
<1>3. WatchTypes
  BY <1>1, <1>2 DEF WatchInit, WatchTypes, NoReplay, NoFind
<1> QED BY <1>3 DEF WatchInv, WatchInit, ReplayCovers

(* Handling a log adds its borrower and leaves the rest of the types.      *)
LEMMA HandleLogOK ==
    ASSUME WatchInv, NEW b \in Nat, HandleLog(b)
    PROVE  /\ ListOK(watchlist') /\ Grows(watchlist, watchlist')
           /\ cursor' \in Nat /\ handled' = handled \cup {b}
BY ListingGrows DEF WatchInv, WatchTypes, HandleLog

(* A replay begins with nothing behind it.                                 *)
LEMMA ReplayFromOK ==
    ASSUME WatchInv, ReplayFrom(cursor), UNCHANGED handled
    PROVE  replay' \in [from: Nat, next: Nat, to: Nat] /\ ReplayCovers'
<1>1. CASE replay' = replay
  BY <1>1 DEF WatchInv, WatchTypes, ReplayCovers, NoReplay
<1>2. CASE replay' = [from |-> cursor, next |-> cursor + 1, to |-> SafeHead]
  <2>1. cursor \in Nat /\ SafeHead \in Nat
    BY HeadTyped DEF WatchInv, WatchTypes
  <2>2. replay'.from + 1 = replay'.next /\ replay'.next \in Nat
    BY <1>2, <2>1
  <2>3. replay'.from + 1 .. replay'.next - 1 = {}
    BY <1>2, <2>1
  <2> QED BY <1>2, <2>1, <2>3 DEF ReplayCovers
<1> QED BY <1>1, <1>2 DEF ReplayFrom

LEMMA ReplayKept ==
    ASSUME ReplayCovers, handled \subseteq handled', replay' \in {replay, NoReplay}
    PROVE  ReplayCovers'
BY DEF ReplayCovers, NoReplay

LEMMA ReplayChunkOK ==
    ASSUME WatchInv, ReplayChunk
    PROVE  /\ WatchInv' /\ Grows(watchlist, watchlist')
<1>1. /\ replay.next \in Nat /\ replay.from \in Nat /\ replay.to \in Nat
      /\ replay \in [from: Nat, next: Nat, to: Nat] /\ replay # NoReplay
  BY DEF WatchInv, WatchTypes, ReplayChunk
<1>2. /\ ListOK(watchlist') /\ Grows(watchlist, watchlist') /\ cursor' \in Nat
      /\ handled \subseteq handled' /\ (PoolLog[replay.next] = Nobody \/ replay.next \in handled')
  <2>1. CASE PoolLog[replay.next] # Nobody
    <3>1. HandleLog(replay.next)
      BY <2>1 DEF ReplayChunk
    <3> QED BY <1>1, <3>1, HandleLogOK
  <2>2. CASE PoolLog[replay.next] = Nobody
    <3>1. UNCHANGED <<watchlist, cursor, cache, handled>>
      BY <2>2 DEF ReplayChunk
    <3> QED BY <2>2, <3>1 DEF WatchInv, WatchTypes, Grows
  <2> QED BY <2>1, <2>2
<1>3. replay' = NoReplay \/ replay' = [replay EXCEPT !.next = @ + 1]
  BY DEF ReplayChunk
<1>4. ReplayCovers'
  <2>1. CASE replay' = NoReplay
    BY <2>1 DEF ReplayCovers, NoReplay
  <2>2. CASE replay' = [replay EXCEPT !.next = @ + 1]
    <3>1. replay'.from = replay.from /\ replay'.next = replay.next + 1
      BY <1>1, <2>2
    <3>2. \A b \in replay.from + 1 .. replay.next - 1 : PoolLog[b] = Nobody \/ b \in handled
      BY <1>1 DEF WatchInv, ReplayCovers
    <3>3. \A b \in replay'.from + 1 .. replay'.next - 1 :
             b \in replay.from + 1 .. replay.next - 1 \/ b = replay.next
      BY <1>1, <3>1
    <3> QED BY <1>2, <3>2, <3>3 DEF ReplayCovers
  <2> QED BY <1>3, <2>1, <2>2
<1>5. replay' \in [from: Nat, next: Nat, to: Nat]
  BY <1>1, <1>3 DEF NoReplay
<1>6. UNCHANGED <<head, found, wire>>
  BY DEF ReplayChunk, chainOnly
<1> QED BY <1>2, <1>4, <1>5, <1>6 DEF WatchInv, WatchTypes, LastBlock

(* The seed of a start, and the accounts a prune brings back.              *)
LEMMA FoundOK == WatchInv => IsFiniteSet(found.accounts) /\ found.block \in Nat
BY WatchlistAssumption, FS_Subset DEF WatchInv, WatchTypes

LEMMA SeedOK ==
    ASSUME WatchInv, Seed
    PROVE  WatchInv' /\ Grows(watchlist, watchlist')
<1>1. ListOK(watchlist') /\ Grows(watchlist, watchlist')
  BY FoundOK, ListAllGrows DEF WatchInv, WatchTypes, Seed
<1>2. replay' = replay \/ replay' = [from |-> 0, next |-> 1, to |-> SafeHead]
  BY DEF Seed
<1>3. UNCHANGED <<head, found, cursor, wire, handled>>
  BY DEF Seed, chainOnly
<1>4. replay' \in [from: Nat, next: Nat, to: Nat] /\ ReplayCovers'
  <2>1. CASE replay' = replay
    BY <1>3, <2>1 DEF WatchInv, WatchTypes, ReplayCovers
  <2>2. CASE replay' = [from |-> 0, next |-> 1, to |-> SafeHead]
    <3>1. replay'.from = 0 /\ replay'.next = 1 /\ 0 + 1 .. 1 - 1 = {}
      BY <2>2
    <3> QED BY <2>2, <3>1, HeadTyped DEF ReplayCovers
  <2> QED BY <1>2, <2>1, <2>2
<1> QED BY <1>1, <1>3, <1>4 DEF WatchInv, WatchTypes, LastBlock

LEMMA PruneOK ==
    ASSUME WatchInv, Prune
    PROVE  WatchInv' /\ Grows(watchlist, watchlist')
<1>1. PICK allowed \in SUBSET (pruning.accounts \cap Allowlisted) :
        LET kept == Restrict(watchlist, Listed \ (pruning.accounts \ allowed))
        IN  watchlist' = kept \/ watchlist' \in ListAll(kept, found.accounts, found.block)
  BY DEF Prune
<1> DEFINE kept == Restrict(watchlist, Listed \ (pruning.accounts \ allowed))
<1>2. ListOK(kept) /\ DOMAIN kept \subseteq DOMAIN watchlist
  BY RestrictOK DEF WatchInv, WatchTypes, Listed
<1>3. watchlist' = kept \/ watchlist' \in ListAll(kept, found.accounts, found.block)
  BY <1>1
<1> HIDE DEF kept
<1>4. ListOK(watchlist') /\ Grows(watchlist, watchlist')
  <2>1. CASE watchlist' = kept
    BY <1>2, <2>1, ShrinkGrows DEF WatchInv, WatchTypes
  <2>2. CASE watchlist' \in ListAll(kept, found.accounts, found.block)
    <3>1. ListOK(watchlist') /\ Grows(kept, watchlist')
      BY <1>2, <2>2, FoundOK, ListAllGrows
    <3> QED BY <1>2, <3>1 DEF Grows
  <2> QED BY <1>3, <2>1, <2>2
<1>5. UNCHANGED <<head, found, cursor, wire, replay, handled>>
  BY DEF Prune, chainOnly
<1> QED BY <1>4, <1>5 DEF WatchInv, WatchTypes, ReplayCovers, LastBlock

(* The other steps leave the list alone, or write health factors into it.  *)
LEMMA WatchStep ==
    ASSUME WatchInv, [WatchNext]_watchVars
    PROVE  WatchInv' /\ Grows(watchlist, watchlist')
<1> USE DEF WatchInv, WatchTypes
<1>1. ListOK(watchlist) /\ Grows(watchlist, watchlist)
  BY ShrinkGrows
<1>2. CASE UNCHANGED watchVars
  BY <1>1, <1>2 DEF watchVars, ReplayCovers, LastBlock
<1>3. CASE NewBlock
  <2>1. head' \in 1 .. LastBlock
    BY <1>3, WatchlistAssumption, LenProperties DEF NewBlock, LastBlock
  <2>2. wire' \subseteq wire \cup {head'}
    BY <1>3 DEF NewBlock
  <2>3. UNCHANGED <<found, watchlist, cursor, replay, handled>>
    BY <1>3 DEF NewBlock
  <2> QED BY <1>1, <2>1, <2>2, <2>3 DEF ReplayCovers, LastBlock
<1>4. CASE \E a \in Borrowers, h \in Healths : HealthMoves(a, h)
  BY <1>1, <1>4 DEF HealthMoves, ReplayCovers, LastBlock
<1>5. ASSUME NEW b \in wire, LiveLog(b) PROVE WatchInv' /\ Grows(watchlist, watchlist')
  <2>1. b \in Nat /\ HandleLog(b)
    BY <1>5 DEF LiveLog
  <2>2. UNCHANGED <<head, found, replay>> /\ wire' \subseteq wire
    BY <1>5 DEF LiveLog, chainOnly
  <2>3. /\ ListOK(watchlist') /\ Grows(watchlist, watchlist')
        /\ cursor' \in Nat /\ handled' = handled \cup {b}
    BY <2>1, HandleLogOK
  <2>4. ReplayCovers'
    BY <2>2, <2>3, ReplayKept
  <2> QED BY <2>2, <2>3, <2>4 DEF LastBlock
<1>6. ASSUME NEW b \in wire, WatcherFails(b) PROVE WatchInv' /\ Grows(watchlist, watchlist')
  <2>1. /\ UNCHANGED <<head, found, watchlist, cursor, handled>> /\ wire' \subseteq wire
        /\ ReplayFrom(cursor)
    BY <1>6 DEF WatcherFails, chainOnly
  <2>2. replay' \in [from: Nat, next: Nat, to: Nat] /\ ReplayCovers'
    BY <2>1, ReplayFromOK
  <2> QED BY <1>1, <2>1, <2>2 DEF LastBlock
<1>7. ASSUME NEW a \in Borrowers, Register(a) PROVE WatchInv' /\ Grows(watchlist, watchlist')
  <2>1. watchlist' = Listing(watchlist, a, 0) /\ 0 \in Nat
    BY <1>7 DEF Register
  <2>2. ListOK(watchlist') /\ Grows(watchlist, watchlist')
    BY <2>1, ListingGrows
  <2>3. UNCHANGED <<head, found, cursor, replay, wire, handled>>
    BY <1>7 DEF Register, chainOnly
  <2> QED BY <2>2, <2>3 DEF ReplayCovers, LastBlock
<1>8. CASE ReplayFails
  <2>1. replay' = NoReplay /\ UNCHANGED <<head, found, watchlist, cursor, wire, handled>>
    BY <1>8 DEF ReplayFails, chainOnly
  <2>2. ReplayCovers' /\ replay' \in [from: Nat, next: Nat, to: Nat]
    BY <2>1 DEF ReplayCovers, NoReplay
  <2> QED BY <1>1, <2>1, <2>2 DEF LastBlock
<1>9. CASE Discover
  <2>1. PICK accounts \in SUBSET ({PoolLog[b] : b \in 1 .. head} \ {Nobody}) :
          found' = [accounts |-> accounts, block |-> head]
    BY <1>9 DEF Discover
  <2>2. PoolLog \in Seq(Borrowers \cup {"nobody"}) /\ LastBlock \in Nat
    BY WatchlistAssumption, LenProperties DEF LastBlock
  <2>3. \A b \in 1 .. head : PoolLog[b] \in Borrowers \cup {"nobody"}
    BY <2>2, ElementOfSeq DEF LastBlock
  <2>4. accounts \subseteq Borrowers /\ head \in Nat
    BY <2>2, <2>3 DEF Nobody
  <2>5. found'.accounts \subseteq Borrowers /\ found'.block \in Nat
    BY <2>1, <2>4
  <2>6. UNCHANGED <<head, watchlist, cursor, replay, wire, handled>>
    BY <1>9 DEF Discover, chainOnly
  <2> QED BY <1>1, <2>5, <2>6 DEF ReplayCovers, LastBlock
<1>10. CASE LoadCursor
  <2>1. UNCHANGED <<head, found, watchlist, cursor, wire, handled>> /\ ReplayFrom(cursor)
    BY <1>10 DEF LoadCursor, chainOnly
  <2>2. replay' \in [from: Nat, next: Nat, to: Nat] /\ ReplayCovers'
    BY <2>1, ReplayFromOK
  <2> QED BY <1>1, <2>1, <2>2 DEF LastBlock
<1>11. CASE UNCHANGED <<head, found, watchlist, cursor, replay, wire, handled>>
  BY <1>1, <1>11 DEF ReplayCovers, LastBlock
<1>12. ASSUME LookbackDone \/ StartPrune \/ PruneFails \/ ColdSweepDone \/ Watch
       PROVE  UNCHANGED <<head, found, watchlist, cursor, replay, wire, handled>>
  BY <1>12 DEF LookbackDone, StartPrune, PruneFails, ColdSweepDone, Watch, chainOnly
<1>13. ASSUME NEW s \in Sweepers,
              \/ ColdSweep(s) \/ TimerSweep(s) \/ CycleSweep(s)
              \/ NodeAnswers(s) \/ SweepCaches(s) \/ SweepFails(s)
       PROVE  UNCHANGED <<head, found, watchlist, cursor, replay, wire, handled>>
  BY <1>13 DEF ColdSweep, TimerSweep, CycleSweep, NodeAnswers, SweepCaches, SweepFails, chainOnly
<1>14. ASSUME NEW s \in Sweepers, SweepLands(s) PROVE WatchInv' /\ Grows(watchlist, watchlist')
  <2>1. /\ watchlist' = WithHealth(watchlist, sweeps[s].answer)
        /\ UNCHANGED <<head, found, cursor, replay, wire, handled>>
    BY <1>14 DEF SweepLands, chainOnly
  <2>2. ListOK(watchlist') /\ DOMAIN watchlist' = DOMAIN watchlist
    BY <1>1, <2>1, WithHealthOK
  <2>3. Grows(watchlist, watchlist')
    BY <1>1, <2>2, ShrinkGrows
  <2> QED BY <2>1, <2>2, <2>3 DEF ReplayCovers, LastBlock
<1> HIDE DEF WatchInv, WatchTypes
<1> QED
  BY <1>2, <1>3, <1>4, <1>5, <1>6, <1>7, <1>8, <1>9, <1>10, <1>11, <1>12, <1>13, <1>14,
     ReplayChunkOK, SeedOK, PruneOK DEF WatchNext, SweepMoves

(* A replay has handled every event of the blocks it has passed, next to   *)
(* live events, lookbacks and failures (eventDrivenWatchlist.ts:109-115).  *)
THEOREM ReplaysCover == WatchSpec => []ReplayCovers
<1>1. WatchInv => ReplayCovers
  BY DEF WatchInv
<1> QED BY WatchInitOK, WatchStep, <1>1, PTL DEF WatchSpec

(* Whatever adds a borrower, and whatever answer is on its way: it comes   *)
(* unread (boundedWatchlist.ts:31, watchlistCoordinator.ts:240).           *)
THEOREM EntriesUnread == WatchSpec => NewEntriesUnread
<1>1. WatchInv /\ [WatchNext]_watchVars =>
        [\A a \in Listed' \ Listed : watchlist'[a].hf = "unread"]_watchVars
  BY WatchStep DEF Grows, Listed
<1>2. WatchInv /\ [WatchNext]_watchVars => WatchInv'
  BY WatchStep
<1> QED BY WatchInitOK, <1>1, <1>2, PTL DEF WatchSpec, NewEntriesUnread

(* A list over its limit keeps nothing stale, for every limit and every    *)
(* number of borrowers added at once (boundedWatchlist.ts:19).             *)
THEOREM OverfullRecent == WatchSpec => OverfullIsRecent
<1>1. WatchInv /\ [WatchNext]_watchVars =>
        [Cardinality(Listed') > MaxListed =>
            \A a \in Listed' \ Listed, x \in Listed' :
                watchlist'[a].seen - watchlist'[x].seen <= StaleBlocks]_watchVars
  BY WatchStep DEF Grows, Listed
<1>2. WatchInv /\ [WatchNext]_watchVars => WatchInv'
  BY WatchStep
<1> QED BY WatchInitOK, <1>1, <1>2, PTL DEF WatchSpec, OverfullIsRecent

-----------------------------------------------------------------------------
(* OracleCache: what a call may still get.  A round it has read is one     *)
(* there was when it was made, a promise it waits for is not one a forced  *)
(* refresh waits for, and a cached price of a feed is no older than        *)
(* maxStaleMs and the time it was held.                                    *)

RoundNos == NoRound .. Rounds
CallAnswers == [round: RoundNos, aged: BOOLEAN]
Items == [token: Tokens, how: {"round", "scale", "aave"}, round: RoundNos]
CallRecs == [kind: {"none", "get", "batch", "force"}, multi: Seq(WithFeed), left: Seq(Items),
             joins: [Tokens -> Readers \cup {NoReader}], got: [Tokens -> CallAnswers],
             since: [Tokens -> RoundNos]]
PriceRecs == [round: RoundNos, held: 0 .. CacheTtl, source: {"none", "chainlink", "aave"}]

(* The items whose round is recent enough for who asked. *)
Recent(since) == {item \in Items : item.how = "scale" => item.round >= 0 /\ item.round >= since[item.token]}

GoodAnswer(answer, since) ==
    /\ answer \in CallAnswers /\ ~answer.aged
    /\ answer.round # NoRound => answer.round >= since

CallOK(r) ==
    /\ r \in CallRecs /\ r.left \in Seq(Recent(r.since))
    /\ \A t \in Tokens : /\ r.since[t] <= latest[t]
                         /\ r.joins[t] # NoReader => r.since[t] = NoRound
                         /\ GoodAnswer(r.got[t], r.since[t])

FeedTypes ==
    /\ latest \in [Tokens -> 0 .. Rounds] /\ ageOf \in [Tokens -> [0 .. Rounds -> 0 .. Oldest]]
    /\ inFlight \in [Tokens -> Readers \cup {NoReader}]

PriceOK(p, t) ==
    p.source = "chainlink" => p.round >= 0 /\ ageOf[t][p.round] <= MaxStale + p.held

PricesOK == priced \in [Tokens -> PriceRecs] /\ \A t \in Tokens : PriceOK(priced[t], t)

CallsOK == reads \in [Readers -> CallRecs] /\ \A c \in Readers : CallOK(reads[c])

OracleInv == FeedTypes /\ PricesOK /\ CallsOK

LEMMA OracleConstants ==
    /\ Rounds \in Nat /\ CacheTtl \in Nat \ {0} /\ MaxStale \in Nat /\ Oldest = MaxStale + CacheTtl
    /\ NoRound = -1 /\ NoRound \in RoundNos /\ 0 .. Rounds \subseteq RoundNos /\ RoundNos \subseteq Int
    /\ WithFeed \subseteq Tokens /\ NoReader \notin Readers
BY OracleAssumption DEF Oldest, NoRound, RoundNos, NoReader

LEMMA NothingGot == \A t \in Tokens : NoAnswer \in CallAnswers /\ GoodAnswer(NoAnswer, NoRound)
BY OracleConstants DEF NoAnswer, CallAnswers, GoodAnswer

LEMMA IdleOK == FeedTypes => CallOK(Idle) /\ Idle.since = [t \in Tokens |-> NoRound]
<1> SUFFICES ASSUME FeedTypes PROVE CallOK(Idle) /\ Idle.since = [t \in Tokens |-> NoRound]
  OBVIOUS
<1>1. /\ Idle.kind = "none" /\ Idle.multi = <<>> /\ Idle.left = <<>>
      /\ Idle.joins = [t \in Tokens |-> NoReader] /\ Idle.got = [t \in Tokens |-> NoAnswer]
      /\ Idle.since = [t \in Tokens |-> NoRound]
  BY DEF Idle
<1>2. Idle.joins \in [Tokens -> Readers \cup {NoReader}] /\ Idle.got \in [Tokens -> CallAnswers]
      /\ Idle.since \in [Tokens -> RoundNos]
  BY <1>1, OracleConstants, NothingGot
<1>3. Idle \in CallRecs
  <2>1. \A S : <<>> \in Seq(S)
    OBVIOUS
  <2>2. Idle = [kind |-> Idle.kind, multi |-> Idle.multi, left |-> Idle.left, joins |-> Idle.joins,
                got |-> Idle.got, since |-> Idle.since]
    BY DEF Idle
  <2> QED BY <1>1, <1>2, <2>1, <2>2 DEF CallRecs
<1>4. \A t \in Tokens : Idle.since[t] <= latest[t]
  BY <1>1, OracleConstants DEF FeedTypes
<1> QED BY <1>1, <1>3, <1>4, NothingGot DEF CallOK

(* A call goes on: what it waits for or has got changes for one token.     *)
LEMMA CallGoesOn ==
    ASSUME NEW r, CallOK(r), NEW q \in CallRecs, q.since = r.since, q.left \in Seq(Recent(r.since)),
           \A t \in Tokens : q.joins[t] \in {r.joins[t], NoReader},
           \A t \in Tokens : q.got[t] = r.got[t] \/ GoodAnswer(q.got[t], r.since[t])
    PROVE  CallOK(q)
BY DEF CallOK

LEMMA TailItems ==
    ASSUME NEW since, NEW left \in Seq(Recent(since)), left # <<>>
    PROVE  /\ Head(left) \in Recent(since) /\ Head(left) \in Items
           /\ Tail(left) \in Seq(Recent(since)) /\ Tail(left) \in Seq(Items)
<1>1. Head(left) \in Recent(since) /\ Tail(left) \in Seq(Recent(since))
  OBVIOUS
<1>2. Recent(since) \subseteq Items
  BY DEF Recent
<1>3. Tail(left) \in Seq(Items)
  BY <1>1, <1>2
<1> QED BY <1>1, <1>2, <1>3

LEMMA SetCall ==
    ASSUME OracleInv, NEW c \in Readers, NEW r, CallOK(r), UNCHANGED latest, reads' = [reads EXCEPT ![c] = r]
    PROVE  CallsOK'
<1>1. r \in CallRecs
  BY DEF CallOK
<1>2. /\ reads' \in [Readers -> CallRecs]
      /\ \A d \in Readers : reads'[d] = reads[d] \/ reads'[d] = r
  BY <1>1 DEF OracleInv, CallsOK
<1>3. ASSUME NEW d \in Readers PROVE CallOK(reads[d])'
  <2>1. CallOK(reads'[d])
    BY <1>2 DEF OracleInv, CallsOK
  <2> QED BY <2>1 DEF CallOK
<1> QED BY <1>2, <1>3 DEF CallsOK

LEMMA FeedMovesOK ==
    ASSUME OracleInv, NEW t \in Tokens, FeedMoves(t)
    PROVE  OracleInv'
<1>1. /\ latest \in [Tokens -> 0 .. Rounds] /\ latest[t] < Rounds
      /\ latest' = [latest EXCEPT ![t] = latest[t] + 1]
      /\ UNCHANGED <<ageOf, priced, inFlight, reads>>
  BY DEF FeedMoves, OracleInv, FeedTypes
<1>2. latest' \in [Tokens -> 0 .. Rounds] /\ \A u \in Tokens : latest[u] <= latest'[u]
  BY <1>1, OracleConstants
<1>3. ASSUME NEW d \in Readers PROVE CallOK(reads[d])'
  <2>1. CallOK(reads[d]) /\ reads'[d] = reads[d]
    BY <1>1 DEF OracleInv, CallsOK
  <2>2. reads[d].since \in [Tokens -> RoundNos]
    BY <2>1 DEF CallOK, CallRecs
  <2>3. \A u \in Tokens : reads[d].since[u] <= latest'[u]
    <3>1. ASSUME NEW u \in Tokens PROVE reads[d].since[u] <= latest'[u]
      <4>1. reads[d].since[u] \in Int /\ latest[u] \in Int /\ latest'[u] \in Int
        BY <1>1, <1>2, <2>2, OracleConstants
      <4>2. reads[d].since[u] <= latest[u]
        BY <2>1 DEF CallOK
      <4> QED BY <1>2, <4>1, <4>2
    <3> QED BY <3>1
  <2> QED BY <2>1, <2>3 DEF CallOK
<1> QED BY <1>1, <1>2, <1>3 DEF OracleInv, FeedTypes, PricesOK, PriceOK, CallsOK

LEMMA OracleTickOK ==
    ASSUME OracleInv, OracleTick
    PROVE  OracleInv'
<1>1. FeedTypes'
  <2>1. ageOf' = [t \in Tokens |-> [r \in 0 .. Rounds |->
                    IF t \in WithFeed /\ r <= latest[t] /\ ageOf[t][r] < Oldest
                    THEN ageOf[t][r] + 1 ELSE ageOf[t][r]]]
    BY DEF OracleTick
  <2>2. \A t \in Tokens, r \in 0 .. Rounds : ageOf[t][r] \in 0 .. Oldest
    BY DEF OracleInv, FeedTypes
  <2>3. ageOf' \in [Tokens -> [0 .. Rounds -> 0 .. Oldest]]
    BY <2>1, <2>2, OracleConstants
  <2> QED BY <2>3 DEF OracleTick, OracleInv, FeedTypes
<1>2. ASSUME NEW t \in Tokens PROVE priced'[t] \in PriceRecs /\ PriceOK(priced[t], t)'
  <2> DEFINE p == priced[t]
             q == priced'[t]
  <2>1. p \in PriceRecs /\ PriceOK(p, t)
    BY DEF OracleInv, PricesOK
  <2>2. q = [p EXCEPT !.held = IF @ < CacheTtl THEN @ + 1 ELSE @]
    BY DEF OracleTick
  <2>3. p.held \in 0 .. CacheTtl /\ p.round \in RoundNos /\ p.source \in {"none", "chainlink", "aave"}
    BY <2>1 DEF PriceRecs
  <2>4. /\ q.round = p.round /\ q.source = p.source
        /\ q.held = IF p.held < CacheTtl THEN p.held + 1 ELSE p.held
    BY ONLY <2>1, <2>2 DEF PriceRecs
  <2>5. q \in PriceRecs
    <3>1. q.held \in 0 .. CacheTtl
      BY <2>3, <2>4, OracleConstants
    <3>2. \A h \in 0 .. CacheTtl : [p EXCEPT !.held = h] \in PriceRecs
      BY ONLY <2>1 DEF PriceRecs
    <3>3. q = [p EXCEPT !.held = q.held]
      BY ONLY <2>1, <2>2, <2>4 DEF PriceRecs
    <3> QED BY <3>1, <3>2, <3>3
  <2>6. ASSUME q.source = "chainlink" PROVE q.round >= 0 /\ ageOf'[t][q.round] <= MaxStale + q.held
    <3>1. p.round \in 0 .. Rounds /\ ageOf[t][p.round] <= MaxStale + p.held
      BY <2>1, <2>3, <2>4, <2>6, OracleConstants DEF PriceOK, RoundNos
    <3>2. /\ ageOf'[t][p.round] \in {ageOf[t][p.round], ageOf[t][p.round] + 1}
          /\ ageOf[t][p.round] \in 0 .. Oldest /\ ageOf'[t][p.round] \in 0 .. Oldest
      <4>1. \A r \in 0 .. Rounds : ageOf'[t][r] \in 0 .. Oldest /\ ageOf[t][r] \in 0 .. Oldest
        BY <1>1 DEF OracleInv, FeedTypes
      <4>2. \A r \in 0 .. Rounds : ageOf'[t][r] \in {ageOf[t][r], ageOf[t][r] + 1}
        <5>1. ageOf'[t] = [r \in 0 .. Rounds |->
                 IF t \in WithFeed /\ r <= latest[t] /\ ageOf[t][r] < Oldest
                 THEN ageOf[t][r] + 1 ELSE ageOf[t][r]]
          BY DEF OracleTick
        <5> QED BY ONLY <5>1
      <4> HIDE DEF p
      <4> QED BY <3>1, <4>1, <4>2
    <3> HIDE DEF p, q
    <3> QED BY <2>3, <2>4, <3>1, <3>2, OracleConstants
  <2> QED BY <2>5, <2>6 DEF PriceOK
<1>3. CallsOK'
  BY DEF OracleTick, OracleInv, CallsOK, CallOK
<1>4. PricesOK'
  <2>1. priced' \in [Tokens -> PriceRecs]
    <3>1. priced' = [t \in Tokens |-> priced'[t]]
      BY DEF OracleTick
    <3> QED BY <1>2, <3>1
  <2> QED BY <1>2, <2>1 DEF PricesOK
<1> QED BY <1>1, <1>3, <1>4 DEF OracleInv

LEMMA MadeCall ==
    ASSUME NEW kind \in {"none", "get", "batch", "force"}, NEW multi \in Seq(WithFeed),
           NEW since \in [Tokens -> RoundNos], NEW left \in Seq(Recent(since)),
           NEW joins \in [Tokens -> Readers \cup {NoReader}], NEW got \in [Tokens -> CallAnswers],
           \A t \in Tokens : /\ since[t] <= latest[t] /\ GoodAnswer(got[t], since[t])
                             /\ joins[t] # NoReader => since[t] = NoRound
    PROVE  CallOK([kind |-> kind, multi |-> multi, left |-> left, joins |-> joins, got |-> got,
                   since |-> since])
<1> DEFINE call == [kind |-> kind, multi |-> multi, left |-> left, joins |-> joins, got |-> got,
                    since |-> since]
<1>1. Recent(since) \subseteq Items
  BY DEF Recent
<1>2. left \in Seq(Items)
  BY <1>1
<1>3. call \in CallRecs
  BY <1>2 DEF CallRecs
<1>4. call.left = left /\ call.since = since /\ call.joins = joins /\ call.got = got
  OBVIOUS
<1> HIDE DEF call
<1>5. CallOK(call)
  BY <1>3, <1>4 DEF CallOK
<1> QED BY <1>5 DEF call

(* A call reads on: other tokens of a multicall, other items.              *)
LEMMA CallReadsOn ==
    ASSUME NEW r, CallOK(r), NEW multi \in Seq(WithFeed), NEW left \in Seq(Recent(r.since))
    PROVE  CallOK([r EXCEPT !.multi = multi, !.left = left])
<1> DEFINE q == [r EXCEPT !.multi = multi, !.left = left]
<1>1. r \in CallRecs
  BY DEF CallOK
<1>2. Recent(r.since) \subseteq Items
  BY DEF Recent
<1>3. left \in Seq(Items)
  BY <1>2
<1>4. q \in CallRecs
  BY ONLY <1>1, <1>3, multi \in Seq(WithFeed) DEF CallRecs
<1>5. q.left = left /\ q.since = r.since /\ q.joins = r.joins /\ q.got = r.got
  BY ONLY <1>1 DEF CallRecs
<1> HIDE DEF q
<1>6. CallOK(q)
  BY <1>4, <1>5, CallGoesOn
<1> QED BY <1>6 DEF q

(* A call gets an answer: its own, or that of a promise it waited for.     *)
LEMMA CallReceives ==
    ASSUME NEW r, CallOK(r), NEW t \in Tokens, NEW answer, GoodAnswer(answer, r.since[t]),
           NEW left \in Seq(Recent(r.since))
    PROVE  CallOK([r EXCEPT !.left = left, !.got[t] = answer])
<1> DEFINE q == [r EXCEPT !.left = left, !.got[t] = answer]
           got == [r.got EXCEPT ![t] = answer]
<1>1. r \in CallRecs
  BY DEF CallOK
<1>2. Recent(r.since) \subseteq Items
  BY DEF Recent
<1>3. left \in Seq(Items)
  BY <1>2
<1>4. r.got \in [Tokens -> CallAnswers]
  BY ONLY <1>1 DEF CallRecs
<1>5. /\ got \in [Tokens -> CallAnswers]
      /\ \A u \in Tokens : got[u] = r.got[u] \/ (u = t /\ got[u] = answer)
  BY <1>4 DEF GoodAnswer
<1>6. q.left = left /\ q.since = r.since /\ q.joins = r.joins /\ q.got = got
  BY ONLY <1>1 DEF CallRecs
<1>7. q = [r EXCEPT !.left = left, !.got = got]
  OBVIOUS
<1> HIDE DEF q, got
<1>8. q \in CallRecs
  BY ONLY <1>1, <1>3, <1>5, <1>7 DEF CallRecs
<1>9. \A u \in Tokens : got[u] = r.got[u] \/ GoodAnswer(got[u], r.since[u])
  BY <1>5
<1>10. CallOK(q)
  BY <1>6, <1>8, <1>9, CallGoesOn
<1> QED BY <1>10 DEF q

LEMMA CallWaitEnds ==
    ASSUME NEW r, CallOK(r), NEW t \in Tokens, NEW answer, GoodAnswer(answer, r.since[t])
    PROVE  CallOK([r EXCEPT !.joins[t] = NoReader, !.got[t] = answer])
<1> DEFINE q == [r EXCEPT !.joins[t] = NoReader, !.got[t] = answer]
           joins == [r.joins EXCEPT ![t] = NoReader]
           got == [r.got EXCEPT ![t] = answer]
<1>1. r \in CallRecs /\ r.left \in Seq(Recent(r.since))
  BY DEF CallOK
<1>2. r.joins \in [Tokens -> Readers \cup {NoReader}] /\ r.got \in [Tokens -> CallAnswers]
  BY ONLY <1>1 DEF CallRecs
<1>3. /\ joins \in [Tokens -> Readers \cup {NoReader}] /\ got \in [Tokens -> CallAnswers]
      /\ \A u \in Tokens : joins[u] \in {r.joins[u], NoReader}
      /\ \A u \in Tokens : got[u] = r.got[u] \/ (u = t /\ got[u] = answer)
  BY <1>2 DEF GoodAnswer
<1>4. q.left = r.left /\ q.since = r.since /\ q.joins = joins /\ q.got = got
  BY ONLY <1>1 DEF CallRecs
<1>5. q = [r EXCEPT !.joins = joins, !.got = got]
  OBVIOUS
<1> HIDE DEF q, joins, got
<1>6. q \in CallRecs
  BY ONLY <1>1, <1>3, <1>5 DEF CallRecs
<1>7. \A u \in Tokens : got[u] = r.got[u] \/ GoodAnswer(got[u], r.since[u])
  BY <1>3
<1>8. CallOK(q)
  BY <1>1, <1>3, <1>4, <1>6, <1>7, CallGoesOn
<1> QED BY <1>8 DEF q

(* What a call that has an item is, with it.                               *)
LEMMA CurrentItem ==
    ASSUME OracleInv, NEW c \in Readers, Busy(c)
    PROVE  /\ CallOK(reads[c]) /\ Current(c) \in Recent(reads[c].since) /\ Current(c) \in Items
           /\ Tail(reads[c].left) \in Seq(Recent(reads[c].since))
<1>1. CallOK(reads[c])
  BY DEF OracleInv, CallsOK
<1>2. reads[c].left \in Seq(Recent(reads[c].since)) /\ reads[c].left # <<>>
  BY <1>1 DEF CallOK, Busy
<1> QED BY <1>1, <1>2, TailItems DEF Current

(* Answered: the reader has its answer, and whoever waits for its promise  *)
(* is not a forced refresh, which would want a newer round.                *)
LEMMA AnsweredOK ==
    ASSUME OracleInv, NEW c \in Readers, Busy(c), NEW t \in Tokens, NEW answer,
           GoodAnswer(answer, reads[c].since[t]), GoodAnswer(answer, NoRound),
           UNCHANGED latest, Answered(c, t, answer)
    PROVE  CallsOK' /\ inFlight' \in [Tokens -> Readers \cup {NoReader}]
<1> DEFINE own == [reads[c] EXCEPT !.left = Tail(reads[c].left), !.got[t] = answer]
           mine == [reads EXCEPT ![c] = own]
<1>1. CallOK(own)
  BY CurrentItem, CallReceives
<1>2. own \in CallRecs /\ reads \in [Readers -> CallRecs]
  BY <1>1 DEF CallOK, OracleInv, CallsOK
<1>3. inFlight \in [Tokens -> Readers \cup {NoReader}]
  BY DEF OracleInv, FeedTypes
<1>4. own.since = reads[c].since /\ own.joins = reads[c].joins
  <2>1. reads[c] \in CallRecs
    BY <1>2
  <2> QED BY ONLY <2>1 DEF CallRecs
<1>5. CASE reads[c].kind # "get"
  <2>1. reads' = [reads EXCEPT ![c] = own] /\ inFlight' = inFlight
    BY <1>5 DEF Answered
  <2> HIDE DEF own
  <2> QED BY <1>1, <1>3, <2>1, SetCall
<1>6. CASE reads[c].kind = "get"
  <2>1. /\ inFlight' = [inFlight EXCEPT ![t] = NoReader]
        /\ reads' = [d \in Readers |-> IF reads[d].joins[t] = c
                       THEN [mine[d] EXCEPT !.joins[t] = NoReader, !.got[t] = answer] ELSE mine[d]]
    BY <1>6 DEF Answered
  <2>2. ASSUME NEW d \in Readers
        PROVE  CallOK(mine[d]) /\ mine[d].since = reads[d].since
    <3> HIDE DEF own
    <3> QED BY <1>1, <1>2, <1>4 DEF OracleInv, CallsOK
  <2> HIDE DEF mine
  <2>3. ASSUME NEW d \in Readers PROVE CallOK(reads'[d])
    <3>1. CASE reads[d].joins[t] = c
      <4>1. reads[d].since[t] = NoRound
        BY <3>1, OracleConstants DEF OracleInv, CallsOK, CallOK
      <4>2. GoodAnswer(answer, mine[d].since[t]) /\ CallOK(mine[d])
        BY <2>2, <4>1
      <4>3. CallOK([mine[d] EXCEPT !.joins[t] = NoReader, !.got[t] = answer])
        BY <4>2, CallWaitEnds
      <4> QED BY <2>1, <3>1, <4>3
    <3>2. CASE reads[d].joins[t] # c
      BY <2>1, <2>2, <3>2
    <3> QED BY <3>1, <3>2
  <2>4. reads' \in [Readers -> CallRecs]
    <3>1. reads' = [d \in Readers |-> reads'[d]]
      BY <2>1
    <3> QED BY <2>3, <3>1 DEF CallOK
  <2>5. ASSUME NEW d \in Readers PROVE CallOK(reads[d])'
    BY <2>3 DEF CallOK
  <2> QED BY <1>3, <2>1, <2>4, <2>5 DEF CallsOK
<1> QED BY <1>5, <1>6

(* Turns: the first item is looked for elsewhere.                          *)
LEMMA TurnsOK ==
    ASSUME OracleInv, NEW c \in Readers, Busy(c), NEW how, NEW round,
           Item(Current(c).token, how, round) \in Recent(reads[c].since),
           UNCHANGED latest, Turns(c, how, round)
    PROVE  CallsOK'
<1> DEFINE r == reads[c]
           item == Item(Current(c).token, how, round)
           left == <<item>> \o Tail(r.left)
           q == [r EXCEPT !.left = left]
<1>1. CallOK(r) /\ Tail(r.left) \in Seq(Recent(r.since))
  BY CurrentItem
<1>2. left \in Seq(Recent(r.since))
  <2>1. <<item>> \in Seq(Recent(r.since))
    BY DEF OracleInv
  <2> QED BY <1>1, <2>1, ConcatProperties
<1>3. reads' = [reads EXCEPT ![c] = q]
  BY DEF Turns
<1> HIDE DEF item, left, r
<1>4. r \in CallRecs
  BY <1>1 DEF CallOK
<1>5. left \in Seq(Items)
  <2>1. Recent(r.since) \subseteq Items
    BY DEF Recent
  <2> QED BY <1>2, <2>1
<1>6. q \in CallRecs
  BY ONLY <1>4, <1>5 DEF CallRecs
<1>7. q.left = left /\ q.since = r.since /\ q.joins = r.joins /\ q.got = r.got
  BY ONLY <1>4 DEF CallRecs
<1> HIDE DEF q
<1>8. CallOK(q)
  BY <1>1, <1>2, <1>6, <1>7, CallGoesOn
<1> QED BY <1>3, <1>8, SetCall

-----------------------------------------------------------------------------
(* The answers                                                             *)

(* A quote of a price that was read or cached in time is not too old.      *)
LEMMA QuoteOK ==
    ASSUME FeedTypes, NEW t \in Tokens, NEW r \in RoundNos, NEW source \in {"none", "chainlink", "aave"},
           NEW since \in RoundNos, r >= since,
           source = "chainlink" => ageOf[t][r] \in Int /\ ageOf[t][r] < Oldest
    PROVE  GoodAnswer(Quote(t, r, source), since)
<1> DEFINE aged == source = "chainlink" /\ ageOf[t][r] >= Oldest
<1>1. aged = FALSE
  BY OracleConstants
<1>2. Quote(t, r, source) = [round |-> r, aged |-> FALSE]
  BY <1>1 DEF Quote
<1>3. [round |-> r, aged |-> FALSE] \in CallAnswers
  BY DEF CallAnswers
<1> QED BY ONLY <1>2, <1>3, r >= since DEF GoodAnswer

LEMMA NothingGotFor ==
    ASSUME NEW since PROVE GoodAnswer(NoAnswer, since)
BY OracleConstants DEF NoAnswer, CallAnswers, GoodAnswer

LEMMA StoredOK ==
    ASSUME OracleInv, NEW t \in Tokens, NEW r \in 0 .. Rounds, NEW source \in {"chainlink", "aave"},
           source = "chainlink" => ageOf[t][r] <= MaxStale, UNCHANGED ageOf, priced' = Stored(t, r, source)
    PROVE  PricesOK'
<1> DEFINE p == [round |-> r, held |-> 0, source |-> source]
<1>1. p \in PriceRecs /\ p.round = r /\ p.held = 0 /\ p.source = source
  BY OracleConstants DEF PriceRecs
<1>2. priced' = [priced EXCEPT ![t] = p]
  BY DEF Stored
<1>3. source = "chainlink" => r >= 0 /\ ageOf[t][r] <= MaxStale + 0
  BY OracleConstants DEF OracleInv, FeedTypes
<1> HIDE DEF p
<1>4. priced' \in [Tokens -> PriceRecs] /\ \A u \in Tokens : priced'[u] = priced[u] \/ (u = t /\ priced'[u] = p)
  BY <1>1, <1>2 DEF OracleInv, PricesOK
<1>5. ASSUME NEW u \in Tokens PROVE PriceOK(priced[u], u)'
  <2>1. CASE priced'[u] = priced[u]
    BY <2>1 DEF OracleInv, PricesOK, PriceOK
  <2>2. CASE u = t /\ priced'[u] = p
    BY <1>1, <1>3, <2>2 DEF PriceOK
  <2> QED BY <1>4, <2>1, <2>2
<1> QED BY <1>4, <1>5 DEF PricesOK

LEMMA FeedTypesKept ==
    ASSUME FeedTypes, UNCHANGED <<latest, ageOf>>, inFlight' \in [Tokens -> Readers \cup {NoReader}]
    PROVE  FeedTypes'
BY DEF FeedTypes

LEMMA LatestIsRecent ==
    ASSUME OracleInv, NEW c \in Readers, NEW t \in Tokens
    PROVE  /\ latest[t] \in 0 .. Rounds /\ reads[c].since[t] \in RoundNos /\ reads[c].since[t] <= latest[t]
<1>1. CallOK(reads[c]) /\ reads[c].since \in [Tokens -> RoundNos]
  BY DEF OracleInv, CallsOK, CallOK, CallRecs
<1>2. latest[t] \in 0 .. Rounds
  BY DEF OracleInv, FeedTypes
<1> QED BY <1>1, <1>2 DEF CallOK

LEMMA ScaledOK ==
    ASSUME OracleInv, NEW c \in Readers, Scaled(c)
    PROVE  OracleInv'
<1> DEFINE t == Current(c).token
           r == Current(c).round
           since == reads[c].since
<1>1. Busy(c) /\ Current(c).how = "scale" /\ UNCHANGED <<latest, ageOf>>
  BY DEF Scaled, At, roundVars
<1>2. /\ t \in Tokens /\ r \in RoundNos /\ r >= 0 /\ r >= since[t] /\ r \in 0 .. Rounds
      /\ since[t] \in RoundNos
  <2>1. Current(c) \in Items /\ Current(c) \in Recent(since)
    BY <1>1, CurrentItem
  <2>2. t \in Tokens /\ r \in RoundNos
    BY ONLY <2>1 DEF Items
  <2>3. r >= 0 /\ r >= since[t]
    BY <1>1, <2>1 DEF Recent
  <2> QED BY <2>2, <2>3, OracleConstants, LatestIsRecent DEF RoundNos
<1>3. CASE Trusted(t, r)
  <2>1. priced' = Stored(t, r, "chainlink") /\ Answered(c, t, Quote(t, r, "chainlink"))
    BY <1>3 DEF Scaled
  <2>2. ageOf[t][r] \in Int /\ ageOf[t][r] <= MaxStale /\ ageOf[t][r] < Oldest
    <3>1. ageOf[t][r] \in 0 .. Oldest
      BY <1>2 DEF OracleInv, FeedTypes
    <3> HIDE DEF t, r
    <3> QED BY <1>3, <3>1, OracleConstants DEF Trusted
  <2> HIDE DEF t, r, since
  <2>3. GoodAnswer(Quote(t, r, "chainlink"), since[t]) /\ GoodAnswer(Quote(t, r, "chainlink"), NoRound)
    <3>1. r >= NoRound /\ NoRound \in RoundNos
      BY <1>2, OracleConstants
    <3> QED BY <1>2, <2>2, <3>1, QuoteOK DEF OracleInv
  <2>4. PricesOK'
    BY <1>1, <1>2, <2>1, <2>2, StoredOK
  <2>5. CallsOK' /\ inFlight' \in [Tokens -> Readers \cup {NoReader}]
    BY <1>1, <1>2, <2>1, <2>3, AnsweredOK DEF since
  <2> QED BY <1>1, <2>4, <2>5, FeedTypesKept DEF OracleInv
<1>4. CASE ~Trusted(t, r)
  <2>1. Turns(c, "aave", NoRound) /\ UNCHANGED <<priced, inFlight>>
    BY <1>4 DEF Scaled
  <2>2. Item(t, "aave", NoRound) \in Recent(since)
    BY <1>2, OracleConstants DEF Item, Recent, Items
  <2>3. CallsOK'
    BY <1>1, <2>1, <2>2, TurnsOK
  <2> QED BY <1>1, <2>1, <2>3 DEF OracleInv, FeedTypes, PricesOK, PriceOK
<1> QED BY <1>3, <1>4

LEMMA AaveAnswersOK ==
    ASSUME OracleInv, NEW c \in Readers, AaveAnswers(c)
    PROVE  OracleInv'
<1> DEFINE t == Current(c).token
<1>1. /\ Busy(c) /\ UNCHANGED <<latest, ageOf>>
      /\ priced' = Stored(t, latest[t], "aave") /\ Answered(c, t, Quote(t, latest[t], "aave"))
  BY DEF AaveAnswers, At, roundVars
<1>2. t \in Tokens
  <2>1. Current(c) \in Items
    BY <1>1, CurrentItem
  <2> QED BY ONLY <2>1 DEF Items
<1> HIDE DEF t
<1>3. /\ latest[t] \in 0 .. Rounds /\ latest[t] \in RoundNos /\ reads[c].since[t] \in RoundNos
      /\ latest[t] >= reads[c].since[t] /\ latest[t] >= NoRound /\ NoRound \in RoundNos
  <2>1. latest[t] \in 0 .. Rounds /\ reads[c].since[t] \in RoundNos /\ reads[c].since[t] <= latest[t]
    BY <1>2, LatestIsRecent
  <2> QED BY <2>1, OracleConstants
<1>4. /\ GoodAnswer(Quote(t, latest[t], "aave"), reads[c].since[t])
      /\ GoodAnswer(Quote(t, latest[t], "aave"), NoRound)
  BY <1>2, <1>3, QuoteOK DEF OracleInv
<1>5. PricesOK'
  BY <1>1, <1>2, <1>3, StoredOK
<1>6. CallsOK' /\ inFlight' \in [Tokens -> Readers \cup {NoReader}]
  BY <1>1, <1>2, <1>4, AnsweredOK
<1> QED BY <1>1, <1>5, <1>6, FeedTypesKept DEF OracleInv

LEMMA AaveFailsOK ==
    ASSUME OracleInv, NEW c \in Readers, AaveFails(c)
    PROVE  OracleInv'
<1> DEFINE t == Current(c).token
<1>1. Busy(c) /\ UNCHANGED <<latest, ageOf, priced>> /\ Answered(c, t, NoAnswer)
  BY DEF AaveFails, At, roundVars
<1>2. t \in Tokens
  <2>1. Current(c) \in Items
    BY <1>1, CurrentItem
  <2> QED BY ONLY <2>1 DEF Items
<1> HIDE DEF t
<1>3. CallsOK' /\ inFlight' \in [Tokens -> Readers \cup {NoReader}]
  BY <1>1, <1>2, NothingGotFor, AnsweredOK
<1> QED BY <1>1, <1>3, FeedTypesKept DEF OracleInv, PricesOK, PriceOK

LEMMA RoundReadOK ==
    ASSUME OracleInv, NEW c \in Readers, RoundAnswers(c) \/ RoundFails(c)
    PROVE  OracleInv'
<1> DEFINE t == Current(c).token
<1>1. /\ Busy(c) /\ UNCHANGED <<latest, ageOf, priced, inFlight>>
      /\ Turns(c, "scale", latest[t]) \/ Turns(c, "aave", NoRound)
  BY DEF RoundAnswers, RoundFails, At, roundVars
<1>2. t \in Tokens
  <2>1. Current(c) \in Items
    BY <1>1, CurrentItem
  <2> QED BY ONLY <2>1 DEF Items
<1>3. /\ Item(t, "scale", latest[t]) \in Recent(reads[c].since)
      /\ Item(t, "aave", NoRound) \in Recent(reads[c].since)
  <2> HIDE DEF t
  <2>1. latest[t] \in 0 .. Rounds /\ reads[c].since[t] \in RoundNos /\ reads[c].since[t] <= latest[t]
    BY <1>2, LatestIsRecent
  <2>2. latest[t] >= 0 /\ latest[t] >= reads[c].since[t] /\ latest[t] \in RoundNos
    BY <2>1, OracleConstants
  <2> QED BY <1>2, <2>2, OracleConstants DEF Item, Recent, Items
<1>4. CallsOK'
  BY <1>1, <1>3, TurnsOK
<1> QED BY <1>1, <1>4 DEF OracleInv, FeedTypes, PricesOK, PriceOK

(* The multicall: each feed's round as it is now, or another try.          *)
LEMMA MulticallItems ==
    ASSUME OracleInv, NEW c \in Readers, NEW t \in WithFeed
    PROVE  /\ Item(t, "scale", latest[t]) \in Recent(reads[c].since)
           /\ Item(t, "aave", NoRound) \in Recent(reads[c].since)
           /\ Item(t, "round", NoRound) \in Recent(reads[c].since)
<1>1. t \in Tokens
  BY OracleConstants
<1>2. latest[t] \in 0 .. Rounds /\ reads[c].since[t] \in RoundNos /\ reads[c].since[t] <= latest[t]
  BY <1>1, LatestIsRecent
<1>3. latest[t] >= 0 /\ latest[t] >= reads[c].since[t] /\ latest[t] \in RoundNos
  BY <1>2, OracleConstants
<1> QED BY <1>1, <1>3, OracleConstants DEF Item, Recent, Items

LEMMA MulticallOK ==
    ASSUME OracleInv, NEW c \in Readers, MulticallAnswers(c) \/ MulticallFails(c)
    PROVE  OracleInv'
<1> DEFINE r == reads[c]
           multi == r.multi
           items == [i \in DOMAIN multi |-> Item(multi[i], "round", NoRound)]
           answers(ok) == [i \in DOMAIN multi |->
                             IF multi[i] \in ok THEN Item(multi[i], "scale", latest[multi[i]])
                             ELSE Item(multi[i], "aave", NoRound)]
<1>1. UNCHANGED <<latest, ageOf, priced, inFlight>>
  BY DEF MulticallAnswers, MulticallFails, roundVars
<1>2. CallOK(r) /\ multi \in Seq(WithFeed) /\ <<>> \in Seq(WithFeed)
  BY DEF OracleInv, CallsOK, CallOK, CallRecs
<1>3. \A i \in DOMAIN multi : multi[i] \in WithFeed
  BY <1>2
<1>4. Len(multi) \in Nat /\ DOMAIN multi = 1 .. Len(multi)
  BY <1>2
<1>5. items \in Seq(Recent(r.since)) /\ \A ok : answers(ok) \in Seq(Recent(r.since))
  <2>1. \A i \in 1 .. Len(multi) : Item(multi[i], "round", NoRound) \in Recent(r.since)
    BY <1>3, <1>4, MulticallItems
  <2>2. \A ok : \A i \in 1 .. Len(multi) :
          (IF multi[i] \in ok THEN Item(multi[i], "scale", latest[multi[i]])
           ELSE Item(multi[i], "aave", NoRound)) \in Recent(r.since)
    BY <1>3, <1>4, MulticallItems
  <2> HIDE DEF multi, r
  <2> QED BY <1>4, <2>1, <2>2
<1>6. \E left \in Seq(Recent(r.since)) :
        reads' = [reads EXCEPT ![c] = [reads[c] EXCEPT !.multi = <<>>, !.left = left]]
  <2>1. CASE MulticallFails(c)
    <3>1. reads' = [reads EXCEPT ![c] = [reads[c] EXCEPT !.multi = <<>>, !.left = items]]
      BY <2>1 DEF MulticallFails
    <3> QED BY <1>5, <3>1
  <2>2. CASE MulticallAnswers(c)
    <3>1. PICK ok : reads' = [reads EXCEPT ![c] = [reads[c] EXCEPT !.multi = <<>>, !.left = answers(ok)]]
      BY <2>2 DEF MulticallAnswers
    <3> QED BY <1>5, <3>1
  <2> QED BY <2>1, <2>2
<1>7. PICK left \in Seq(Recent(r.since)) :
        reads' = [reads EXCEPT ![c] = [r EXCEPT !.multi = <<>>, !.left = left]]
  BY <1>6
<1> HIDE DEF r, multi
<1>8. CallOK([r EXCEPT !.multi = <<>>, !.left = left])
  BY <1>2, <1>7, CallReadsOn
<1>9. CallsOK'
  BY <1>1, <1>7, <1>8, SetCall
<1> QED BY <1>1, <1>9 DEF OracleInv, FeedTypes, PricesOK, PriceOK

-----------------------------------------------------------------------------
(* The calls                                                               *)

(* A price that may still be given out.                                    *)
LEMMA FreshQuote ==
    ASSUME FeedTypes, NEW t \in Tokens, NEW store, store[t] \in PriceRecs, PriceOK(store[t], t), Fresh(store, t)
    PROVE  GoodAnswer(Quote(t, store[t].round, store[t].source), NoRound)
<1> DEFINE p == store[t]
<1>1. p \in PriceRecs /\ PriceOK(p, t) /\ p.held < CacheTtl
  BY DEF Fresh
<1> HIDE DEF p
<1>2. p.round \in RoundNos /\ p.held \in 0 .. CacheTtl /\ p.source \in {"none", "chainlink", "aave"}
  BY ONLY <1>1 DEF PriceRecs
<1>3. p.round >= NoRound /\ NoRound \in RoundNos
  BY <1>2, OracleConstants DEF RoundNos
<1>4. p.source = "chainlink" => ageOf[t][p.round] \in Int /\ ageOf[t][p.round] < Oldest
  <2> SUFFICES ASSUME p.source = "chainlink" PROVE ageOf[t][p.round] \in Int /\ ageOf[t][p.round] < Oldest
    OBVIOUS
  <2>1. p.round \in 0 .. Rounds /\ ageOf[t][p.round] <= MaxStale + p.held
    BY <1>1, <1>2, OracleConstants DEF PriceOK, RoundNos
  <2>2. ageOf[t][p.round] \in 0 .. Oldest
    BY <2>1 DEF FeedTypes
  <2> QED BY <1>1, <1>2, <2>1, <2>2, OracleConstants
<1>5. GoodAnswer(Quote(t, p.round, p.source), NoRound)
  BY <1>2, <1>3, <1>4, QuoteOK
<1> QED BY <1>5 DEF p

(* A getUsdPrice, from Idle: it has the cached price, or waits for the     *)
(* promise in flight, or starts to read.                                   *)
LEMMA NewGetHas ==
    ASSUME FeedTypes, NEW t \in Tokens, NEW answer, GoodAnswer(answer, NoRound)
    PROVE  CallOK([Idle EXCEPT !.kind = "get", !.got[t] = answer])
<1> DEFINE q == [Idle EXCEPT !.kind = "get", !.got[t] = answer]
           got == [Idle.got EXCEPT ![t] = answer]
<1>1. CallOK(Idle) /\ \A u \in Tokens : Idle.since[u] = NoRound
  BY IdleOK
<1>2. Idle \in CallRecs
  BY <1>1 DEF CallOK
<1>3. Idle.got \in [Tokens -> CallAnswers]
  BY ONLY <1>2 DEF CallRecs
<1>4. got \in [Tokens -> CallAnswers] /\ \A u \in Tokens : got[u] = Idle.got[u] \/ got[u] = answer
  BY <1>3 DEF GoodAnswer
<1>5. q.left = Idle.left /\ q.since = Idle.since /\ q.joins = Idle.joins /\ q.got = got
  BY ONLY <1>2 DEF CallRecs
<1>6. q = [Idle EXCEPT !.kind = "get", !.got = got]
  OBVIOUS
<1> HIDE DEF q, got
<1>7. q \in CallRecs
  BY ONLY <1>2, <1>4, <1>6 DEF CallRecs
<1>8. CallOK(q)
  BY <1>1, <1>4, <1>5, <1>7 DEF CallOK
<1> QED BY <1>8 DEF q

LEMMA NewGetWaits ==
    ASSUME FeedTypes, NEW t \in Tokens, NEW d \in Readers
    PROVE  CallOK([Idle EXCEPT !.kind = "get", !.joins[t] = d])
<1> DEFINE q == [Idle EXCEPT !.kind = "get", !.joins[t] = d]
           joins == [Idle.joins EXCEPT ![t] = d]
<1>1. CallOK(Idle) /\ \A u \in Tokens : Idle.since[u] = NoRound
  BY IdleOK
<1>2. Idle \in CallRecs
  BY <1>1 DEF CallOK
<1>3. Idle.joins \in [Tokens -> Readers \cup {NoReader}]
  BY ONLY <1>2 DEF CallRecs
<1>4. joins \in [Tokens -> Readers \cup {NoReader}]
  BY <1>3
<1>5. q.left = Idle.left /\ q.since = Idle.since /\ q.joins = joins /\ q.got = Idle.got
  BY ONLY <1>2 DEF CallRecs
<1>6. q = [Idle EXCEPT !.kind = "get", !.joins = joins]
  OBVIOUS
<1> HIDE DEF q, joins
<1>7. q \in CallRecs
  BY ONLY <1>2, <1>4, <1>6 DEF CallRecs
<1>8. CallOK(q)
  BY <1>1, <1>5, <1>7 DEF CallOK
<1> QED BY <1>8 DEF q

LEMMA NewGetReads ==
    ASSUME FeedTypes, NEW t \in Tokens
    PROVE  CallOK([Idle EXCEPT !.kind = "get", !.left = <<Item(t, How(t), NoRound)>>])
<1> DEFINE left == <<Item(t, How(t), NoRound)>>
           q == [Idle EXCEPT !.kind = "get", !.left = left]
<1>1. CallOK(Idle) /\ \A u \in Tokens : Idle.since[u] = NoRound
  BY IdleOK
<1>2. Idle \in CallRecs
  BY <1>1 DEF CallOK
<1>3. Item(t, How(t), NoRound) \in Recent(Idle.since) /\ Recent(Idle.since) \subseteq Items
  BY OracleConstants DEF How, Item, Recent, Items
<1>4. left \in Seq(Recent(Idle.since)) /\ left \in Seq(Items)
  BY <1>3
<1>5. q.left = left /\ q.since = Idle.since /\ q.joins = Idle.joins /\ q.got = Idle.got
  BY ONLY <1>2 DEF CallRecs
<1> HIDE DEF left
<1>6. q \in CallRecs
  BY ONLY <1>2, <1>4 DEF CallRecs
<1> HIDE DEF q
<1>7. CallOK(q)
  BY <1>1, <1>4, <1>5, <1>6 DEF CallOK
<1> QED BY <1>7 DEF q, left

LEMMA GetUsdPriceOK ==
    ASSUME OracleInv, NEW c \in Readers, NEW t \in Tokens, GetUsdPrice(c, t)
    PROVE  OracleInv'
<1>1. UNCHANGED <<latest, ageOf, priced>>
  BY DEF GetUsdPrice, roundVars
<1>2. FeedTypes /\ priced[t] \in PriceRecs /\ PriceOK(priced[t], t)
      /\ inFlight \in [Tokens -> Readers \cup {NoReader}]
  BY DEF OracleInv, PricesOK, FeedTypes
<1>3. CASE Fresh(priced, t)
  <2>1. /\ inFlight' = inFlight
        /\ reads' = [reads EXCEPT ![c] = [Idle EXCEPT !.kind = "get",
                            !.got[t] = Quote(t, priced[t].round, priced[t].source)]]
    BY <1>3 DEF GetUsdPrice
  <2>2. GoodAnswer(Quote(t, priced[t].round, priced[t].source), NoRound)
    BY <1>2, <1>3, FreshQuote
  <2>3. CallOK([Idle EXCEPT !.kind = "get", !.got[t] = Quote(t, priced[t].round, priced[t].source)])
    BY <1>2, <2>2, NewGetHas
  <2>4. CallsOK'
    BY <1>1, <2>1, <2>3, SetCall
  <2> QED BY <1>1, <2>1, <2>4 DEF OracleInv, FeedTypes, PricesOK, PriceOK
<1>4. CASE ~Fresh(priced, t) /\ inFlight[t] # NoReader
  <2>1. /\ inFlight' = inFlight
        /\ reads' = [reads EXCEPT ![c] = [Idle EXCEPT !.kind = "get", !.joins[t] = inFlight[t]]]
    BY <1>4 DEF GetUsdPrice
  <2>2. inFlight[t] \in Readers
    BY <1>2, <1>4
  <2>3. CallOK([Idle EXCEPT !.kind = "get", !.joins[t] = inFlight[t]])
    BY <1>2, <2>2, NewGetWaits
  <2>4. CallsOK'
    BY <1>1, <2>1, <2>3, SetCall
  <2> QED BY <1>1, <2>1, <2>4 DEF OracleInv, FeedTypes, PricesOK, PriceOK
<1>5. CASE ~Fresh(priced, t) /\ inFlight[t] = NoReader
  <2>1. /\ inFlight' = [inFlight EXCEPT ![t] = c]
        /\ reads' = [reads EXCEPT ![c] = [Idle EXCEPT !.kind = "get",
                                                     !.left = <<Item(t, How(t), NoRound)>>]]
    BY <1>5 DEF GetUsdPrice
  <2>2. CallsOK'
    BY <1>1, <1>2, <2>1, NewGetReads, SetCall
  <2>3. inFlight' \in [Tokens -> Readers \cup {NoReader}]
    BY <1>2, <2>1
  <2> QED BY <1>1, <1>2, <2>2, <2>3, FeedTypesKept DEF OracleInv, PricesOK, PriceOK
<1> QED BY <1>3, <1>4, <1>5

LEMMA ItemsInOrder ==
    ASSUME NEW S, NEW n \in Nat, NEW f \in [1 .. n -> S] PROVE f \in Seq(S)
OBVIOUS

(* A batch: what is cached and fresh it has, a promise in flight it waits  *)
(* for; a forced one has neither, so that it may ask for the latest round. *)
LEMMA AskingOK ==
    ASSUME FeedTypes, NEW kind \in {"batch", "force"}, NEW ask, ask \subseteq Tokens, IsFiniteSet(ask),
           NEW store \in [Tokens -> PriceRecs], \A t \in Tokens : PriceOK(store[t], t),
           NEW flying \in [Tokens -> Readers \cup {NoReader}],
           kind = "force" => \A t \in ask : ~Fresh(store, t) /\ flying[t] = NoReader,
           NEW c \in Readers, Asking(c, kind, ask, store, flying)
    PROVE  \E call : CallOK(call) /\ reads' = [reads EXCEPT ![c] = call]
<1> DEFINE missing == {t \in ask : ~Fresh(store, t)}
           own == {t \in missing : flying[t] = NoReader}
           hits == [t \in Tokens |-> IF t \in ask \ missing
                                      THEN Quote(t, store[t].round, store[t].source) ELSE NoAnswer]
           waits == [t \in Tokens |-> IF t \in missing THEN flying[t] ELSE NoReader]
           newest == [t \in Tokens |-> IF kind = "force" /\ t \in ask THEN latest[t] ELSE NoRound]
           items(bare) == [i \in DOMAIN bare |-> Item(bare[i], "aave", NoRound)]
           call(multi, bare) == [kind |-> kind, multi |-> multi, left |-> items(bare), joins |-> waits,
                                 got |-> hits, since |-> newest]
<1>1. PICK multi \in SetToSeqs(own \cap WithFeed), bare \in SetToSeqs(own \ WithFeed) :
        reads' = [reads EXCEPT ![c] = call(multi, bare)]
  BY DEF Asking
<1>2. IsFiniteSet(own \cap WithFeed) /\ IsFiniteSet(own \ WithFeed)
  <2>1. own \cap WithFeed \subseteq ask /\ own \ WithFeed \subseteq ask
    OBVIOUS
  <2> HIDE DEF own
  <2> QED BY <2>1, FS_Subset
<1>3. newest \in [Tokens -> RoundNos] /\ \A t \in Tokens : newest[t] <= latest[t]
  BY OracleConstants DEF FeedTypes
<1>4. \A t \in Tokens : newest[t] # NoRound => t \in ask /\ ~Fresh(store, t) /\ flying[t] = NoReader
  OBVIOUS
<1>5. /\ waits \in [Tokens -> Readers \cup {NoReader}]
      /\ \A t \in Tokens : waits[t] # NoReader => newest[t] = NoRound
  BY <1>4
<1>6. ASSUME NEW t \in Tokens PROVE GoodAnswer(hits[t], newest[t])
  <2>1. CASE t \in ask \ missing
    <3>1. newest[t] = NoRound /\ Fresh(store, t) /\ hits[t] = Quote(t, store[t].round, store[t].source)
      BY <1>4, <2>1
    <3>2. store[t] \in PriceRecs /\ PriceOK(store[t], t)
      OBVIOUS
    <3> QED BY <3>1, <3>2, FreshQuote
  <2>2. CASE t \notin ask \ missing
    BY <2>2, NothingGotFor
  <2> QED BY <2>1, <2>2
<1>7. hits \in [Tokens -> CallAnswers]
  BY <1>6 DEF GoodAnswer
<1>8. own \cap WithFeed \subseteq WithFeed /\ own \ WithFeed \subseteq Tokens
  OBVIOUS
<1> HIDE DEF missing, own, hits, waits, newest
<1>9. multi \in Seq(WithFeed)
  <2>1. multi \in [1 .. Cardinality(own \cap WithFeed) -> own \cap WithFeed]
    BY DEF SetToSeqs
  <2>2. Cardinality(own \cap WithFeed) \in Nat
    BY <1>2, FS_CardinalityType
  <2>3. multi \in [1 .. Cardinality(own \cap WithFeed) -> WithFeed]
    BY <1>8, <2>1
  <2> QED BY <2>2, <2>3, ItemsInOrder
<1>10. items(bare) \in Seq(Recent(newest))
  <2>1. bare \in [1 .. Cardinality(own \ WithFeed) -> own \ WithFeed]
    BY DEF SetToSeqs
  <2>2. Cardinality(own \ WithFeed) \in Nat
    BY <1>2, FS_CardinalityType
  <2>3. \A t \in Tokens : Item(t, "aave", NoRound) \in Recent(newest)
    BY OracleConstants DEF Item, Recent, Items
  <2>4. \A i \in 1 .. Cardinality(own \ WithFeed) : Item(bare[i], "aave", NoRound) \in Recent(newest)
    BY <1>8, <2>1, <2>3
  <2>5. items(bare) \in [1 .. Cardinality(own \ WithFeed) -> Recent(newest)]
    BY <2>1, <2>4
  <2> QED BY <2>2, <2>5, ItemsInOrder
<1> HIDE DEF items
<1>11. CallOK(call(multi, bare))
  BY <1>3, <1>5, <1>6, <1>7, <1>9, <1>10, MadeCall
<1> QED BY <1>1, <1>11

LEMMA BatchOK ==
    ASSUME OracleInv, NEW c \in Readers, NEW ask \in Requests, BatchGetUsdPrices(c, ask)
    PROVE  OracleInv'
<1>1. UNCHANGED <<latest, ageOf, priced, inFlight>>
  BY DEF BatchGetUsdPrices, roundVars
<1>2. Asking(c, "batch", ask, priced, inFlight)
  BY DEF BatchGetUsdPrices
<1>3. ask \subseteq Tokens /\ IsFiniteSet(ask)
  BY OracleAssumption
<1>4. PICK call : CallOK(call) /\ reads' = [reads EXCEPT ![c] = call]
  <2>1. /\ FeedTypes /\ priced \in [Tokens -> PriceRecs] /\ \A t \in Tokens : PriceOK(priced[t], t)
        /\ inFlight \in [Tokens -> Readers \cup {NoReader}]
    BY DEF OracleInv, PricesOK, FeedTypes
  <2> QED BY <1>2, <1>3, <2>1, AskingOK
<1>5. CallsOK'
  BY <1>1, <1>4, SetCall
<1> QED BY <1>1, <1>5 DEF OracleInv, FeedTypes, PricesOK, PriceOK

LEMMA ForceOK ==
    ASSUME OracleInv, NEW c \in Readers, NEW ask \in Requests, ForceRefreshUsdPrices(c, ask)
    PROVE  OracleInv'
<1>1. /\ UNCHANGED <<latest, ageOf>>
      /\ priced' = [t \in Tokens |-> IF t \in ask THEN Unpriced ELSE priced[t]]
      /\ inFlight' = [t \in Tokens |-> IF t \in ask THEN NoReader ELSE inFlight[t]]
  BY DEF ForceRefreshUsdPrices, roundVars, Dropped
<1>2. Asking(c, "force", ask, priced', inFlight')
  BY DEF ForceRefreshUsdPrices
<1>3. ask \subseteq Tokens /\ IsFiniteSet(ask)
  BY OracleAssumption
<1>4. Unpriced \in PriceRecs /\ Unpriced.held = CacheTtl /\ Unpriced.source = "none"
  BY OracleConstants DEF Unpriced, PriceRecs
<1>5. /\ priced' \in [Tokens -> PriceRecs] /\ inFlight' \in [Tokens -> Readers \cup {NoReader}]
      /\ \A t \in Tokens : PriceOK(priced'[t], t)
  <2>1. \A t \in Tokens : PriceOK(Unpriced, t) /\ PriceOK(priced[t], t) /\ priced[t] \in PriceRecs
    BY <1>4 DEF PriceOK, OracleInv, PricesOK
  <2>2. inFlight \in [Tokens -> Readers \cup {NoReader}]
    BY DEF OracleInv, FeedTypes
  <2> QED BY <1>1, <1>4, <2>1, <2>2
<1>6. \A t \in ask : ~Fresh(priced', t) /\ inFlight'[t] = NoReader
  BY <1>1, <1>3, <1>4, OracleConstants DEF Fresh
<1>7. PICK call : CallOK(call) /\ reads' = [reads EXCEPT ![c] = call]
  BY <1>2, <1>3, <1>5, <1>6, AskingOK DEF OracleInv
<1>8. CallsOK'
  BY <1>1, <1>7, SetCall
<1>9. PricesOK'
  BY <1>1, <1>5 DEF PricesOK, PriceOK
<1> QED BY <1>1, <1>5, <1>8, <1>9, FeedTypesKept DEF OracleInv

-----------------------------------------------------------------------------
LEMMA OracleInitOK == OracleInit => OracleInv
<1> SUFFICES ASSUME OracleInit PROVE OracleInv
  OBVIOUS
<1>1. FeedTypes
  BY OracleConstants DEF OracleInit, FeedTypes
<1>2. PricesOK
  <2>1. Unpriced \in PriceRecs /\ Unpriced.source = "none"
    BY OracleConstants DEF Unpriced, PriceRecs
  <2> QED BY <2>1 DEF OracleInit, PricesOK, PriceOK
<1>3. CallsOK
  <2>1. CallOK(Idle)
    BY <1>1, IdleOK
  <2>2. Idle \in CallRecs
    BY <2>1 DEF CallOK
  <2> QED BY <2>1, <2>2 DEF OracleInit, CallsOK
<1> QED BY <1>1, <1>2, <1>3 DEF OracleInv

LEMMA OracleStepOK == OracleInv /\ [OracleNext]_oracleVars => OracleInv'
<1> SUFFICES ASSUME OracleInv, [OracleNext]_oracleVars PROVE OracleInv'
  OBVIOUS
<1>1. CASE OracleTick
  BY <1>1, OracleTickOK
<1>2. CASE \E t \in Tokens : FeedMoves(t)
  BY <1>2, FeedMovesOK
<1>3. ASSUME NEW c \in Readers, \E t \in Tokens : GetUsdPrice(c, t) PROVE OracleInv'
  BY <1>3, GetUsdPriceOK
<1>4. ASSUME NEW c \in Readers, \E ask \in Requests : BatchGetUsdPrices(c, ask) \/ ForceRefreshUsdPrices(c, ask)
      PROVE  OracleInv'
  BY <1>4, BatchOK, ForceOK
<1>5. ASSUME NEW c \in Readers, MulticallAnswers(c) \/ MulticallFails(c) PROVE OracleInv'
  BY <1>5, MulticallOK
<1>6. ASSUME NEW c \in Readers, RoundAnswers(c) \/ RoundFails(c) PROVE OracleInv'
  BY <1>6, RoundReadOK
<1>7. ASSUME NEW c \in Readers, Scaled(c) \/ AaveAnswers(c) \/ AaveFails(c) PROVE OracleInv'
  BY <1>7, ScaledOK, AaveAnswersOK, AaveFailsOK
<1>8. CASE UNCHANGED oracleVars
  BY <1>8 DEF oracleVars, OracleInv, FeedTypes, PricesOK, PriceOK, CallsOK, CallOK
<1> QED BY <1>1, <1>2, <1>3, <1>4, <1>5, <1>6, <1>7, <1>8 DEF OracleNext

LEMMA OracleInvPromises == OracleInv => OraclePromise
<1> SUFFICES ASSUME OracleInv PROVE OraclePromise
  OBVIOUS
<1>1. ASSUME NEW c \in Readers, NEW t \in Tokens
      PROVE  /\ ~reads[c].got[t].aged
             /\ reads[c].got[t].round # NoRound => reads[c].got[t].round >= reads[c].since[t]
  <2>1. CallOK(reads[c])
    BY DEF OracleInv, CallsOK
  <2>2. GoodAnswer(reads[c].got[t], reads[c].since[t])
    BY <2>1 DEF CallOK
  <2> QED BY <2>2 DEF GoodAnswer
<1> QED BY <1>1 DEF OraclePromise, ForcedIsRead, ServedIsFresh

(* Whatever the calls, their order and what fails: a forced refresh gives  *)
(* no round older than those there were when it was asked for, and nobody  *)
(* is given a round older than maxStaleMs and cacheTtlMs together          *)
(* (priceOracleCache.ts:182-188,226-235,443).                              *)
THEOREM OraclePromiseKept == OracleSpec => []OraclePromise
<1>1. OracleSpec => []OracleInv
  BY OracleInitOK, OracleStepOK, PTL DEF OracleSpec
<1> QED BY <1>1, OracleInvPromises, PTL

(* Whatever calls overlap, a token's promise is somebody's, and what a call*)
(* has left to read is of tokens and rounds there are.                     *)
THEOREM OracleTypeCorrect == OracleSpec => []OracleTypeOK
<1>1. OracleInv => OracleTypeOK
  <2> SUFFICES ASSUME OracleInv PROVE OracleTypeOK
    OBVIOUS
  <2>1. FeedTypes /\ priced \in [Tokens -> PriceRecs]
    BY DEF OracleInv, PricesOK
  <2>2. ASSUME NEW c \in Readers
        PROVE  /\ reads[c].kind \in {"none", "get", "batch", "force"}
               /\ ToSet(reads[c].multi) \subseteq Tokens
               /\ \A item \in ToSet(reads[c].left) :
                    item \in [token: Tokens, how: {"round", "scale", "aave"}, round: NoRound .. Rounds]
               /\ reads[c].joins \in [Tokens -> Readers \cup {NoReader}]
    <3>1. reads[c] \in CallRecs
      BY DEF OracleInv, CallsOK
    <3>2. /\ reads[c].kind \in {"none", "get", "batch", "force"}
          /\ reads[c].multi \in Seq(WithFeed) /\ reads[c].left \in Seq(Items)
          /\ reads[c].joins \in [Tokens -> Readers \cup {NoReader}]
      BY ONLY <3>1 DEF CallRecs
    <3>3. WithFeed \subseteq Tokens
      BY OracleConstants
    <3>4. ToSet(reads[c].multi) \subseteq WithFeed /\ ToSet(reads[c].left) \subseteq Items
      BY ONLY <3>2 DEF ToSet
    <3> QED BY ONLY <3>2, <3>3, <3>4 DEF Items, RoundNos
  <2> QED BY <2>1, <2>2 DEF FeedTypes, OracleTypeOK, PriceRecs, RoundNos
<1>2. OracleSpec => []OracleInv
  BY OracleInitOK, OracleStepOK, PTL DEF OracleSpec
<1> QED BY <1>1, <1>2, PTL

-----------------------------------------------------------------------------
(* Induction, with a set for the numbers that have the property: the least *)
(* number outside it would follow one inside.                              *)
LEMMA NumbersFollow ==
    ASSUME NEW S, 0 \in S, \A n \in Nat : n \in S => n + 1 \in S
    PROVE  \A n \in Nat : n \in S
<1> DEFINE R == {p \in Nat \X Nat : p[1] < p[2]}
           T == {n \in Nat : n \notin S}
<1>1. IsWellFoundedOn(R, Nat)
  BY NatLessThanWellFounded DEF OpToRel
<1>2. SUFFICES ASSUME T # {} PROVE FALSE
  OBVIOUS
<1>3. PICK x \in T : \A y \in T : ~ (<<y, x>> \in R)
  BY <1>1, <1>2, WFMin, T \subseteq Nat
<1>4. x \in Nat /\ x # 0 /\ x - 1 \in Nat
  OBVIOUS
<1>5. <<x - 1, x>> \in R
  BY <1>4
<1>6. x - 1 \in S
  BY <1>3, <1>4, <1>5
<1> QED BY <1>4, <1>6

LEMMA LeastNumber ==
    ASSUME NEW S, S \subseteq Nat, S # {}
    PROVE  \E x \in S : \A y \in S : x <= y
<1> DEFINE R == {p \in Nat \X Nat : p[1] < p[2]}
<1>1. IsWellFoundedOn(R, Nat)
  BY NatLessThanWellFounded DEF OpToRel
<1>2. PICK x \in S : \A y \in S : ~ (<<y, x>> \in R)
  BY <1>1, WFMin
<1>3. ASSUME NEW y \in S PROVE x <= y
  <2>1. x \in Nat /\ y \in Nat /\ ~ (<<y, x>> \in R)
    BY <1>2
  <2>2. ~ (y < x)
    BY <2>1
  <2> QED BY <2>1, <2>2
<1> QED BY <1>3

-----------------------------------------------------------------------------
(* Detection: a cache whose index and count are those of its snapshots     *)
(* stays one, whatever is put in and whatever is pruned.                   *)

IndexOK(c) ==
    /\ DOMAIN c = {"snaps", "before", "old", "idx", "n"}
    /\ IsFiniteSet(DOMAIN c.snaps) /\ c.old \subseteq DOMAIN c.snaps
    /\ \A r \in Reserves : c.idx[r] = {a \in DOMAIN c.snaps : r \in c.snaps[a].reserves}
    /\ c.n = Cardinality(DOMAIN c.snaps)

LEMMA DeletedOK ==
    ASSUME NEW c, IndexOK(c), NEW gone, gone \subseteq DOMAIN c.snaps
    PROVE  IndexOK(Deleted(c, gone))
<1> DEFINE d == Deleted(c, gone)
           left == DOMAIN c.snaps \ gone
<1>1. /\ d.snaps = [x \in left |-> c.snaps[x]] /\ d.old = c.old \ gone
      /\ d.idx = [r \in Reserves |-> c.idx[r] \ {a \in gone : r \in c.snaps[a].reserves}]
      /\ d.n = c.n - Cardinality(gone) /\ DOMAIN d = {"snaps", "before", "old", "idx", "n"}
  BY DEF Deleted, Restrict
<1> HIDE DEF d
<1>2. IsFiniteSet(left) /\ Cardinality(left) = Cardinality(DOMAIN c.snaps) - Cardinality(gone)
  <2>1. (DOMAIN c.snaps) \cap gone = gone /\ IsFiniteSet(DOMAIN c.snaps)
    BY DEF IndexOK
  <2> QED BY <2>1, FS_Difference
<1>3. DOMAIN d.snaps = left /\ d.old \subseteq left
  BY <1>1 DEF IndexOK
<1>4. ASSUME NEW r \in Reserves PROVE d.idx[r] = {a \in DOMAIN d.snaps : r \in d.snaps[a].reserves}
  <2>1. d.idx[r] = {a \in DOMAIN c.snaps : r \in c.snaps[a].reserves} \ {a \in gone : r \in c.snaps[a].reserves}
    BY <1>1 DEF IndexOK
  <2>2. \A a \in left : d.snaps[a] = c.snaps[a]
    BY <1>1
  <2> QED BY <1>3, <2>1, <2>2
<1>5. IndexOK(d)
  BY <1>1, <1>2, <1>3, <1>4 DEF IndexOK
<1> QED BY <1>5 DEF d

LEMMA UpsertedIndex ==
    ASSUME NEW c, IndexOK(c), NEW a, NEW s
    PROVE  LET known == a \in DOMAIN c.snaps
               before == IF known THEN Detached(c.idx, a, c.snaps[a].reserves) ELSE c.idx
           IN  IndexOK([snaps  |-> [x \in DOMAIN c.snaps \cup {a} |-> IF x = a THEN s ELSE c.snaps[x]],
                        before |-> IF known THEN c.before ELSE c.before \cup ((DOMAIN c.snaps) \X {a}),
                        old    |-> c.old \ {a}, idx |-> Attached(before, a, s.reserves),
                        n      |-> IF known THEN c.n ELSE c.n + 1])
<1> DEFINE known == a \in DOMAIN c.snaps
           snaps == [x \in DOMAIN c.snaps \cup {a} |-> IF x = a THEN s ELSE c.snaps[x]]
           idx == Attached(IF known THEN Detached(c.idx, a, c.snaps[a].reserves) ELSE c.idx, a, s.reserves)
           d == [snaps  |-> snaps,
                 before |-> IF known THEN c.before ELSE c.before \cup ((DOMAIN c.snaps) \X {a}),
                 old    |-> c.old \ {a}, idx |-> idx,
                 n      |-> IF known THEN c.n ELSE c.n + 1]
<1>2. /\ DOMAIN d = {"snaps", "before", "old", "idx", "n"} /\ d.snaps = snaps /\ d.old = c.old \ {a}
      /\ d.idx = idx /\ d.n = IF known THEN c.n ELSE c.n + 1
  OBVIOUS
<1>3. /\ DOMAIN snaps = DOMAIN c.snaps \cup {a} /\ snaps[a] = s
      /\ \A x \in DOMAIN c.snaps \ {a} : snaps[x] = c.snaps[x]
  OBVIOUS
<1>4. ASSUME NEW r \in Reserves PROVE idx[r] = {x \in DOMAIN snaps : r \in snaps[x].reserves}
  <2>1. c.idx[r] = {x \in DOMAIN c.snaps : r \in c.snaps[x].reserves}
    BY DEF IndexOK
  <2> DEFINE before == IF known THEN Detached(c.idx, a, c.snaps[a].reserves) ELSE c.idx
  <2>2. before[r] = {x \in DOMAIN c.snaps \ {a} : r \in c.snaps[x].reserves}
    BY <2>1 DEF Detached
  <2>3. idx[r] = IF r \in s.reserves THEN before[r] \cup {a} ELSE before[r]
    BY DEF Attached
  <2> HIDE DEF idx, snaps, before
  <2> QED BY <1>3, <2>2, <2>3
<1> HIDE DEF d, snaps, idx
<1>5. IsFiniteSet(DOMAIN d.snaps) /\ d.n = Cardinality(DOMAIN d.snaps)
  BY <1>2, <1>3, FS_AddElement DEF IndexOK
<1>6. d.old \subseteq DOMAIN d.snaps
  BY <1>2, <1>3 DEF IndexOK
<1>7. IndexOK(d)
  BY <1>2, <1>4, <1>5, <1>6 DEF IndexOK
<1> QED BY <1>7 DEF d, snaps, idx

(* The recursion of UpsertedAll has a solution.                            *)
CacheAfter(c, read, f, i) ==
    IF i = 0 THEN c
    ELSE CHOOSE next \in {Upserted(last, read[i].account, read[i].snapshot) : last \in {f[i - 1]}} : TRUE

LEMMA CachesFollow ==
    ASSUME NEW c, NEW read, NEW n \in Nat
    PROVE  \E f : f = [i \in 0 .. n |-> CacheAfter(c, read, f, i)]
<1> DEFINE S == {m \in Nat : \E f : f = [i \in 0 .. m |-> CacheAfter(c, read, f, i)]}
<1>1. 0 \in S
  <2> DEFINE f == [i \in 0 .. 0 |-> c]
  <2>1. f = [i \in 0 .. 0 |-> CacheAfter(c, read, f, i)]
    BY DEF CacheAfter
  <2> QED BY <2>1
<1>2. ASSUME NEW m \in Nat, m \in S PROVE m + 1 \in S
  <2>1. PICK f : f = [i \in 0 .. m |-> CacheAfter(c, read, f, i)]
    BY <1>2
  <2> DEFINE g == [i \in 0 .. m + 1 |-> IF i = m + 1 THEN CacheAfter(c, read, f, i) ELSE f[i]]
  <2>2. \A i \in 0 .. m + 1 : i # 0 => g[i - 1] = f[i - 1]
    OBVIOUS
  <2>3. \A i \in 0 .. m + 1 : CacheAfter(c, read, g, i) = CacheAfter(c, read, f, i)
    BY <2>2 DEF CacheAfter
  <2>4. \A i \in 0 .. m : f[i] = CacheAfter(c, read, f, i)
    BY <2>1
  <2>5. \A i \in 0 .. m + 1 : g[i] = CacheAfter(c, read, g, i)
    BY <2>3, <2>4
  <2>6. g = [i \in 0 .. m + 1 |-> CacheAfter(c, read, g, i)]
    BY <2>5
  <2> HIDE DEF g
  <2> QED BY <2>6
<1> HIDE DEF S
<1>3. n \in S
  BY <1>1, <1>2, NumbersFollow
<1> QED BY <1>3 DEF S

-----------------------------------------------------------------------------
(* What is in the cache, and in which order it came.                       *)
SnapRecs == [hf: Levels, reserves: Exposures]

SnapsOK(c) ==
    /\ DOMAIN c.snaps \subseteq Accounts /\ \A a \in DOMAIN c.snaps : c.snaps[a] \in SnapRecs
    /\ c.idx \in [Reserves -> SUBSET Accounts]

OrderOK(c) ==
    /\ c.before \subseteq (DOMAIN c.snaps) \X (DOMAIN c.snaps)
    /\ \A a \in DOMAIN c.snaps : <<a, a>> \notin c.before
    /\ \A a, b \in DOMAIN c.snaps : a # b => (<<a, b>> \in c.before <=> <<b, a>> \notin c.before)
    /\ \A a, b, x \in DOMAIN c.snaps :
        <<a, b>> \in c.before /\ <<b, x>> \in c.before => <<a, x>> \in c.before

CacheOK(c) == IndexOK(c) /\ SnapsOK(c) /\ OrderOK(c)
Capped(c) == Cardinality(DOMAIN c.snaps) <= MaxEntries

LEMMA DeletedKeeps ==
    ASSUME NEW c, CacheOK(c), NEW gone, gone \subseteq DOMAIN c.snaps
    PROVE  CacheOK(Deleted(c, gone)) /\ DOMAIN Deleted(c, gone).snaps = DOMAIN c.snaps \ gone
<1> DEFINE d == Deleted(c, gone)
           left == DOMAIN c.snaps \ gone
<1>1. /\ d.snaps = [x \in left |-> c.snaps[x]]
      /\ d.before = {p \in c.before : p[1] \notin gone /\ p[2] \notin gone}
      /\ d.idx = [r \in Reserves |-> c.idx[r] \ {a \in gone : r \in c.snaps[a].reserves}]
  BY DEF Deleted, Restrict
<1>2. IndexOK(d)
  BY DeletedOK DEF CacheOK
<1> HIDE DEF d
<1>3. DOMAIN d.snaps = left /\ \A a \in left : d.snaps[a] = c.snaps[a]
  BY <1>1
<1>4. SnapsOK(d)
  BY <1>1, <1>3 DEF CacheOK, SnapsOK
<1>5. \A a, b \in left : <<a, b>> \in d.before <=> <<a, b>> \in c.before
  BY <1>1
<1>6. d.before \subseteq left \X left
  BY <1>1 DEF CacheOK, OrderOK
<1>7. OrderOK(d)
  BY <1>3, <1>5, <1>6 DEF CacheOK, OrderOK
<1> QED BY <1>2, <1>3, <1>4, <1>7 DEF CacheOK, d

(* Of accounts in an order, no more than MaxEntries are no excess: before  *)
(* the first of those that stay there are at least as many as must go.     *)
LEMMA ExcessIsEnough ==
    ASSUME NEW c, CacheOK(c), NEW set, set \subseteq DOMAIN c.snaps
    PROVE  Cardinality(set \ Excess(c, set)) <= MaxEntries
<1> DEFINE Before(a) == {b \in set : <<b, a>> \in c.before}
           stay == set \ Excess(c, set)
<1>1. IsFiniteSet(set) /\ Cardinality(set) \in Nat
  BY FS_Subset, FS_CardinalityType DEF CacheOK, IndexOK
<1>2. MaxEntries \in Nat
  BY DetectionAssumption
<1>3. \A a : Before(a) \subseteq set /\ IsFiniteSet(Before(a)) /\ Cardinality(Before(a)) \in Nat
  BY <1>1, FS_Subset, FS_CardinalityType
<1>4. stay = {a \in set : Cardinality(Before(a)) >= Cardinality(set) - MaxEntries}
  <2>1. Excess(c, set) = {a \in set : Cardinality(Before(a)) < Cardinality(set) - MaxEntries}
    BY DEF Excess
  <2> HIDE DEF Before
  <2> QED BY <1>1, <1>2, <1>3, <2>1
<1>5. stay \subseteq set /\ IsFiniteSet(stay)
  BY <1>1, <1>4, FS_Subset
<1>6. CASE stay = {}
  BY <1>2, <1>6, FS_EmptySet
<1>7. CASE stay # {}
  <2> DEFINE ranks == {Cardinality(Before(a)) : a \in stay}
  <2>1. ranks \subseteq Nat /\ ranks # {}
    BY <1>3, <1>7
  <2>2. PICK n \in ranks : \A m \in ranks : n <= m
    <3> HIDE DEF ranks
    <3> QED BY <2>1, LeastNumber
  <2>3. PICK a \in stay : \A b \in stay : Cardinality(Before(a)) <= Cardinality(Before(b))
    <3>1. PICK a \in stay : n = Cardinality(Before(a))
      BY <2>2
    <3>2. \A b \in stay : Cardinality(Before(b)) \in ranks
      OBVIOUS
    <3> HIDE DEF Before, stay, ranks
    <3> QED BY <2>2, <3>1, <3>2
  <2>4. a \in set /\ a \in DOMAIN c.snaps /\ Cardinality(Before(a)) >= Cardinality(set) - MaxEntries
    BY <1>4
  <2>5. ASSUME NEW b \in stay, b \in Before(a) PROVE FALSE
    <3>1. b \in set /\ b \in DOMAIN c.snaps /\ <<b, a>> \in c.before
      BY <1>5, <2>5
    <3>2. Before(b) \subseteq Before(a)
      BY <2>4, <3>1 DEF CacheOK, OrderOK
    <3>3. b \notin Before(b)
      BY <3>1 DEF CacheOK, OrderOK
    <3>4. Cardinality(Before(b)) <= Cardinality(Before(a)) /\ Cardinality(Before(b)) # Cardinality(Before(a))
      BY <1>3, <2>5, <3>2, <3>3, FS_Subset
    <3>5. Cardinality(Before(a)) <= Cardinality(Before(b))
      BY <2>3
    <3> HIDE DEF Before
    <3> QED BY <1>3, <3>4, <3>5
  <2>6. stay \subseteq set \ Before(a)
    BY <1>5, <2>5
  <2>7. /\ IsFiniteSet(set \ Before(a))
        /\ Cardinality(set \ Before(a)) = Cardinality(set) - Cardinality(Before(a))
    <3>1. set \cap Before(a) = Before(a)
      BY <1>3
    <3> QED BY <1>1, <3>1, FS_Difference
  <2>8. Cardinality(stay) <= Cardinality(set \ Before(a)) /\ Cardinality(stay) \in Nat
    BY <1>5, <2>6, <2>7, FS_Subset, FS_CardinalityType
  <2> HIDE DEF Before, stay
  <2> QED BY <1>1, <1>2, <1>3, <2>4, <2>7, <2>8 DEF stay
<1> QED BY <1>6, <1>7

LEMMA PrunedKeeps ==
    ASSUME NEW c, CacheOK(c)
    PROVE  CacheOK(Pruned(c)) /\ Capped(Pruned(c))
<1> DEFINE young == DOMAIN c.snaps \ c.old
           gone == c.old \cup Excess(c, young)
<1>1. gone \subseteq DOMAIN c.snaps /\ DOMAIN c.snaps \ gone = young \ Excess(c, young)
  BY DEF Excess, CacheOK, IndexOK
<1>2. Pruned(c) = Deleted(c, gone)
  BY DEF Pruned
<1>3. CacheOK(Pruned(c)) /\ DOMAIN Pruned(c).snaps = DOMAIN c.snaps \ gone
  <2> HIDE DEF gone
  <2> QED BY <1>1, <1>2, DeletedKeeps
<1>4. Cardinality(young \ Excess(c, young)) <= MaxEntries
  BY ExcessIsEnough
<1> QED BY <1>1, <1>3, <1>4 DEF Capped

LEMMA UpsertedKeeps ==
    ASSUME NEW c, CacheOK(c), NEW a \in Accounts, NEW s \in SnapRecs
    PROVE  CacheOK(Upserted(c, a, s)) /\ Capped(Upserted(c, a, s))
<1> DEFINE known == a \in DOMAIN c.snaps
           snaps == [x \in DOMAIN c.snaps \cup {a} |-> IF x = a THEN s ELSE c.snaps[x]]
           before == IF known THEN c.before ELSE c.before \cup ((DOMAIN c.snaps) \X {a})
           idx == Attached(IF known THEN Detached(c.idx, a, c.snaps[a].reserves) ELSE c.idx, a, s.reserves)
           d == [snaps |-> snaps, before |-> before, old |-> c.old \ {a}, idx |-> idx,
                 n |-> IF known THEN c.n ELSE c.n + 1]
<1>1. Upserted(c, a, s) = Pruned(d)
  BY DEF Upserted
<1>2. /\ d.snaps = snaps /\ d.before = before /\ d.idx = idx
  OBVIOUS
<1>3. /\ DOMAIN snaps = DOMAIN c.snaps \cup {a} /\ snaps[a] = s
      /\ \A x \in DOMAIN c.snaps \ {a} : snaps[x] = c.snaps[x]
  OBVIOUS
<1>4. IndexOK(d)
  BY UpsertedIndex DEF CacheOK
<1>5. SnapsOK(d)
  <2>1. idx \in [Reserves -> SUBSET Accounts]
    BY DEF CacheOK, SnapsOK, Attached, Detached
  <2> HIDE DEF idx, snaps, d
  <2> QED BY <1>2, <1>3, <2>1 DEF CacheOK, SnapsOK
<1>6. OrderOK(d)
  <2>1. CASE known
    <3>1. DOMAIN snaps = DOMAIN c.snaps /\ before = c.before
      BY <1>3, <2>1
    <3> HIDE DEF d, snaps, before, known
    <3> QED BY <1>2, <3>1 DEF CacheOK, OrderOK
  <2>2. CASE ~known
    <3>1. /\ \A x, y \in DOMAIN c.snaps : <<x, y>> \in before <=> <<x, y>> \in c.before
          /\ \A x \in DOMAIN c.snaps : <<x, a>> \in before
          /\ \A y : <<a, y>> \notin before
          /\ before \subseteq (DOMAIN snaps) \X (DOMAIN snaps)
      BY <1>3, <2>2 DEF CacheOK, OrderOK
    <3> HIDE DEF d, snaps, before
    <3> QED BY <1>2, <1>3, <2>2, <3>1 DEF CacheOK, OrderOK
  <2> QED BY <2>1, <2>2
<1> HIDE DEF d
<1> QED BY <1>1, <1>4, <1>5, <1>6, PrunedKeeps DEF CacheOK

(* What was read, one snapshot after the other.                            *)
ReadRecs == [account: Accounts, snapshot: SnapRecs]

LEMMA UpsertedAllKeeps ==
    ASSUME NEW c, CacheOK(c), Capped(c), NEW read \in Seq(ReadRecs)
    PROVE  CacheOK(UpsertedAll(c, read)) /\ Capped(UpsertedAll(c, read))
<1> DEFINE caches == CHOOSE f : f = [i \in 0 .. Len(read) |-> CacheAfter(c, read, f, i)]
           S == {m \in Nat : m <= Len(read) => CacheOK(caches[m]) /\ Capped(caches[m])}
<1>0. Len(read) \in Nat
  OBVIOUS
<1>1. caches = [i \in 0 .. Len(read) |-> CacheAfter(c, read, caches, i)]
  BY <1>0, CachesFollow
<1>2. UpsertedAll(c, read) = caches[Len(read)]
  BY DEF UpsertedAll, CacheAfter
<1> HIDE DEF caches
<1>3. 0 \in S
  BY <1>1 DEF CacheAfter
<1>4. ASSUME NEW m \in Nat, m \in S PROVE m + 1 \in S
  <2> SUFFICES ASSUME m + 1 <= Len(read) PROVE CacheOK(caches[m + 1]) /\ Capped(caches[m + 1])
    OBVIOUS
  <2>1. CacheOK(caches[m])
    BY <1>0, <1>4
  <2>2. caches[m + 1] = CHOOSE next \in {Upserted(last, read[m + 1].account, read[m + 1].snapshot) :
                                            last \in {caches[m]}} : TRUE
    BY <1>0, <1>1 DEF CacheAfter
  <2>3. caches[m + 1] = Upserted(caches[m], read[m + 1].account, read[m + 1].snapshot)
    BY <2>2
  <2>4. read[m + 1].account \in Accounts /\ read[m + 1].snapshot \in SnapRecs
    <3>1. m + 1 \in 1 .. Len(read)
      BY <1>0
    <3>2. read[m + 1] \in ReadRecs
      <4> HIDE DEF ReadRecs
      <4> QED BY <3>1
    <3> QED BY <3>2 DEF ReadRecs
  <2> QED BY <2>1, <2>3, <2>4, UpsertedKeeps
<1> HIDE DEF S
<1>5. Len(read) \in S
  BY <1>0, <1>3, <1>4, NumbersFollow
<1> QED BY <1>0, <1>2, <1>5 DEF S

-----------------------------------------------------------------------------
(* What the chain gives: some pair is the best, the rows of the subgraph   *)
(* are the accounts, and what is read of an account is a snapshot.         *)

Tops(i, n) ==
    \A j \in 1 .. n : j # i =>
        \/ BeatsPair(ReservePairs[i], ReservePairs[j])
        \/ i < j /\ ~BeatsPair(ReservePairs[j], ReservePairs[i])

LEMMA PairsKnown ==
    /\ Len(ReservePairs) \in Nat \ {0} /\ DOMAIN ReservePairs = 1 .. Len(ReservePairs)
    /\ \A i \in 1 .. Len(ReservePairs) :
        /\ ReservePairs[i].bonus \in Nat /\ ReservePairs[i].repay \in Nat
        /\ ReservePairs[i].reserves \in Exposures
<1>1. Len(ReservePairs) \in Nat \ {0} /\ DOMAIN ReservePairs = 1 .. Len(ReservePairs)
  BY DetectionAssumption, EmptySeq
<1>2. \A i \in 1 .. Len(ReservePairs) : ReservePairs[i] \in ToSet(ReservePairs)
  BY <1>1 DEF ToSet
<1> QED BY <1>1, <1>2, DetectionAssumption DEF Exposures

LEMMA SomePairTops == TopPair \in DOMAIN ReservePairs
<1> DEFINE n == Len(ReservePairs)
           S == {m \in Nat : 1 <= m /\ m <= n => \E i \in 1 .. m : Tops(i, m)}
           bonus(i) == ReservePairs[i].bonus
           repay(i) == ReservePairs[i].repay
<1>1. n \in Nat \ {0} /\ DOMAIN ReservePairs = 1 .. n
      /\ \A i \in 1 .. n : bonus(i) \in Nat /\ repay(i) \in Nat
  BY PairsKnown
<1>2. \A i, j \in 1 .. n : BeatsPair(ReservePairs[i], ReservePairs[j]) <=>
            bonus(i) > bonus(j) \/ (bonus(i) = bonus(j) /\ repay(i) > repay(j))
  BY DEF BeatsPair
<1> HIDE DEF n, bonus, repay
<1>3. 0 \in S
  OBVIOUS
<1>4. ASSUME NEW m \in Nat, m \in S PROVE m + 1 \in S
  <2> SUFFICES ASSUME m + 1 <= n PROVE \E i \in 1 .. m + 1 : Tops(i, m + 1)
    OBVIOUS
  <2>1. CASE m = 0
    BY <2>1 DEF Tops
  <2>2. CASE m # 0
    <3>1. PICK i \in 1 .. m : Tops(i, m)
      BY <1>1, <1>4, <2>2
    <3>2. i \in 1 .. n /\ m + 1 \in 1 .. n /\ \A j \in 1 .. m : j \in 1 .. n
      BY <1>1
    <3>3. CASE BeatsPair(ReservePairs[m + 1], ReservePairs[i])
      <4>1. ASSUME NEW j \in 1 .. m PROVE BeatsPair(ReservePairs[m + 1], ReservePairs[j])
        <5>1. \/ j = i \/ BeatsPair(ReservePairs[i], ReservePairs[j])
              \/ ~BeatsPair(ReservePairs[j], ReservePairs[i])
          BY <3>1, <4>1 DEF Tops
        <5>2. /\ bonus(i) \in Nat /\ bonus(j) \in Nat /\ bonus(m + 1) \in Nat
              /\ repay(i) \in Nat /\ repay(j) \in Nat /\ repay(m + 1) \in Nat
          BY <1>1, <3>2
        <5> QED BY <1>2, <3>2, <3>3, <5>1, <5>2
      <4>2. Tops(m + 1, m + 1)
        BY <4>1 DEF Tops
      <4> QED BY <4>2
    <3>4. CASE ~BeatsPair(ReservePairs[m + 1], ReservePairs[i])
      <4>1. Tops(i, m + 1)
        BY <3>1, <3>4 DEF Tops
      <4> QED BY <4>1
    <3> QED BY <3>3, <3>4
  <2> QED BY <2>1, <2>2
<1> HIDE DEF S
<1>5. n \in S
  BY <1>1, <1>3, <1>4, NumbersFollow
<1>6. PICK i \in 1 .. n : Tops(i, n)
  BY <1>1, <1>5 DEF S
<1>7. i \in DOMAIN ReservePairs /\ \A j \in DOMAIN ReservePairs \ {i} :
            \/ BeatsPair(ReservePairs[i], ReservePairs[j])
            \/ i < j /\ ~BeatsPair(ReservePairs[j], ReservePairs[i])
  BY <1>1, <1>6 DEF Tops
<1> QED BY <1>7 DEF TopPair

LEMMA RowsAreAccounts == PositionIds \in Seq(Accounts)
<1> DEFINE n == Cardinality(Accounts)
<1>1. n \in Nat /\ ExistsBijection(1 .. n, Accounts)
  BY FS_CardinalityType, DetectionAssumption
<1>2. PICK f \in [1 .. n -> Accounts] : IsInjective(f)
  BY <1>1 DEF ExistsBijection, Bijection, Injection, IsInjective
<1>3. PositionIds \in [1 .. n -> Accounts]
  BY <1>2 DEF PositionIds, SetToSeq
<1> QED BY <1>1, <1>3

ChainTypes == hfOf \in [Accounts -> Levels] /\ heavy \subseteq Accounts /\ shifts \in 0 .. Shifts

LEMMA ReadTyped ==
    ASSUME ChainTypes, NEW a \in Accounts, NEW kind
    PROVE  ReadOf(kind, a) \in Seq(ReadRecs)
<1>1. hfOf[a] \in Levels
  BY DEF ChainTypes
<1>2. ReservePairs[1].reserves \in Exposures /\ BestPair(a).reserves \in Exposures
  BY PairsKnown, SomePairTops DEF BestPair
<1>3. Paged(a) \in SnapRecs /\ ReadAgain(a) \in SnapRecs
  BY <1>1, <1>2 DEF Paged, ReadAgain, SnapRecs
<1>4. /\ [account |-> a, snapshot |-> Paged(a)] \in ReadRecs
      /\ [account |-> a, snapshot |-> ReadAgain(a)] \in ReadRecs
  BY <1>3 DEF ReadRecs
<1>5. \A x \in ReadRecs : <<x>> \in Seq(ReadRecs)
  OBVIOUS
<1>6. <<>> \in Seq(ReadRecs)
  OBVIOUS
<1> HIDE DEF ReadRecs
<1> QED BY <1>4, <1>5, <1>6 DEF ReadOf

-----------------------------------------------------------------------------
(* The detection as a whole.                                               *)
TaskRecs == [kind: Kinds \cup {"none"}, asks: SUBSET Accounts, read: Seq(ReadRecs),
             cursor: 0 .. Len(PositionIds), about: SUBSET Reserves]
BreakerTypes ==
    /\ rescans \in [failures: Nat, cooling: BOOLEAN]
    /\ breakers \in [{"rpc", "subgraph"} -> [failures: 0 .. Threshold, open: BOOLEAN]]
CursorTypes == lastBorrowerCursorId \in 0 .. Len(PositionIds)

CacheInv == CacheOK(borrowerCache) /\ Capped(borrowerCache)
DetectionInv == ChainTypes /\ CacheInv /\ CursorTypes /\ tasks \in [Tasks -> TaskRecs] /\ BreakerTypes

LEMMA RowCount == Len(PositionIds) \in Nat
BY RowsAreAccounts

LEMMA NoTaskOK == NoTask \in TaskRecs
<1>1. <<>> \in Seq(ReadRecs)
  <2> HIDE DEF ReadRecs
  <2> QED OBVIOUS
<1> QED BY <1>1, RowCount DEF NoTask, TaskRecs, Kinds

LEMMA NewTaskOK ==
    ASSUME NEW kind \in Kinds, NEW asks \in SUBSET Accounts
    PROVE  [NoTask EXCEPT !.kind = kind, !.asks = asks] \in TaskRecs
<1>1. kind \in Kinds \cup {"none"}
  OBVIOUS
<1> QED BY ONLY <1>1, NoTaskOK, asks \in SUBSET Accounts DEF TaskRecs

LEMMA NextPageOK ==
    ASSUME CursorTypes, NEW kind \in Kinds, NEW about \in SUBSET Reserves
    PROVE  NextPage(kind, about) \in TaskRecs
<1> DEFINE n == Len(PositionIds)
           at == lastBorrowerCursorId
           last == IF at + PageSize <= n THEN at + PageSize ELSE n
           asks == ToSet(SubSeq(PositionIds, at + 1, last))
           next == IF last = at + PageSize THEN last ELSE 0
<1>1. n \in Nat /\ at \in 0 .. n /\ PageSize \in Nat \ {0}
  BY RowCount, DetectionAssumption DEF CursorTypes
<1>2. last \in 0 .. n /\ at <= last
  BY <1>1
<1>3. next \in 0 .. n
  BY <1>1, <1>2
<1>4. asks \subseteq Accounts
  <2>1. PositionIds \in Seq(Accounts)
    BY RowsAreAccounts
  <2> HIDE DEF last, at
  <2>2. SubSeq(PositionIds, at + 1, last) = [i \in 1 .. last - at |-> PositionIds[i + at]]
    BY <1>1, <1>2, <2>1
  <2>3. \A i \in 1 .. last - at : i + at \in 1 .. n
    BY <1>1, <1>2
  <2>4. \A i \in 1 .. last - at : PositionIds[i + at] \in Accounts
    BY <2>1, <2>3
  <2> QED BY <2>2, <2>4 DEF ToSet
<1>5. NextPage(kind, about) = [NoTask EXCEPT !.kind = kind, !.about = about, !.asks = asks, !.cursor = next]
  BY DEF NextPage
<1> HIDE DEF last, at, asks, next
<1>6. kind \in Kinds \cup {"none"}
  OBVIOUS
<1>7. [NoTask EXCEPT !.kind = kind, !.about = about, !.asks = asks, !.cursor = next] \in TaskRecs
  BY ONLY <1>3, <1>4, <1>6, NoTaskOK, about \in SUBSET Reserves DEF TaskRecs
<1> QED BY <1>5, <1>7

LEMMA TaskSet ==
    ASSUME tasks \in [Tasks -> TaskRecs], NEW t \in Tasks, NEW task \in TaskRecs,
           tasks' = [tasks EXCEPT ![t] = task]
    PROVE  tasks' \in [Tasks -> TaskRecs]
<1> HIDE DEF TaskRecs
<1> QED OBVIOUS

LEMMA ReadAccountOK ==
    ASSUME DetectionInv, NEW t \in Tasks, NEW a \in Accounts, ReadAccount(t, a)
    PROVE  DetectionInv'
<1> DEFINE task == tasks[t]
           more == ReadOf(tasks[t].kind, a)
           next == [task EXCEPT !.asks = @ \ {a}, !.read = @ \o more]
<1>1. tasks \in [Tasks -> TaskRecs] /\ task \in TaskRecs
  BY DEF DetectionInv
<1>2. tasks' = [tasks EXCEPT ![t] = next]
      /\ UNCHANGED <<hfOf, heavy, shifts, borrowerCache, lastBorrowerCursorId, rescans, breakers>>
  BY <1>1 DEF ReadAccount, chainVars
<1>3. more \in Seq(ReadRecs)
  BY ReadTyped DEF DetectionInv
<1>4. task.read \in Seq(ReadRecs) /\ task.asks \in SUBSET Accounts
  BY <1>1 DEF TaskRecs
<1>5. task.read \o more \in Seq(ReadRecs) /\ task.asks \ {a} \in SUBSET Accounts
  <2> HIDE DEF more, task, ReadRecs
  <2> QED BY <1>3, <1>4, ConcatProperties
<1> HIDE DEF more, task
<1>6. next \in TaskRecs
  BY ONLY <1>1, <1>5 DEF TaskRecs
<1> HIDE DEF next
<1>7. tasks' \in [Tasks -> TaskRecs]
  BY <1>1, <1>2, <1>6, TaskSet
<1> QED BY <1>2, <1>7
        DEF DetectionInv, ChainTypes, CacheInv, CacheOK, Capped, IndexOK, SnapsOK, OrderOK,
            CursorTypes, BreakerTypes

LEMMA BreakerStep ==
    ASSUME BreakerTypes, NEW b \in {"rpc", "subgraph"}, RecordFailure(b)
    PROVE  breakers' \in [{"rpc", "subgraph"} -> [failures: 0 .. Threshold, open: BOOLEAN]]
<1> DEFINE old == breakers[b]
           next == [failures |-> IF old.failures < Threshold THEN old.failures + 1 ELSE old.failures,
                    open |-> old.open \/ old.failures + 1 >= Threshold]
<1>1. breakers' = [breakers EXCEPT ![b] = next]
  BY DEF RecordFailure
<1>2. old.failures \in 0 .. Threshold /\ old.open \in BOOLEAN /\ Threshold \in Nat
  BY DetectionAssumption DEF BreakerTypes
<1>3. next \in [failures: 0 .. Threshold, open: BOOLEAN]
  <2>1. (IF old.failures < Threshold THEN old.failures + 1 ELSE old.failures) \in 0 .. Threshold
    BY <1>2
  <2>2. (old.open \/ old.failures + 1 >= Threshold) \in BOOLEAN
    OBVIOUS
  <2> QED BY <2>1, <2>2
<1> HIDE DEF next
<1> QED BY <1>1, <1>3 DEF BreakerTypes

LEMMA DetectionInitInv == DetectionInit => DetectionInv
<1> SUFFICES ASSUME DetectionInit PROVE DetectionInv
  OBVIOUS
<1>1. /\ borrowerCache.snaps = <<>> /\ borrowerCache.before = {} /\ borrowerCache.old = {}
      /\ borrowerCache.idx = [r \in Reserves |-> {}] /\ borrowerCache.n = 0
      /\ DOMAIN borrowerCache = {"snaps", "before", "old", "idx", "n"}
  BY DEF DetectionInit
<1>2. DOMAIN borrowerCache.snaps = {}
  BY <1>1
<1>3. IndexOK(borrowerCache)
  BY <1>1, <1>2, FS_EmptySet DEF IndexOK
<1>4. SnapsOK(borrowerCache) /\ OrderOK(borrowerCache)
  BY <1>1, <1>2 DEF SnapsOK, OrderOK
<1>5. Capped(borrowerCache)
  BY <1>2, FS_EmptySet, DetectionAssumption DEF Capped
<1>6. tasks \in [Tasks -> TaskRecs]
  BY NoTaskOK DEF DetectionInit
<1>7. ChainTypes /\ CursorTypes
  BY RowCount, DetectionAssumption DEF DetectionInit, ChainTypes, CursorTypes
<1>8. BreakerTypes
  BY DetectionAssumption DEF DetectionInit, BreakerTypes, ClosedBreaker
<1> QED BY <1>3, <1>4, <1>5, <1>6, <1>7, <1>8 DEF DetectionInv, CacheInv, CacheOK

LEMMA DetectionStepInv == DetectionInv /\ [DetectionNext]_detectionVars => DetectionInv'
<1> SUFFICES ASSUME DetectionInv, [DetectionNext]_detectionVars PROVE DetectionInv'
  OBVIOUS
<1>1. /\ ChainTypes /\ CacheInv /\ CursorTypes /\ tasks \in [Tasks -> TaskRecs] /\ BreakerTypes
      /\ CacheOK(borrowerCache) /\ Capped(borrowerCache)
  BY DEF DetectionInv, CacheInv
<1>2. UNCHANGED chainVars => ChainTypes'
  BY <1>1 DEF ChainTypes, chainVars
<1>3. ASSUME NEW c, CacheOK(c), Capped(c), borrowerCache' = c PROVE CacheInv'
  BY <1>3 DEF CacheInv, CacheOK, Capped, IndexOK, SnapsOK, OrderOK
<1>4. UNCHANGED borrowerCache => CacheInv'
  BY <1>1, <1>3
<1>5. UNCHANGED lastBorrowerCursorId => CursorTypes'
  BY <1>1 DEF CursorTypes
<1>6. UNCHANGED <<rescans, breakers>> => BreakerTypes'
  BY <1>1 DEF BreakerTypes
<1>7. UNCHANGED tasks => tasks' \in [Tasks -> TaskRecs]
  BY <1>1
<1>8. ASSUME NEW t \in Tasks, NEW task \in TaskRecs, tasks' = [tasks EXCEPT ![t] = task]
      PROVE  tasks' \in [Tasks -> TaskRecs]
  BY <1>1, <1>8, TaskSet
<1>9. CacheOK(Pruned(borrowerCache)) /\ Capped(Pruned(borrowerCache))
  BY <1>1, PrunedKeeps
<1> HIDE DEF TaskRecs
<1>10. CASE UNCHANGED detectionVars
  BY <1>2, <1>4, <1>5, <1>6, <1>7, <1>10 DEF detectionVars, chainVars, DetectionInv
<1>11. CASE ListSnapshots
  BY <1>2, <1>3, <1>5, <1>6, <1>7, <1>9, <1>11 DEF ListSnapshots, DetectionInv
<1>12. CASE CooldownEnds
  BY <1>1, <1>2, <1>4, <1>5, <1>7, <1>12 DEF CooldownEnds, DetectionInv, BreakerTypes
<1>13. ASSUME NEW a \in Accounts, SnapshotAges(a) PROVE DetectionInv'
  <2> DEFINE c == [borrowerCache EXCEPT !.old = @ \cup {a}]
  <2>1. /\ a \in DOMAIN borrowerCache.snaps /\ borrowerCache' = c
        /\ UNCHANGED <<chainVars, lastBorrowerCursorId, tasks, rescans, breakers>>
    BY <1>13 DEF SnapshotAges, CachedSnapshots
  <2>2. /\ DOMAIN c = DOMAIN borrowerCache /\ c.snaps = borrowerCache.snaps /\ c.idx = borrowerCache.idx
        /\ c.n = borrowerCache.n /\ c.old = borrowerCache.old \cup {a} /\ c.before = borrowerCache.before
    BY <1>1 DEF CacheOK, IndexOK
  <2> HIDE DEF c
  <2>3. CacheOK(c) /\ Capped(c)
    BY <1>1, <2>1, <2>2 DEF CacheOK, IndexOK, SnapsOK, OrderOK, Capped
  <2>4. CacheInv'
    BY <1>3, <2>1, <2>3
  <2> QED BY <1>2, <1>5, <1>6, <1>7, <2>1, <2>4 DEF DetectionInv
<1>14. ASSUME NEW a \in Accounts, NEW level \in Levels, NEW heavyThen \in SUBSET Accounts,
              AccountShifts(a, level, heavyThen)
       PROVE  DetectionInv'
  <2>1. ChainTypes'
    BY <1>1, <1>14, DetectionAssumption DEF AccountShifts, ChainTypes
  <2> QED BY <1>4, <1>5, <1>6, <1>7, <1>14, <2>1 DEF AccountShifts, DetectionInv
<1>15. ASSUME NEW t \in Tasks, PollFallbackStarts(t) PROVE DetectionInv'
  <2>1. NextPage("poll", {}) \in TaskRecs
    BY <1>1, NextPageOK DEF Kinds
  <2>2. tasks' \in [Tasks -> TaskRecs]
    BY <1>8, <1>15, <2>1 DEF PollFallbackStarts, Begin
  <2> QED BY <1>2, <1>4, <1>5, <1>6, <1>15, <2>2 DEF PollFallbackStarts, DetectionInv
<1>16. ASSUME NEW t \in Tasks, NEW lags \in BOOLEAN, RescanStarts(t, lags) PROVE DetectionInv'
  <2> DEFINE asks == IF lags THEN {} ELSE NearAccounts
  <2>1. asks \subseteq Accounts
    BY RowsAreAccounts DEF NearAccounts, AllBorrowers, ToSet
  <2>2. tasks' = [tasks EXCEPT ![t] = [NoTask EXCEPT !.kind = "rescan", !.asks = asks]]
    BY <1>16 DEF RescanStarts, Begin
  <2> HIDE DEF asks
  <2>3. [NoTask EXCEPT !.kind = "rescan", !.asks = asks] \in TaskRecs
    BY <2>1, NewTaskOK DEF Kinds
  <2>4. tasks' \in [Tasks -> TaskRecs]
    BY <1>8, <2>2, <2>3
  <2> QED BY <1>2, <1>4, <1>5, <1>6, <1>16, <2>4 DEF RescanStarts, DetectionInv
<1>17. ASSUME NEW t \in Tasks, NEW r \in Reserves, ReserveUpdated(t, r) PROVE DetectionInv'
  <2> DEFINE pruned == Pruned(borrowerCache)
             task == IF pruned.idx[r] = {} THEN NextPage("listing", {r})
                     ELSE [NoTask EXCEPT !.kind = "event", !.asks = pruned.idx[r]]
  <2>1. /\ borrowerCache' = pruned /\ tasks' = [tasks EXCEPT ![t] = task]
        /\ UNCHANGED <<chainVars, lastBorrowerCursorId, rescans, breakers>>
    BY <1>17 DEF ReserveUpdated, Begin
  <2>2. CacheOK(pruned) /\ Capped(pruned)
    BY <1>9
  <2> HIDE DEF pruned
  <2>3. pruned.idx[r] \in SUBSET Accounts
    BY <2>2 DEF CacheOK, SnapsOK
  <2>4. NextPage("listing", {r}) \in TaskRecs
    BY <1>1, NextPageOK DEF Kinds
  <2>5. [NoTask EXCEPT !.kind = "event", !.asks = pruned.idx[r]] \in TaskRecs
    BY <2>3, NewTaskOK DEF Kinds
  <2>6. task \in TaskRecs
    BY <2>4, <2>5
  <2> HIDE DEF task
  <2>7. tasks' \in [Tasks -> TaskRecs] /\ CacheInv'
    BY <1>3, <1>8, <2>1, <2>2, <2>6
  <2> QED BY <1>2, <1>5, <1>6, <2>1, <2>7 DEF DetectionInv
<1>18. ASSUME NEW t \in Tasks
       PROVE  /\ tasks[t].cursor \in 0 .. Len(PositionIds) /\ tasks[t].read \in Seq(ReadRecs)
              /\ (CursorMoves(t) => CursorTypes')
  <2>1. tasks[t].cursor \in 0 .. Len(PositionIds) /\ tasks[t].read \in Seq(ReadRecs)
    BY <1>1 DEF TaskRecs
  <2> QED BY <1>1, <2>1 DEF CursorMoves, CursorTypes
<1>19. ASSUME NEW t \in Tasks, TaskLands(t) PROVE DetectionInv'
  <2>1. CacheInv'
    BY <1>1, <1>3, <1>18, <1>19, UpsertedAllKeeps DEF TaskLands
  <2>2. tasks' \in [Tasks -> TaskRecs]
    BY <1>8, <1>19, NoTaskOK DEF TaskLands
  <2>3. BreakerTypes'
    BY <1>1, <1>19 DEF TaskLands, BreakerTypes
  <2> QED BY <1>2, <1>18, <1>19, <2>1, <2>2, <2>3 DEF TaskLands, DetectionInv
<1>20. ASSUME NEW t \in Tasks, ListingEnds(t) PROVE DetectionInv'
  <2> DEFINE fitting == {read \in ToSet(tasks[t].read) : tasks[t].about \subseteq read.snapshot.reserves}
             listed == {read.account : read \in fitting}
             task == IF listed = {} THEN NoTask ELSE [NoTask EXCEPT !.kind = "event", !.asks = listed]
  <2>1. /\ tasks' = [tasks EXCEPT ![t] = task] /\ CursorMoves(t)
        /\ UNCHANGED <<chainVars, borrowerCache, rescans, breakers>>
    BY <1>20 DEF ListingEnds
  <2>2. listed \in SUBSET Accounts
    <3>1. ToSet(tasks[t].read) \subseteq ReadRecs
      <4> HIDE DEF ReadRecs
      <4> QED BY <1>18 DEF ToSet
    <3> QED BY <3>1 DEF ReadRecs
  <2> HIDE DEF listed
  <2>3. task \in TaskRecs
    BY <2>2, NoTaskOK, NewTaskOK DEF Kinds
  <2> HIDE DEF task
  <2>4. tasks' \in [Tasks -> TaskRecs]
    BY <1>8, <2>1, <2>3
  <2> QED BY <1>2, <1>4, <1>6, <1>18, <2>1, <2>4 DEF DetectionInv
<1>21. ASSUME NEW t \in Tasks, RescanFails(t) PROVE DetectionInv'
  <2>1. tasks' \in [Tasks -> TaskRecs]
    BY <1>8, <1>21, NoTaskOK DEF RescanFails
  <2>2. breakers' \in [{"rpc", "subgraph"} -> [failures: 0 .. Threshold, open: BOOLEAN]]
    BY <1>1, <1>21, BreakerStep DEF RescanFails, BreakerTypes
  <2>3. rescans' \in [failures: Nat, cooling: BOOLEAN]
    BY <1>1, <1>21, DetectionAssumption DEF RescanFails, BreakerTypes
  <2> QED BY <1>2, <1>4, <1>5, <1>21, <2>1, <2>2, <2>3 DEF RescanFails, DetectionInv, BreakerTypes
<1>22. ASSUME NEW t \in Tasks, EventFails(t) PROVE DetectionInv'
  <2>1. tasks' \in [Tasks -> TaskRecs]
    BY <1>8, <1>22, NoTaskOK DEF EventFails
  <2>2. BreakerTypes'
    BY <1>1, <1>22, BreakerStep DEF EventFails, BreakerTypes
  <2> QED BY <1>2, <1>4, <1>5, <1>22, <2>1, <2>2 DEF EventFails, DetectionInv
<1>23. ASSUME NEW t \in Tasks, NEW a \in Accounts, ReadAccount(t, a) PROVE DetectionInv'
  BY <1>23, ReadAccountOK
<1> QED BY <1>10, <1>11, <1>12, <1>13, <1>14, <1>15, <1>16, <1>17, <1>19, <1>20, <1>21, <1>22, <1>23
        DEF DetectionNext, TaskMoves

(* The index of the borrower cache and its count are those of its          *)
(* snapshots, whatever sequences of snapshots are put in and whatever      *)
(* expires or is evicted between (reserveAwareBorrowerCache.ts:45-133).    *)
THEOREM IndexAlwaysMatches == DetectionSpec => []IndexMatches
<1>1. DetectionInv => IndexMatches
  BY DEF DetectionInv, CacheInv, CacheOK, IndexOK, IndexMatches, CachedSnapshots
<1> QED BY <1>1, DetectionInitInv, DetectionStepInv, PTL DEF DetectionSpec

(* The cache never has more than maxEntries snapshots, and its order is one*)
(* of its accounts: each comes before or after each other one; the cursor  *)
(* stays within the rows (reserveAwareBorrowerCache.ts:81-99,              *)
(* aaveV3.ts:262-297).                                                     *)
THEOREM CacheStaysBounded == DetectionSpec => []DetectionTypeOK
<1>1. DetectionInv => DetectionTypeOK
  <2> SUFFICES ASSUME DetectionInv PROVE DetectionTypeOK
    OBVIOUS
  <2>1. /\ ChainTypes /\ CursorTypes /\ tasks \in [Tasks -> TaskRecs] /\ BreakerTypes
        /\ IndexOK(borrowerCache) /\ SnapsOK(borrowerCache) /\ OrderOK(borrowerCache) /\ Capped(borrowerCache)
    BY DEF DetectionInv, CacheInv, CacheOK
  <2>2. borrowerCache.n \in Int
    BY <2>1, FS_CardinalityType DEF IndexOK
  <2>3. ASSUME NEW t \in Tasks
        PROVE  /\ tasks[t].kind \in Kinds \cup {"none"} /\ tasks[t].asks \subseteq Accounts
               /\ \A read \in ToSet(tasks[t].read) : read.account \in Accounts
    <3>1. /\ tasks[t].kind \in Kinds \cup {"none"} /\ tasks[t].asks \subseteq Accounts
          /\ tasks[t].read \in Seq(ReadRecs)
      BY <2>1 DEF TaskRecs
    <3>2. ToSet(tasks[t].read) \subseteq ReadRecs
      <4> HIDE DEF ReadRecs
      <4> QED BY <3>1 DEF ToSet
    <3> QED BY <3>1, <3>2 DEF ReadRecs
  <2>4. /\ rescans.failures \in Nat /\ rescans.cooling \in BOOLEAN
        /\ \A b \in {"rpc", "subgraph"} : breakers[b].failures \in 0 .. Threshold
    BY <2>1 DEF BreakerTypes
  <2>5. /\ DOMAIN CachedSnapshots \subseteq Accounts /\ Cardinality(DOMAIN CachedSnapshots) <= MaxEntries
        /\ \A a \in DOMAIN CachedSnapshots : CachedSnapshots[a] \in [hf: Levels, reserves: Exposures]
        /\ borrowerCache.before \subseteq (DOMAIN CachedSnapshots) \X (DOMAIN CachedSnapshots)
        /\ \A a, b \in DOMAIN CachedSnapshots :
              a # b => (<<a, b>> \in borrowerCache.before <=> <<b, a>> \notin borrowerCache.before)
        /\ borrowerCache.old \subseteq DOMAIN CachedSnapshots
        /\ borrowerCache.idx \in [Reserves -> SUBSET Accounts]
    BY <2>1 DEF CachedSnapshots, IndexOK, SnapsOK, OrderOK, Capped, SnapRecs
  <2> QED BY <2>1, <2>2, <2>3, <2>4, <2>5 DEF DetectionTypeOK, ChainTypes, CursorTypes
<1> QED BY <1>1, DetectionInitInv, DetectionStepInv, PTL DEF DetectionSpec

-----------------------------------------------------------------------------
(* NearLiquidation: sums of sequences, one number after the other.         *)

Sums(f, n, g) == g = [i \in 0 .. n |-> IF i = 0 THEN 0 ELSE g[i - 1] + f[i]]

LEMMA SumsExist ==
    ASSUME NEW f, NEW n \in Nat
    PROVE  \E g : Sums(f, n, g)
<1> DEFINE S == {m \in Nat : \E g : Sums(f, m, g)}
<1>1. 0 \in S
  <2> DEFINE g == [i \in 0 .. 0 |-> 0]
  <2>1. Sums(f, 0, g)
    BY DEF Sums
  <2> HIDE DEF g
  <2> QED BY <2>1
<1>2. ASSUME NEW m \in Nat, m \in S PROVE m + 1 \in S
  <2>1. PICK g : Sums(f, m, g)
    BY <1>2
  <2> DEFINE h == [i \in 0 .. m + 1 |-> IF i = m + 1 THEN g[m] + f[m + 1] ELSE g[i]]
  <2>2. \A i \in 0 .. m : g[i] = IF i = 0 THEN 0 ELSE g[i - 1] + f[i]
    BY <2>1 DEF Sums
  <2>3. \A i \in 0 .. m + 1 : h[i] = IF i = 0 THEN 0 ELSE h[i - 1] + f[i]
    BY <2>2
  <2>4. Sums(f, m + 1, h)
    BY <2>3 DEF Sums
  <2> HIDE DEF h
  <2> QED BY <2>4
<1> HIDE DEF S
<1>3. n \in S
  BY <1>1, <1>2, NumbersFollow
<1> QED BY <1>3 DEF S

(* SumOf is the last of the partial sums.                                  *)
Partial(f, n, g) ==
    /\ g \in [0 .. n -> Int] /\ g[0] = 0
    /\ \A i \in 0 .. n - 1 : g[i + 1] = g[i] + f[i + 1]

LEMMA SumIsPartial ==
    ASSUME NEW n \in Nat, NEW f \in [1 .. n -> Int]
    PROVE  \E g : Partial(f, n, g) /\ SumOf(f) = g[n]
<1> DEFINE g == CHOOSE g : Sums(f, n, g)
<1>1. Sums(f, n, g)
  BY SumsExist
<1>2. Len(f) = n
  OBVIOUS
<1>3. SumOf(f) = g[n]
  BY <1>2 DEF SumOf, Sums
<1> HIDE DEF g
<1>4. g[0] = 0 /\ \A i \in 0 .. n - 1 : g[i + 1] = g[i] + f[i + 1]
  BY <1>1 DEF Sums
<1> DEFINE S == {m \in Nat : m <= n => g[m] \in Int}
<1>5. 0 \in S
  BY <1>4
<1>6. ASSUME NEW m \in Nat, m \in S PROVE m + 1 \in S
  BY <1>4, <1>6
<1>7. \A m \in Nat : m \in S
  <2> HIDE DEF S
  <2> QED BY <1>5, <1>6, NumbersFollow
<1>8. \A m \in 0 .. n : g[m] \in Int
  BY <1>7
<1>9. g \in [0 .. n -> Int]
  BY <1>1, <1>8 DEF Sums
<1> QED BY <1>3, <1>4, <1>9 DEF Partial

(* Numbers that rise together have no line that falls (Chebyshev): the     *)
(* terms of the slope are products of differences of the same sign.        *)
Rising(n, f) == \A i, j \in 1 .. n : i < j => f[i] <= f[j]

(* What one more pair <<x, y>> adds to the slope of k pairs with the sums  *)
(* A of the products, T and H; and that slope.                             *)
GainOf(A, k, x, y, T, H) == A + k * (x * y) - T * y - x * H
SlopeOf(A, k, T, H) == k * A - T * H

LEMMA ProductSign ==
    ASSUME NEW a \in Int, NEW b \in Int, a >= 0, b >= 0
    PROVE  a * b >= 0
OBVIOUS

LEMMA GainInt ==
    ASSUME NEW A \in Int, NEW k \in Int, NEW x \in Int, NEW y \in Int, NEW T \in Int, NEW H \in Int
    PROVE  GainOf(A, k, x, y, T, H) \in Int
BY DEF GainOf

LEMMA LastTerm ==
    ASSUME NEW A \in Int, NEW k \in Int, NEW x \in Int, NEW y \in Int, NEW T \in Int, NEW H \in Int,
           NEW u \in Int, NEW v \in Int, u <= x, v <= y
    PROVE  GainOf(A + u * v, k + 1, x, y, T + u, H + v) >= GainOf(A, k, x, y, T, H)
<1>1. GainOf(A + u * v, k + 1, x, y, T + u, H + v) = GainOf(A, k, x, y, T, H) + (x - u) * (y - v)
  BY DEF GainOf
<1>2. x - u \in Int /\ y - v \in Int /\ x - u >= 0 /\ y - v >= 0
  OBVIOUS
<1>3. (x - u) * (y - v) >= 0 /\ (x - u) * (y - v) \in Int
  BY <1>2, ProductSign
<1>4. GainOf(A, k, x, y, T, H) \in Int
  BY DEF GainOf
<1> QED BY <1>1, <1>3, <1>4

LEMMA NextTerm ==
    ASSUME NEW A \in Int, NEW k \in Int, NEW x \in Int, NEW y \in Int, NEW T \in Int, NEW H \in Int,
           GainOf(A, k, x, y, T, H) >= 0, SlopeOf(A, k, T, H) >= 0
    PROVE  SlopeOf(A + x * y, k + 1, T + x, H + y) >= 0
<1>1. SlopeOf(A + x * y, k + 1, T + x, H + y) = SlopeOf(A, k, T, H) + GainOf(A, k, x, y, T, H)
  BY DEF GainOf, SlopeOf
<1>2. GainOf(A, k, x, y, T, H) \in Int /\ SlopeOf(A, k, T, H) \in Int
  BY DEF GainOf, SlopeOf
<1> QED BY <1>1, <1>2

LEMMA RisingTogether ==
    ASSUME NEW n \in Nat, NEW t \in [1 .. n -> Int], NEW h \in [1 .. n -> Int], Rising(n, t), Rising(n, h)
    PROVE  n * SumOf(Product(t, h)) - SumOf(t) * SumOf(h) >= 0
<1> DEFINE th == Product(t, h)
<1>1. th \in [1 .. n -> Int] /\ \A i \in 1 .. n : th[i] = t[i] * h[i]
  BY DEF Product
<1> HIDE DEF th
<1>2. PICK A : Partial(th, n, A) /\ SumOf(th) = A[n]
  BY <1>1, SumIsPartial
<1>3. PICK T : Partial(t, n, T) /\ SumOf(t) = T[n]
  BY SumIsPartial
<1>4. PICK H : Partial(h, n, H) /\ SumOf(h) = H[n]
  BY SumIsPartial
<1>5. \A i \in 0 .. n : A[i] \in Int /\ T[i] \in Int /\ H[i] \in Int
  BY <1>2, <1>3, <1>4 DEF Partial
<1>6. \A i \in 0 .. n - 1 : /\ A[i + 1] = A[i] + t[i + 1] * h[i + 1]
                            /\ T[i + 1] = T[i] + t[i + 1] /\ H[i + 1] = H[i] + h[i + 1]
  BY <1>1, <1>2, <1>3, <1>4 DEF Partial
<1>7. A[0] = 0 /\ T[0] = 0 /\ H[0] = 0
  BY <1>2, <1>3, <1>4 DEF Partial
<1>8. \A i \in 1 .. n : t[i] \in Int /\ h[i] \in Int
  OBVIOUS
(* What number m adds to the slope of the first k before it.               *)
<1>9. ASSUME NEW m \in 1 .. n PROVE \A k \in 0 .. m : GainOf(A[k], k, t[m], h[m], T[k], H[k]) >= 0
  <2> DEFINE S == {k \in Nat : k <= m => GainOf(A[k], k, t[m], h[m], T[k], H[k]) >= 0}
  <2>1. 0 \in S
    BY <1>7, <1>8 DEF GainOf
  <2>2. ASSUME NEW k \in Nat, k \in S, k + 1 <= m
        PROVE  GainOf(A[k + 1], k + 1, t[m], h[m], T[k + 1], H[k + 1]) >= 0
    <3>1. k \in 0 .. n - 1 /\ k \in 0 .. n /\ k + 1 \in 1 .. n /\ k \in Int /\ k <= m
      BY <2>2
    <3>2. /\ t[m] \in Int /\ h[m] \in Int /\ t[k + 1] \in Int /\ h[k + 1] \in Int
          /\ A[k] \in Int /\ T[k] \in Int /\ H[k] \in Int
      BY <1>5, <1>8, <3>1
    <3>3. t[k + 1] <= t[m] /\ h[k + 1] <= h[m]
      <4>1. CASE k + 1 = m
        BY <4>1, <3>2
      <4>2. CASE k + 1 < m
        BY <4>2, <3>1 DEF Rising
      <4> QED BY <2>2, <4>1, <4>2
    <3>4. GainOf(A[k], k, t[m], h[m], T[k], H[k]) >= 0
      BY <2>2, <3>1
    <3> DEFINE next == GainOf(A[k] + t[k + 1] * h[k + 1], k + 1, t[m], h[m], T[k] + t[k + 1], H[k] + h[k + 1])
               last == GainOf(A[k], k, t[m], h[m], T[k], H[k])
    <3>5. next >= last
      BY ONLY <3>1, <3>2, <3>3, LastTerm
    <3>6. GainOf(A[k + 1], k + 1, t[m], h[m], T[k + 1], H[k + 1]) = next
      BY <1>6, <3>1
    <3>7. next \in Int /\ last \in Int
      <4>1. /\ k + 1 \in Int /\ A[k] + t[k + 1] * h[k + 1] \in Int
            /\ T[k] + t[k + 1] \in Int /\ H[k] + h[k + 1] \in Int
        <5>1. \A a, b, c \in Int : a + b * c \in Int /\ a + b \in Int
          OBVIOUS
        <5>2. A[k] + t[k + 1] * h[k + 1] \in Int
          BY ONLY <3>2, <5>1, Zenon
        <5> QED BY ONLY <3>1, <3>2, <5>2
      <4> QED BY ONLY <3>1, <3>2, <4>1, GainInt
    <3> HIDE DEF next, last
    <3> QED BY <3>4, <3>5, <3>6, <3>7 DEF last
  <2>3. ASSUME NEW k \in Nat, k \in S PROVE k + 1 \in S
    BY <2>2, <2>3
  <2> HIDE DEF S
  <2>4. \A k \in Nat : k \in S
    BY <2>1, <2>3, NumbersFollow
  <2> QED BY <2>4 DEF S
<1> DEFINE S == {m \in Nat : m <= n => SlopeOf(A[m], m, T[m], H[m]) >= 0}
<1>10. 0 \in S
  BY <1>7 DEF SlopeOf
<1>11. ASSUME NEW k \in Nat, k \in S, k + 1 <= n
       PROVE  SlopeOf(A[k + 1], k + 1, T[k + 1], H[k + 1]) >= 0
  <2>1. k \in 0 .. n - 1 /\ k \in 0 .. n /\ k + 1 \in 1 .. n /\ k \in 0 .. k + 1 /\ k \in Int /\ k <= n
    BY <1>11
  <2>2. /\ t[k + 1] \in Int /\ h[k + 1] \in Int
        /\ A[k] \in Int /\ T[k] \in Int /\ H[k] \in Int
    BY <1>5, <1>8, <2>1
  <2>3. SlopeOf(A[k], k, T[k], H[k]) >= 0
    BY <1>11, <2>1
  <2>4. GainOf(A[k], k, t[k + 1], h[k + 1], T[k], H[k]) >= 0
    BY <1>9, <2>1
  <2>5. SlopeOf(A[k] + t[k + 1] * h[k + 1], k + 1, T[k] + t[k + 1], H[k] + h[k + 1]) >= 0
    BY ONLY <2>1, <2>2, <2>3, <2>4, NextTerm
  <2> QED BY <1>6, <2>1, <2>5
<1>12. ASSUME NEW k \in Nat, k \in S PROVE k + 1 \in S
  BY <1>11, <1>12
<1> HIDE DEF S
<1>13. n \in S
  BY <1>10, <1>12, NumbersFollow
<1>14. n * A[n] - T[n] * H[n] >= 0
  BY <1>13 DEF S, SlopeOf
<1> QED BY <1>2, <1>3, <1>4, <1>14 DEF th

(* The line falls only if some sample is below an earlier one.             *)
LEMMA FallsMeansFell ==
    ASSUME NEW s, Len(s) \in Nat, s \in Seq([at: Int, hf: Int]),
           \A i, j \in 1 .. Len(s) : i < j => s[i].at <= s[j].at, Falls(s)
    PROVE  \E i, j \in DOMAIN s : i < j /\ s[i].hf > s[j].hf
<1> DEFINE n == Len(s)
           t == TimeOf(s)
           h == HfOf(s)
<1>1. DOMAIN s = 1 .. n /\ \A i \in 1 .. n : s[i].at \in Int /\ s[i].hf \in Int
  <2> DEFINE Points == [at: Int, hf: Int]
  <2>1. s \in Seq(Points)
    OBVIOUS
  <2> HIDE DEF Points
  <2>2. DOMAIN s = 1 .. n /\ \A i \in 1 .. n : s[i] \in Points
    BY <2>1
  <2> QED BY <2>2 DEF Points
<1>2. n >= 2 /\ n \in Nat /\ Slope(s) < 0
  BY DEF Falls
<1>3. /\ t \in [1 .. n -> Int] /\ h \in [1 .. n -> Int]
      /\ \A i \in 1 .. n : t[i] = s[i].at - s[1].at /\ h[i] = s[i].hf
  <2>1. s[1].at \in Int /\ \A i \in 1 .. n : s[i].at - s[1].at \in Int
    BY <1>1, <1>2
  <2>2. t = [i \in 1 .. n |-> s[i].at - s[1].at] /\ h = [i \in 1 .. n |-> s[i].hf]
    BY <1>1 DEF TimeOf, HfOf
  <2> HIDE DEF t, h, n
  <2> QED BY <1>1, <2>1, <2>2
<1>4. Rising(n, t)
  <2>1. SUFFICES ASSUME NEW i \in 1 .. n, NEW j \in 1 .. n, i < j PROVE t[i] <= t[j]
    BY DEF Rising
  <2>2. s[i].at <= s[j].at /\ s[i].at \in Int /\ s[j].at \in Int /\ s[1].at \in Int
    BY <1>1, <1>2, <2>1
  <2>3. t[i] = s[i].at - s[1].at /\ t[j] = s[j].at - s[1].at
    BY <1>3, <2>1
  <2>4. \A a, b, c \in Int : a <= b => a - c <= b - c
    OBVIOUS
  <2> HIDE DEF t
  <2> QED BY ONLY <2>2, <2>3, <2>4
<1>5. Slope(s) = n * SumOf(Product(t, h)) - SumOf(t) * SumOf(h)
  BY DEF Slope
<1> HIDE DEF n, t, h
<1>6. ~Rising(n, h)
  <2>1. SUFFICES ASSUME Rising(n, h) PROVE FALSE
    OBVIOUS
  <2>2. Slope(s) >= 0
    BY <1>2, <1>3, <1>4, <1>5, <2>1, RisingTogether
  <2>3. Slope(s) \in Int
    <3>1. Product(t, h) \in [1 .. n -> Int]
      BY <1>3 DEF Product
    <3>2. \A f \in [1 .. n -> Int] : SumOf(f) \in Int
      BY <1>2, SumIsPartial DEF Partial
    <3>3. SumOf(Product(t, h)) \in Int /\ SumOf(t) \in Int /\ SumOf(h) \in Int
      BY <1>3, <3>1, <3>2
    <3> QED BY <1>2, <1>5, <3>3
  <2> QED BY <1>2, <2>2, <2>3
<1>7. PICK i \in 1 .. n, j \in 1 .. n : i < j /\ ~(h[i] <= h[j])
  BY ONLY <1>6 DEF Rising
<1>8. s[i].hf \in Int /\ s[j].hf \in Int /\ h[i] = s[i].hf /\ h[j] = s[j].hf
  BY <1>1, <1>3
<1> QED BY <1>1, <1>7, <1>8

(* Every poll has an account before it until it is over, and the samples   *)
(* of an account were taken one after the other.                           *)
NearStages == {"idle", "gas", "read", "answered", "urgent"}
NearRecs == [at: NearStages, left: Seq(WatchedSet), hf: 0 .. TopHf]
PollOK(r) == r \in NearRecs /\ (r.at # "idle" => r.left # <<>>)

TrackOK(track, time) ==
    /\ track \in Seq(Sample) /\ Len(track) <= MaxSamples
    /\ \A i, j \in 1 .. Len(track) : i < j => track[i].at <= track[j].at
    /\ \A i \in 1 .. Len(track) : track[i].at <= time

NearInv ==
    /\ tick \in 0 .. NearTicks /\ chainHf \in [WatchedSet -> 0 .. TopHf]
    /\ chainDebt \in [WatchedSet -> BOOLEAN]
    /\ DOMAIN nearPolls = NearPolls /\ \A p \in NearPolls : PollOK(nearPolls[p])
    /\ DOMAIN tracks = WatchedSet /\ \A a \in WatchedSet : TrackOK(tracks[a], tick)

LEMMA EmptyTrackOK ==
    ASSUME NEW time \in Nat
    PROVE  TrackOK(<<>>, time)
BY NearAssumption DEF TrackOK

LEMMA SampledTrackOK ==
    ASSUME NEW track, NEW time \in Nat, TrackOK(track, time), NEW x \in Sample, x.at = time
    PROVE  TrackOK(LastOf(Append(track, x)), time)
<1> DEFINE grown == Append(track, x)
           n == Len(grown)
           last == LastOf(grown)
<1>1. track \in Seq(Sample) /\ Len(track) \in Nat /\ MaxSamples \in Nat
  BY NearAssumption DEF TrackOK
<1>2. \A i \in 1 .. Len(track) : track[i] \in Sample
  <2> HIDE DEF Sample
  <2> QED BY <1>1
<1>3. \A y \in Sample : y.at \in Int
  BY DEF Sample
<1>4. /\ grown \in Seq(Sample) /\ n = Len(track) + 1 /\ n \in Nat
      /\ \A i \in 1 .. n : grown[i] = IF i = n THEN x ELSE track[i]
  BY <1>1
<1>5. \A i \in 1 .. n : grown[i] \in Sample
  <2> HIDE DEF Sample, grown
  <2> QED BY <1>4
<1>6. \A i, j \in 1 .. n : i < j => grown[i].at <= grown[j].at
  <2>1. SUFFICES ASSUME NEW i \in 1 .. n, NEW j \in 1 .. n, i < j PROVE grown[i].at <= grown[j].at
    OBVIOUS
  <2>2. i \in 1 .. Len(track) /\ grown[i] = track[i]
    BY <1>1, <1>4, <2>1
  <2>3. CASE j = n
    BY <1>4, <2>2, <2>3 DEF TrackOK
  <2>4. CASE j # n
    <3>1. j \in 1 .. Len(track) /\ grown[j] = track[j]
      BY <1>1, <1>4, <2>4
    <3> QED BY <2>1, <2>2, <3>1 DEF TrackOK
  <2> QED BY <2>3, <2>4
<1>7. \A i \in 1 .. n : grown[i].at <= time
  BY <1>1, <1>4 DEF TrackOK
<1> HIDE DEF grown, n
<1>8. ASSUME n <= MaxSamples PROVE TrackOK(last, time)
  <2>1. last = grown
    BY <1>8 DEF LastOf, n
  <2>2. TrackOK(grown, time)
    BY <1>4, <1>6, <1>7, <1>8 DEF TrackOK, n
  <2> HIDE DEF last
  <2> QED BY <2>1, <2>2
<1>9. ASSUME n > MaxSamples PROVE TrackOK(last, time)
  <2> DEFINE from == n - MaxSamples + 1
  <2>1. last = SubSeq(grown, from, n) /\ from \in 1 .. n + 1
    <3>1. ~(n <= MaxSamples) /\ from \in 1 .. n + 1
      BY <1>1, <1>4, <1>9
    <3>2. last = SubSeq(grown, from, n)
      BY ONLY <3>1 DEF LastOf, n
    <3> QED BY <3>1, <3>2
  <2>2. /\ last \in Seq(Sample) /\ Len(last) = MaxSamples
        /\ \A i \in 1 .. MaxSamples : last[i] = grown[i + from - 1] /\ i + from - 1 \in 1 .. n
    <3>1. \A i \in 1 .. MaxSamples : i + from - 1 \in 1 .. n
      BY <1>1, <1>4, <1>9
    <3>2. last = [i \in 1 .. MaxSamples |-> grown[i + from - 1]]
      BY <1>1, <1>4, <1>9, <2>1 DEF n
    <3>3. \A i \in 1 .. MaxSamples : last[i] = grown[i + from - 1] /\ last[i] \in Sample
      BY <1>5, <3>1, <3>2
    <3> HIDE DEF last, from
    <3>4. last \in [1 .. MaxSamples -> Sample]
      BY <3>2, <3>3
    <3> QED BY <1>1, <3>1, <3>3, <3>4
  <2>3. /\ \A i, j \in 1 .. MaxSamples : i < j => last[i].at <= last[j].at
        /\ \A i \in 1 .. MaxSamples : last[i].at <= time
    <3>1. SUFFICES ASSUME NEW i \in 1 .. MaxSamples, NEW j \in 1 .. MaxSamples
                   PROVE  last[i].at <= time /\ (i < j => last[i].at <= last[j].at)
      OBVIOUS
    <3> DEFINE k == i + from - 1
               l == j + from - 1
    <3>2. k \in 1 .. n /\ l \in 1 .. n /\ last[i] = grown[k] /\ last[j] = grown[l]
      BY <2>2
    <3>3. i < j => k < l
      BY <1>1, <1>4
    <3> HIDE DEF k, l, last
    <3> QED BY <1>6, <1>7, <3>2, <3>3
  <2> HIDE DEF last
  <2> QED BY <1>1, <2>2, <2>3 DEF TrackOK
<1>10. TrackOK(last, time)
  <2> HIDE DEF last
  <2> QED BY <1>1, <1>4, <1>8, <1>9
<1> QED BY <1>10 DEF last, grown

LEMMA RestOK ==
    ASSUME NEW p \in NearPolls, PollOK(nearPolls[p]), nearPolls[p].at # "idle"
    PROVE  PollOK(Rest(p)) /\ Rest(p).at \in {"idle", "read"}
<1> DEFINE r == nearPolls[p]
           q == [r EXCEPT !.left = Tail(@)]
<1>1. r \in NearRecs /\ r.left \in Seq(WatchedSet) /\ r.left # <<>> /\ r.hf \in 0 .. TopHf
  BY DEF PollOK, NearRecs
<1>2. Tail(r.left) \in Seq(WatchedSet)
  BY <1>1
<1>3. q \in NearRecs /\ q.left = Tail(r.left)
  BY <1>1, <1>2 DEF NearRecs
<1>4. Rest(p) = IF q.left = <<>> THEN NotPolling ELSE [q EXCEPT !.at = "read"]
  BY DEF Rest, Onward
<1> HIDE DEF q
<1>5. [q EXCEPT !.at = "read"] \in NearRecs
  BY ONLY <1>3, "read" \in NearStages DEF NearRecs, NearStages
<1>6. [q EXCEPT !.at = "read"].at = "read" /\ [q EXCEPT !.at = "read"].left = q.left
  BY <1>3 DEF NearRecs
<1>7. NotPolling \in NearRecs /\ NotPolling.at = "idle"
  BY NearAssumption DEF NotPolling, NearRecs, NearStages
<1> QED BY <1>4, <1>5, <1>6, <1>7 DEF PollOK

LEMMA NearInitInv == NearInit => NearInv
<1> SUFFICES ASSUME NearInit PROVE NearInv
  OBVIOUS
<1>1. One \in 0 .. TopHf /\ 0 \in 0 .. NearTicks
  BY NearAssumption
<1>2. PollOK(NotPolling)
  BY NearAssumption DEF NotPolling, PollOK, NearRecs, NearStages
<1>3. TrackOK(<<>>, tick)
  BY EmptyTrackOK DEF NearInit
<1> QED BY <1>1, <1>2, <1>3 DEF NearInit, NearInv

(* A step of a poll: its record goes, the others stay.                     *)
LEMMA PollGoesOK ==
    ASSUME NearInv, NEW p \in NearPolls, NEW next, PollOK(next), PollGoes(p, next)
    PROVE  /\ DOMAIN nearPolls' = NearPolls /\ \A q \in NearPolls : PollOK(nearPolls'[q])
           /\ \A q \in NearPolls : nearPolls'[q] = IF q = p THEN next ELSE nearPolls[q]
<1>1. nearPolls' = [nearPolls EXCEPT ![p] = next] /\ DOMAIN nearPolls = NearPolls
  BY DEF PollGoes, NearInv
<1>2. DOMAIN nearPolls' = NearPolls /\ \A q \in NearPolls : nearPolls'[q] = IF q = p THEN next ELSE nearPolls[q]
  BY <1>1
<1>3. \A q \in NearPolls : PollOK(nearPolls[q])
  BY DEF NearInv
<1> QED BY ONLY <1>2, <1>3, PollOK(next)

(* What a step does to the polls, and to the samples.                      *)
NothingUrgent ==
    \A p \in NearPolls : nearPolls[p].at = "answered" => nearPolls'[p].at # "urgent"

PollsStep ==
    /\ DOMAIN nearPolls' = NearPolls /\ \A q \in NearPolls : PollOK(nearPolls'[q])
    /\ NothingUrgent

LEMMA QuietPoll ==
    ASSUME NearInv, NEW p \in NearPolls, NEW next, PollOK(next), next.at # "urgent", PollGoes(p, next)
    PROVE  PollsStep
<1>1. \A q \in NearPolls : nearPolls'[q] = IF q = p THEN next ELSE nearPolls[q]
  BY PollGoesOK
<1>2. DOMAIN nearPolls' = NearPolls /\ \A q \in NearPolls : PollOK(nearPolls'[q])
  BY PollGoesOK
<1> QED BY <1>1, <1>2 DEF PollsStep, NothingUrgent

LEMMA TracksStay ==
    ASSUME NearInv, UNCHANGED <<tick, tracks>>
    PROVE  DOMAIN tracks' = WatchedSet /\ \A a \in WatchedSet : TrackOK(tracks'[a], tick')
BY DEF NearInv

LEMMA HeadWatched ==
    ASSUME NearInv, NEW p \in NearPolls, nearPolls[p].at # "idle"
    PROVE  Account(p) \in WatchedSet
<1>1. nearPolls[p] \in NearRecs /\ nearPolls[p].left # <<>>
  BY DEF NearInv, PollOK
<1>2. nearPolls[p].left \in Seq(WatchedSet)
  BY <1>1 DEF NearRecs
<1> QED BY <1>1, <1>2 DEF Account

(* The steps of one poll.                                                  *)
LEMMA PollStep ==
    ASSUME NearInv, NEW p \in NearPolls,
           \/ PollBegins(p) \/ GasKnown(p) \/ PollThrows(p) \/ AccountRead(p) \/ AccountUnread(p)
           \/ Forgotten(p) \/ Deprioritized(p) \/ UrgentDone(p)
    PROVE  NearInv' /\ NothingUrgent
<1> DEFINE r == nearPolls[p]
<1>1. PollOK(r) /\ r \in NearRecs /\ tick \in Nat
  BY NearAssumption DEF NearInv, PollOK
<1>2. PollOK(NotPolling) /\ NotPolling.at # "urgent"
  BY NearAssumption DEF NotPolling, PollOK, NearRecs, NearStages
<1>3. r.at # "idle" => PollOK(Rest(p)) /\ Rest(p).at # "urgent"
  BY <1>1, RestOK
<1>4. SUFFICES /\ PollsStep /\ UNCHANGED <<tick, chainHf, chainDebt>>
               /\ DOMAIN tracks' = WatchedSet /\ \A a \in WatchedSet : TrackOK(tracks'[a], tick')
  BY DEF NearInv, PollsStep
<1>5. CASE PollBegins(p)
  <2> DEFINE next == [NotPolling EXCEPT !.at = "gas", !.left = Watched]
  <2>1. next \in NearRecs /\ next.at = "gas" /\ next.left = Watched
    <3>1. Watched \in Seq(WatchedSet)
      BY NearAssumption DEF WatchedSet
    <3>2. NotPolling \in NearRecs
      BY <1>2 DEF PollOK
    <3>3. next \in NearRecs
      BY ONLY <3>1, <3>2, "gas" \in NearStages DEF NearRecs, NearStages
    <3>4. next.at = "gas" /\ next.left = Watched
      BY <3>2 DEF NearRecs
    <3> QED BY <3>3, <3>4
  <2>2. PollGoes(p, next) /\ Watched # <<>> /\ UNCHANGED <<tick, chainHf, chainDebt, tracks>>
    BY <1>5 DEF PollBegins
  <2> HIDE DEF next
  <2>3. PollOK(next) /\ next.at # "urgent"
    BY <2>1, <2>2 DEF PollOK
  <2> QED BY <2>2, <2>3, QuietPoll, TracksStay
<1>6. CASE GasKnown(p)
  <2> DEFINE next == [r EXCEPT !.at = "read"]
  <2>1. next \in NearRecs
    BY ONLY <1>1, "read" \in NearStages DEF NearRecs, NearStages
  <2>2. next.at = "read" /\ next.left = r.left
    BY <1>1 DEF NearRecs
  <2>3. PollGoes(p, next) /\ r.at = "gas" /\ UNCHANGED <<tick, chainHf, chainDebt, tracks>>
    BY <1>6 DEF GasKnown
  <2> HIDE DEF next
  <2>4. PollOK(next) /\ next.at # "urgent"
    BY <1>1, <2>1, <2>2, <2>3 DEF PollOK
  <2> QED BY <2>3, <2>4, QuietPoll, TracksStay
<1>7. CASE PollThrows(p)
  <2>1. PollGoes(p, NotPolling) /\ UNCHANGED <<tick, chainHf, chainDebt, tracks>>
    BY <1>7 DEF PollThrows
  <2> QED BY <1>2, <2>1, QuietPoll, TracksStay
<1>8. CASE AccountRead(p)
  <2> DEFINE hf == IF chainDebt[Account(p)] THEN chainHf[Account(p)] ELSE TopHf
             next == [r EXCEPT !.at = "answered", !.hf = hf]
  <2>1. PollGoes(p, next) /\ r.at = "read" /\ UNCHANGED <<tick, chainHf, chainDebt, tracks>>
    BY <1>8 DEF AccountRead
  <2>2. hf \in 0 .. TopHf
    BY <2>1, HeadWatched, NearAssumption DEF NearInv
  <2> HIDE DEF hf
  <2>3. next \in NearRecs
    BY ONLY <1>1, <2>2, "answered" \in NearStages DEF NearRecs, NearStages
  <2>4. next.at = "answered" /\ next.left = r.left
    BY <1>1 DEF NearRecs
  <2> HIDE DEF next
  <2>5. PollOK(next) /\ next.at # "urgent"
    BY <1>1, <2>1, <2>3, <2>4 DEF PollOK
  <2> QED BY <2>1, <2>5, QuietPoll, TracksStay
<1>9. CASE AccountUnread(p) \/ Deprioritized(p) \/ UrgentDone(p)
  <2>1. PollGoes(p, Rest(p)) /\ r.at # "idle" /\ UNCHANGED <<tick, chainHf, chainDebt, tracks>>
    BY <1>9 DEF AccountUnread, Deprioritized, UrgentDone
  <2> QED BY <1>3, <2>1, QuietPoll, TracksStay
<1>10. CASE Forgotten(p)
  <2>1. /\ PollGoes(p, Rest(p)) /\ r.at # "idle" /\ UNCHANGED <<tick, chainHf, chainDebt>>
        /\ tracks' = [tracks EXCEPT ![Account(p)] = <<>>]
    BY <1>10 DEF Forgotten
  <2>2. TrackOK(<<>>, tick)
    BY <1>1, EmptyTrackOK
  <2>3. DOMAIN tracks' = WatchedSet /\ \A a \in WatchedSet : TrackOK(tracks'[a], tick')
    BY <2>1, <2>2 DEF NearInv
  <2> QED BY <1>3, <2>1, <2>3, QuietPoll
<1> QED BY <1>5, <1>6, <1>7, <1>8, <1>9, <1>10

Fell(track) == \E i, j \in DOMAIN track : i < j /\ track[i].hf > track[j].hf

LEMMA SampleStep ==
    ASSUME NearInv, NEW p \in NearPolls, Sampled(p)
    PROVE  /\ NearInv'
           /\ \A q \in NearPolls :
                nearPolls[q].at = "answered" /\ nearPolls'[q].at = "urgent" => Fell(tracks'[Account(q)])
<1> DEFINE r == nearPolls[p]
           a == Account(p)
           x == [at |-> tick, hf |-> r.hf]
           samples == LastOf(Append(tracks[a], x))
           next == IF Falls(samples) THEN [r EXCEPT !.at = "urgent"] ELSE Rest(p)
<1>1. /\ r.at = "answered" /\ tracks' = [tracks EXCEPT ![a] = samples] /\ PollGoes(p, next)
      /\ UNCHANGED <<tick, chainHf, chainDebt>>
  BY DEF Sampled
<1>2. PollOK(r) /\ r \in NearRecs /\ tick \in Nat /\ r.hf \in 0 .. TopHf /\ tick \in 0 .. NearTicks
  BY NearAssumption DEF NearInv, PollOK, NearRecs
<1>3. a \in WatchedSet /\ TrackOK(tracks[a], tick)
  BY <1>1, HeadWatched DEF NearInv
<1>4. x \in Sample /\ x.at = tick
  BY <1>2 DEF Sample
<1>5. TrackOK(samples, tick)
  <2> HIDE DEF x
  <2> QED BY <1>2, <1>3, <1>4, SampledTrackOK
<1>6. PollOK(next) /\ (next.at = "urgent" => Falls(samples))
  <2>1. PollOK(Rest(p)) /\ Rest(p).at # "urgent"
    BY <1>1, <1>2, RestOK
  <2> DEFINE u == [r EXCEPT !.at = "urgent"]
  <2>2. u \in NearRecs
    BY ONLY <1>2, "urgent" \in NearStages DEF NearRecs, NearStages
  <2>3. u.at = "urgent" /\ u.left = r.left
    BY <1>2 DEF NearRecs
  <2>4. next = IF Falls(samples) THEN u ELSE Rest(p)
    OBVIOUS
  <2> HIDE DEF u, samples, next
  <2>5. PollOK(u)
    BY <1>1, <1>2, <2>2, <2>3 DEF PollOK
  <2> QED BY <2>1, <2>4, <2>5
<1> HIDE DEF next
<1>7. Falls(samples) => Fell(samples)
  <2>1. /\ samples \in Seq(Sample) /\ Len(samples) \in Nat
        /\ \A i, j \in 1 .. Len(samples) : i < j => samples[i].at <= samples[j].at
    <3> HIDE DEF samples
    <3> QED BY <1>5 DEF TrackOK
  <2> HIDE DEF samples
  <2>2. Sample \subseteq [at: Int, hf: Int]
    BY DEF Sample
  <2>3. samples \in Seq([at: Int, hf: Int])
    <3> DEFINE Points == [at: Int, hf: Int]
    <3> HIDE DEF Points, Sample
    <3>1. Sample \subseteq Points
      BY <2>2 DEF Points
    <3>2. samples \in Seq(Points)
      BY <2>1, <3>1
    <3> QED BY <3>2 DEF Points
  <2> QED BY <2>1, <2>3, FallsMeansFell DEF Fell
<1> HIDE DEF samples
<1>8. /\ DOMAIN nearPolls' = NearPolls /\ \A q \in NearPolls : PollOK(nearPolls'[q])
      /\ \A q \in NearPolls : nearPolls'[q] = IF q = p THEN next ELSE nearPolls[q]
  BY <1>1, <1>6, PollGoesOK
<1>9. DOMAIN tracks' = WatchedSet /\ \A b \in WatchedSet : TrackOK(tracks'[b], tick')
  BY <1>1, <1>5 DEF NearInv
<1>10. NearInv'
  BY <1>1, <1>8, <1>9 DEF NearInv
<1>11. tracks'[a] = samples
  BY <1>1, <1>3 DEF NearInv
<1> HIDE DEF a
<1>12. ASSUME NEW q \in NearPolls, nearPolls[q].at = "answered", nearPolls'[q].at = "urgent"
       PROVE  Fell(tracks'[Account(q)])
  <2>1. q = p
    BY <1>8, <1>12
  <2>2. next.at = "urgent"
    BY <1>8, <1>12, <2>1
  <2> QED BY <1>6, <1>7, <1>11, <2>1, <2>2 DEF a
<1> QED BY <1>10, <1>12

NearSafe ==
    \A p \in NearPolls :
        nearPolls[p].at = "answered" /\ nearPolls'[p].at = "urgent" => Fell(tracks'[Account(p)])

LEMMA NearStep == NearInv /\ [NearNext]_nearVars => NearInv' /\ NearSafe
<1> SUFFICES ASSUME NearInv, [NearNext]_nearVars PROVE NearInv' /\ NearSafe
  OBVIOUS
<1>1. ASSUME UNCHANGED nearPolls PROVE NothingUrgent
  BY <1>1 DEF NothingUrgent
<1>2. NothingUrgent => NearSafe
  BY DEF NothingUrgent, NearSafe
<1>3. CASE UNCHANGED nearVars
  BY <1>1, <1>2, <1>3 DEF nearVars, NearInv
<1>4. CASE NearTick
  <2>1. /\ UNCHANGED <<chainHf, chainDebt, nearPolls, tracks>>
        /\ tick \in 0 .. NearTicks /\ tick' \in 0 .. NearTicks /\ tick' = tick + 1
    BY <1>4, NearAssumption DEF NearTick, NearInv
  <2>2. ASSUME NEW track, TrackOK(track, tick) PROVE TrackOK(track, tick')
    <3>1. \A i \in 1 .. Len(track) : track[i].at \in Int
      <4>1. \A x \in Sample : x.at \in Int
        BY DEF Sample
      <4>2. \A i \in 1 .. Len(track) : track[i] \in Sample
        <5> HIDE DEF Sample
        <5> QED BY <2>2 DEF TrackOK
      <4> QED BY <4>1, <4>2
    <3>2. \A i \in 1 .. Len(track) : track[i].at <= tick'
      BY <2>1, <2>2, <3>1 DEF TrackOK
    <3> QED BY <2>2, <3>2 DEF TrackOK
  <2>3. NearInv'
    BY <2>1, <2>2 DEF NearInv
  <2> QED BY <1>1, <1>2, <2>1, <2>3
<1>5. CASE StopNear
  <2>1. TrackOK(<<>>, tick)
    BY EmptyTrackOK, NearAssumption DEF NearInv
  <2>2. NearInv'
    BY <1>5, <2>1 DEF StopNear, NearInv
  <2> QED BY <1>1, <1>2, <1>5, <2>2 DEF StopNear
<1>6. CASE \E a \in WatchedSet : HfMoves(a) \/ DebtShrinks(a)
  <2>1. UNCHANGED <<tick, nearPolls, tracks>>
    BY <1>6 DEF HfMoves, DebtShrinks
  <2>2. chainHf' \in [WatchedSet -> 0 .. TopHf] /\ chainDebt' \in [WatchedSet -> BOOLEAN]
    BY <1>6 DEF HfMoves, DebtShrinks, NearInv
  <2>3. NearInv'
    BY <2>1, <2>2 DEF NearInv
  <2> QED BY <1>1, <1>2, <2>1, <2>3
<1>7. CASE \E p \in NearPolls :
            \/ PollBegins(p) \/ GasKnown(p) \/ PollThrows(p) \/ AccountRead(p) \/ AccountUnread(p)
            \/ Forgotten(p) \/ Deprioritized(p) \/ UrgentDone(p)
  BY <1>2, <1>7, PollStep
<1>8. CASE \E p \in NearPolls : Sampled(p)
  BY <1>8, SampleStep DEF NearSafe
<1> QED BY <1>3, <1>4, <1>5, <1>6, <1>7, <1>8 DEF NearNext

(* Nobody is urgent whose samples never fell, for any number of accounts,  *)
(* polls, samples and health factors: the regression of samples taken one  *)
(* after the other has no falling line when none of them is below an       *)
(* earlier one (hfLinearRegression.ts:20-60,                               *)
(* nearLiquidationAcceleratedPoller.ts:116-143).                           *)
THEOREM UrgentOnlyIfFallen == NearSpec => UrgentHasFallen
<1>1. NearInit => NearInv
  BY NearInitInv
<1>2. NearInv /\ [NearNext]_nearVars => NearInv'
  BY NearStep
<1>3. NearInv /\ [NearNext]_nearVars =>
        [\A p \in NearPolls :
            nearPolls[p].at = "answered" /\ nearPolls'[p].at = "urgent" =>
                LET samples == tracks'[Account(p)]
                IN  \E i, j \in DOMAIN samples : i < j /\ samples[i].hf > samples[j].hf]_nearVars
  BY NearStep DEF NearSafe, Fell
<1> QED BY <1>1, <1>2, <1>3, PTL DEF NearSpec, UrgentHasFallen

(* No account ever has more than MaxSamples samples, and a poll only has   *)
(* watched accounts left, however polls overlap.                           *)
THEOREM TracksBounded == NearSpec => []NearTypeOK
<1>1. NearInv => NearTypeOK
  <2> SUFFICES ASSUME NearInv PROVE NearTypeOK
    OBVIOUS
  <2>1. ASSUME NEW p \in NearPolls
        PROVE  /\ nearPolls[p].at \in {"idle", "gas", "read", "answered", "urgent"}
               /\ ToSet(nearPolls[p].left) \subseteq WatchedSet /\ nearPolls[p].hf \in 0 .. TopHf
    <3>1. nearPolls[p] \in NearRecs
      BY DEF NearInv, PollOK
    <3>2. /\ nearPolls[p].at \in NearStages /\ nearPolls[p].left \in Seq(WatchedSet)
          /\ nearPolls[p].hf \in 0 .. TopHf
      BY ONLY <3>1 DEF NearRecs
    <3> QED BY ONLY <3>2 DEF NearStages, ToSet
  <2>2. ASSUME NEW a \in WatchedSet
        PROVE  ToSet(tracks[a]) \subseteq Sample /\ Len(tracks[a]) <= MaxSamples
    BY DEF NearInv, TrackOK, ToSet
  <2> QED BY <2>1, <2>2 DEF NearInv, NearTypeOK
<1> QED BY <1>1, NearInitInv, NearStep, PTL DEF NearSpec
=============================================================================
