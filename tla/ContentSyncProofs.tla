------------------------- MODULE ContentSyncProofs -------------------------
(***************************************************************************)
(* The record of installed packages and the lock of the skills directory,  *)
(* for any number of overlapping syncs, changes, faults and packages.      *)
(***************************************************************************)
EXTENDS ContentSync, TLAPS

(* A slot that was just reset holds a task at the given stage.               *)
LEMMA Reset ==
    ASSUME NEW stage \in Stages
    PROVE  /\ [Idle EXCEPT !.pc = stage] \in Task
           /\ [Idle EXCEPT !.pc = stage].pc = stage
BY DEF Idle, Task, Entry

LEMMA StagesNamed ==
    {"idle", "skills", "servers", "write", "packages", "lock", "held", "links", "realise"} \subseteq Stages
BY DEF Stages, LinkStages

LEMMA SlotFound ==
    /\ Slot \in Tasks
    /\ Free # {} => NextSlot \in Tasks /\ At(NextSlot, "idle")
BY SomeTask DEF Slot, NextSlot, Free

LEMMA BootedTask ==
    /\ Booted \in [Tasks -> Task]
    /\ \A t \in Tasks : Booted[t].pc \in {"idle", "skills"}
<1>1. Idle \in Task /\ Idle.pc = "idle"
    BY StagesNamed DEF Idle, Task, Entry
<1>2. [Idle EXCEPT !.pc = "skills"] \in Task /\ [Idle EXCEPT !.pc = "skills"].pc = "skills"
    BY Reset, StagesNamed
<1> QED BY <1>1, <1>2 DEF Booted

LEMMA GotoTask ==
    ASSUME TypeOK, NEW t \in Tasks, NEW stage \in Stages, Goto(t, stage)
    PROVE  /\ task' \in [Tasks -> Task]
           /\ task'[t].pc = stage
           /\ \A u \in Tasks : u # t => task'[u] = task[u]
BY Reset DEF TypeOK, Goto

(* A fault uses up some of the budget.                                       *)
LEMMA FaultCounted ==
    ASSUME TypeOK, Fault
    PROVE  faults' \in 0 .. MaxFaults
BY CapsAreNat DEF TypeOK, Fault

-----------------------------------------------------------------------------
THEOREM SyncInit == Init => IInv
<1> SUFFICES ASSUME Init PROVE IInv
    OBVIOUS
<1>1. TypeOK
  <2>1. task \in [Tasks -> Task] /\ ticked \in Tasks
      BY BootedTask, SlotFound DEF Init
  <2>2. skills \in [Slugs -> Entry] /\ dir \in [Slugs -> Entry]
      BY DEF Init, Entry
  <2>3. chan \in Seq(Kinds) /\ cmdq \in Seq(Kinds) /\ Len(chan) <= ChanCap /\ Len(cmdq) <= QueueCap
      BY CapsAreNat DEF Init
  <2>4. changes \in 0 .. MaxChanges /\ faults \in 0 .. MaxFaults
      BY CapsAreNat DEF Init
  <2> QED BY <2>1, <2>2, <2>3, <2>4, NoServersTyped DEF Init, TypeOK
<1>2. \A t \in Tasks : ~At(t, "held")
    BY BootedTask DEF Init, At
<1> QED BY <1>1, <1>2, NoneApart DEF IInv, LockHeld, HeldAccounts, PackageRecord, Init

-----------------------------------------------------------------------------
(* Types, action by action.                                                  *)

LEMMA ServerTypes ==
    ASSUME TypeOK, ServerStep
    PROVE  TypeOK'
<1>1. CASE ChangeSkills
  <2>1. skills' \in [Slugs -> Entry] /\ owed' \in SUBSET Kinds /\ changes' \in 0 .. MaxChanges
      BY <1>1, CapsAreNat DEF ChangeSkills, Change, TypeOK, Kinds
  <2> QED BY <1>1, <2>1 DEF ChangeSkills, TypeOK, pushVars, dirVars, pkgVars
<1>2. CASE ChangeServers
  <2>1. owed' \in SUBSET Kinds /\ changes' \in 0 .. MaxChanges
      BY <1>2, CapsAreNat DEF ChangeServers, Change, TypeOK, Kinds
  <2> QED BY <1>2, <2>1 DEF ChangeServers, TypeOK, pushVars, dirVars, pkgVars
<1>3. CASE ChangePackages
  <2>1. owed' \in SUBSET Kinds /\ changes' \in 0 .. MaxChanges
      BY <1>3, CapsAreNat DEF ChangePackages, Change, TypeOK, Kinds
  <2>2. pkgs' \in SUBSET Packages
      BY <1>3 DEF ChangePackages, TypeOK
  <2> QED BY <1>3, <2>1, <2>2 DEF ChangePackages, TypeOK, pushVars, dirVars, pkgVars
<1>4. ASSUME NEW k \in Kinds, Notify(k) PROVE TypeOK'
  <2>1. chan' \in Seq(Kinds) /\ Len(chan') <= ChanCap
    <3>1. CASE ~connected
        BY <1>4, <3>1 DEF Notify, TypeOK
    <3>2. CASE connected
        BY <1>4, <3>2, CapsAreNat DEF Notify, TypeOK
    <3> QED BY <3>1, <3>2
  <2> QED BY <1>4, <2>1 DEF Notify, TypeOK, dirVars, pkgVars
<1> QED BY <1>1, <1>2, <1>3, <1>4 DEF ServerStep

LEMMA PushTypes ==
    ASSUME TypeOK, PushStep
    PROVE  TypeOK'
<1>1. CASE Connect
    BY <1>1 DEF Connect, TypeOK, serverVars, dirVars, pkgVars
<1>2. CASE Disconnect
  <2>1. faults' \in 0 .. MaxFaults
      BY <1>2, FaultCounted DEF Disconnect
  <2>2. chan' \in Seq(Kinds) /\ Len(chan') <= ChanCap
      BY <1>2, CapsAreNat DEF Disconnect
  <2> QED BY <1>2, <2>1, <2>2 DEF Disconnect, TypeOK, dirVars, pkgVars
<1>3. CASE Receive
  <2>1. chan' \in Seq(Kinds) /\ Len(chan') <= ChanCap /\ cmdq' \in Seq(Kinds) /\ Len(cmdq') <= QueueCap
      BY <1>3, CapsAreNat DEF Receive, TypeOK
  <2> QED BY <1>3, <2>1 DEF Receive, TypeOK, serverVars, dirVars, pkgVars
<1> QED BY <1>1, <1>2, <1>3 DEF PushStep

LEMMA DaemonTypes ==
    ASSUME TypeOK, DaemonStep
    PROVE  TypeOK'
<1>1. CASE HandlePushCmd
  <2>1. cmdq' \in Seq(Kinds) /\ Len(cmdq') <= QueueCap /\ Head(cmdq) \in Kinds
      BY <1>1, CapsAreNat DEF HandlePushCmd, TypeOK
  <2>2. FirstStage(Head(cmdq)) \in Stages
      BY <2>1, StagesNamed DEF FirstStage, Kinds
  <2>3. task' \in [Tasks -> Task]
      BY <1>1, <2>2, SlotFound, GotoTask DEF HandlePushCmd
  <2> QED BY <1>1, <2>1, <2>3 DEF HandlePushCmd, TypeOK, serverVars, dirVars, pkgVars
<1>2. CASE UpdateTick
  <2>1. Free # {} /\ NextSlot \in Tasks
      BY <1>2, SlotFound DEF UpdateTick
  <2>2. task' \in [Tasks -> Task]
      BY <1>2, <2>1, GotoTask, StagesNamed DEF UpdateTick
  <2> QED BY <1>2, <2>1, <2>2 DEF UpdateTick, TypeOK, serverVars, pushVars, dirVars, pkgVars
<1>3. CASE Crash
  <2>1. faults' \in 0 .. MaxFaults
      BY <1>3, FaultCounted DEF Crash
  <2>2. task' \in [Tasks -> Task] /\ ticked' \in Tasks
      BY <1>3, BootedTask, SlotFound DEF Crash
  <2>3. /\ chan' \in Seq(Kinds) /\ Len(chan') <= ChanCap
        /\ cmdq' \in Seq(Kinds) /\ Len(cmdq') <= QueueCap
      BY <1>3, CapsAreNat DEF Crash
  <2> QED BY <1>3, <2>1, <2>2, <2>3 DEF Crash, TypeOK, serverVars
<1> QED BY <1>1, <1>2, <1>3 DEF DaemonStep

(* What the steps of a task write is a task again.                           *)
LEMMA TaskSet ==
    ASSUME TypeOK, NEW t \in Tasks, NEW r \in Task, task' = [task EXCEPT ![t] = r]
    PROVE  /\ task' \in [Tasks -> Task]
           /\ task'[t] = r
           /\ \A u \in Tasks : u # t => task'[u] = task[u]
BY DEF TypeOK

LEMMA SkillsAnswered ==
    ASSUME TypeOK, NEW t \in Tasks, NEW answer \in [Slugs -> Entry], SkillsAnswer(t, answer)
    PROVE  /\ task' \in [Tasks -> Task]
           /\ task'[t].pc = "links"
           /\ \A u \in Tasks : u # t => task'[u] = task[u]
<1> DEFINE r == [Idle EXCEPT !.pc = "links", !.got = answer, !.left = {s \in Slugs : answer[s] # None}]
<1>1. r \in Task /\ r.pc = "links"
    BY StagesNamed DEF Idle, Task, Entry
<1>2. task' = [task EXCEPT ![t] = r]
    BY DEF SkillsAnswer
<1> QED BY <1>1, <1>2, TaskSet

LEMMA StaleFound ==
    ASSUME TypeOK, NEW t \in Tasks, NEW s \in Slugs, LinkStale(t, s)
    PROVE  /\ task' \in [Tasks -> Task]
           /\ task'[t].pc = "realise"
           /\ \A u \in Tasks : u # t => task'[u] = task[u]
<1> DEFINE r == [task[t] EXCEPT !.left = @ \ {s}, !.slug = s, !.pc = "realise"]
<1>1. r \in Task /\ r.pc = "realise"
    BY StagesNamed DEF TypeOK, Task
<1>2. task' = [task EXCEPT ![t] = r]
    BY DEF LinkStale, TypeOK
<1> QED BY <1>1, <1>2, TaskSet

LEMMA LinkDone ==
    ASSUME TypeOK, NEW t \in Tasks, NEW s \in Slugs,
           task' = [task EXCEPT ![t].left = @ \ {s}]
    PROVE  task' \in [Tasks -> Task]
<1> DEFINE r == [task[t] EXCEPT !.left = @ \ {s}]
<1>1. r \in Task
    BY ZenonT(40) DEF TypeOK, Task
<1>2. task' = [task EXCEPT ![t] = r]
    BY DEF TypeOK
<1> QED BY <1>1, <1>2, TaskSet

LEMMA BackToLinks ==
    ASSUME TypeOK, NEW t \in Tasks,
           task' = [task EXCEPT ![t].slug = None, ![t].pc = "links"]
    PROVE  /\ task' \in [Tasks -> Task]
           /\ task'[t].pc = "links"
           /\ \A u \in Tasks : u # t => task'[u] = task[u]
<1> DEFINE r == [task[t] EXCEPT !.slug = None, !.pc = "links"]
<1>1. r \in Task /\ r.pc = "links"
    BY StagesNamed DEF TypeOK, Task
<1>2. task' = [task EXCEPT ![t] = r]
    BY DEF TypeOK
<1> QED BY <1>1, <1>2, TaskSet

LEMMA SkillsTypes ==
    ASSUME TypeOK, NEW t \in Tasks,
           SkillsStep(t) \/ SkillsFail(t) \/ SkillsPartial(t) \/ RealiseFail(t) \/ RealiseAbort(t)
    PROVE  TypeOK'
<1>1. CASE SkillsFetch(t)
    BY <1>1, SkillsAnswered DEF SkillsFetch, SkillsAnswer, TypeOK, serverVars, pushVars, pkgVars
<1>2. CASE SkillsPartial(t)
  <2>1. PICK s \in Slugs : SkillsAnswer(t, [skills EXCEPT ![s] = None])
      BY <1>2 DEF SkillsPartial
  <2>2. [skills EXCEPT ![s] = None] \in [Slugs -> Entry]
      BY DEF TypeOK, Entry
  <2>3. task' \in [Tasks -> Task]
      BY <2>1, <2>2, SkillsAnswered
  <2>4. faults' \in 0 .. MaxFaults
      BY <1>2, FaultCounted DEF SkillsPartial
  <2> QED BY <2>1, <2>3, <2>4 DEF SkillsAnswer, TypeOK, serverVars, pushVars, pkgVars
<1>3. ASSUME NEW s \in Slugs, LinkBuiltin(t, s) PROVE TypeOK'
  <2>1. task' \in [Tasks -> Task]
      BY <1>3, LinkDone DEF LinkBuiltin
  <2>2. dir' \in [Slugs -> Entry]
      BY <1>3 DEF LinkBuiltin, TypeOK, Entry
  <2> QED BY <1>3, <2>1, <2>2 DEF LinkBuiltin, TypeOK, serverVars, pushVars, pkgVars
<1>4. ASSUME NEW s \in Slugs, LinkCurrent(t, s) PROVE TypeOK'
  <2>1. task' \in [Tasks -> Task]
      BY <1>4, LinkDone DEF LinkCurrent
  <2> QED BY <1>4, <2>1 DEF LinkCurrent, TypeOK, serverVars, pushVars, dirVars, pkgVars
<1>5. ASSUME NEW s \in Slugs, LinkStale(t, s) PROVE TypeOK'
  <2>1. task' \in [Tasks -> Task]
      BY <1>5, StaleFound
  <2>2. dir' \in [Slugs -> Entry]
      BY <1>5 DEF LinkStale, TypeOK, Entry
  <2> QED BY <1>5, <2>1, <2>2 DEF LinkStale, TypeOK, serverVars, pushVars, pkgVars
<1>6. CASE Realise(t)
  <2>1. task' \in [Tasks -> Task]
      BY <1>6, BackToLinks DEF Realise
  <2>2. task[t].got \in [Slugs -> Entry] /\ task[t].slug \in Slugs \cup {None}
      BY DEF TypeOK, Task
  <2>3. dir' \in [Slugs -> Entry]
      BY <1>6, <2>2 DEF Realise, TypeOK
  <2> QED BY <1>6, <2>1, <2>3 DEF Realise, TypeOK, serverVars, pushVars, pkgVars
<1>7. CASE RealiseFail(t)
  <2>1. task' \in [Tasks -> Task]
      BY <1>7, BackToLinks DEF RealiseFail
  <2>2. faults' \in 0 .. MaxFaults
      BY <1>7, FaultCounted DEF RealiseFail
  <2> QED BY <1>7, <2>1, <2>2 DEF RealiseFail, TypeOK, serverVars, pushVars, dirVars, pkgVars
<1>8. CASE RealiseAbort(t)
  <2>1. task' \in [Tasks -> Task]
      BY <1>8, GotoTask, StagesNamed DEF RealiseAbort
  <2>2. faults' \in 0 .. MaxFaults
      BY <1>8, FaultCounted DEF RealiseAbort
  <2> QED BY <1>8, <2>1, <2>2 DEF RealiseAbort, Relock, TypeOK, serverVars, pushVars, pkgVars
<1>9. CASE SkillsClean(t)
  <2>1. task' \in [Tasks -> Task]
      BY <1>9, GotoTask, StagesNamed DEF SkillsClean
  <2>2. dir' \in [Slugs -> Entry]
      BY <1>9 DEF SkillsClean, TypeOK, Entry
  <2> QED BY <1>9, <2>1, <2>2 DEF SkillsClean, Relock, TypeOK, serverVars, pushVars, pkgVars
<1>10. CASE SkillsFail(t)
  <2>1. task' \in [Tasks -> Task]
      BY <1>10, GotoTask, StagesNamed DEF SkillsFail
  <2>2. faults' \in 0 .. MaxFaults
      BY <1>10, FaultCounted DEF SkillsFail
  <2> QED BY <1>10, <2>1, <2>2 DEF SkillsFail, TypeOK, serverVars, pushVars, dirVars, pkgVars
<1> QED BY <1>1, <1>2, <1>3, <1>4, <1>5, <1>6, <1>7, <1>8, <1>9, <1>10 DEF SkillsStep

LEMMA ServersAnswered ==
    ASSUME TypeOK, NEW t \in Tasks, NEW answer \in Configs, ServersAnswer(t, answer)
    PROVE  /\ task' \in [Tasks -> Task]
           /\ task'[t].pc = "write"
           /\ \A u \in Tasks : u # t => task'[u] = task[u]
<1> DEFINE r == [task[t] EXCEPT !.conf = answer, !.pc = "write"]
<1>1. r \in Task /\ r.pc = "write"
    BY StagesNamed DEF TypeOK, Task
<1>2. task' = [task EXCEPT ![t] = r]
    BY DEF ServersAnswer, TypeOK
<1> QED BY <1>1, <1>2, TaskSet

LEMMA ServersTypes ==
    ASSUME TypeOK, NEW t \in Tasks, ServersStep(t) \/ ServersFail(t) \/ ServersPartial(t)
    PROVE  TypeOK'
<1>1. CASE ServersFetch(t)
  <2>1. task' \in [Tasks -> Task]
      BY <1>1, ServersAnswered DEF ServersFetch, TypeOK
  <2> QED BY <1>1, <2>1 DEF ServersFetch, ServersAnswer, TypeOK, serverVars, pushVars, dirVars, pkgVars
<1>2. CASE ServersPartial(t)
  <2>1. task' \in [Tasks -> Task]
      BY <1>2, ServersAnswered, NoServersTyped DEF ServersPartial
  <2>2. faults' \in 0 .. MaxFaults
      BY <1>2, FaultCounted DEF ServersPartial
  <2> QED BY <1>2, <2>1, <2>2 DEF ServersPartial, ServersAnswer, TypeOK, serverVars, pushVars, dirVars, pkgVars
<1>3. CASE ServersWrite(t)
  <2>1. task' \in [Tasks -> Task]
      BY <1>3, GotoTask, StagesNamed DEF ServersWrite
  <2>2. mcporter' \in Configs \cup {None}
      BY <1>3 DEF ServersWrite, TypeOK, Task
  <2> QED BY <1>3, <2>1, <2>2 DEF ServersWrite, TypeOK, serverVars, pushVars, dirVars, pkgVars
<1>4. CASE ServersFail(t)
  <2>1. task' \in [Tasks -> Task]
      BY <1>4, GotoTask, StagesNamed DEF ServersFail
  <2>2. faults' \in 0 .. MaxFaults
      BY <1>4, FaultCounted DEF ServersFail
  <2> QED BY <1>4, <2>1, <2>2 DEF ServersFail, TypeOK, serverVars, pushVars, dirVars, pkgVars
<1> QED BY <1>1, <1>2, <1>3, <1>4 DEF ServersStep

LEMMA PackagesAnswered ==
    ASSUME TypeOK, NEW t \in Tasks, NEW answer \in SUBSET Packages, PackagesAnswer(t, answer)
    PROVE  /\ task' \in [Tasks -> Task]
           /\ task'[t].pc = "lock"
           /\ \A u \in Tasks : u # t => task'[u] = task[u]
<1> DEFINE r == [task[t] EXCEPT !.want = answer, !.pc = "lock"]
<1>1. r \in Task /\ r.pc = "lock"
    BY StagesNamed DEF TypeOK, Task
<1>2. task' = [task EXCEPT ![t] = r]
    BY DEF PackagesAnswer, TypeOK
<1> QED BY <1>1, <1>2, TaskSet

LEMMA Locked ==
    ASSUME TypeOK, NEW t \in Tasks, NEW listed, PackagesLock(t, listed)
    PROVE  /\ task' \in [Tasks -> Task]
           /\ task'[t] = [task[t] EXCEPT !.pc = "held",
                             !.left = Missing(t, listed) \cup (task[t].want \ state),
                             !.del = state \ task[t].want, !.upg = state \cap task[t].want]
           /\ \A u \in Tasks : u # t => task'[u] = task[u]
<1> DEFINE r == [task[t] EXCEPT !.pc = "held",
                             !.left = Missing(t, listed) \cup (task[t].want \ state),
                             !.del = state \ task[t].want, !.upg = state \cap task[t].want]
<1>1. task[t] \in Task /\ task[t].want \in SUBSET Packages /\ state \in SUBSET Packages
    BY DEF TypeOK, Task
<1>2. Missing(t, listed) \in SUBSET Packages
    BY <1>1 DEF Missing
<1>3. r \in Task
    BY <1>1, <1>2, StagesNamed DEF Task
<1>4. task' = [task EXCEPT ![t] = r]
    BY <1>1 DEF PackagesLock, TypeOK
<1> QED BY <1>3, <1>4, TaskSet

(* The loops under the mutex each cross one package off a list.              *)
LEMMA CrossedOff ==
    ASSUME TypeOK, NEW t \in Tasks, NEW p,
           \/ task' = [task EXCEPT ![t].left = @ \ {p}]
           \/ task' = [task EXCEPT ![t].del = @ \ {p}]
           \/ task' = [task EXCEPT ![t].upg = @ \ {p}]
    PROVE  /\ task' \in [Tasks -> Task]
           /\ task'[t].pc = task[t].pc /\ task'[t].want = task[t].want
           /\ \A u \in Tasks : u # t => task'[u] = task[u]
<1>1. task[t] \in Task
    BY DEF TypeOK
<1>2. CASE task' = [task EXCEPT ![t].left = @ \ {p}]
  <2> DEFINE r == [task[t] EXCEPT !.left = @ \ {p}]
  <2>1. r \in Task /\ r.pc = task[t].pc /\ r.want = task[t].want
      BY <1>1 DEF Task
  <2>2. task' = [task EXCEPT ![t] = r]
      BY <1>2 DEF TypeOK
  <2> QED BY <2>1, <2>2, TaskSet
<1>3. CASE task' = [task EXCEPT ![t].del = @ \ {p}]
  <2> DEFINE r == [task[t] EXCEPT !.del = @ \ {p}]
  <2>1. r \in Task /\ r.pc = task[t].pc /\ r.want = task[t].want
      BY <1>1 DEF Task
  <2>2. task' = [task EXCEPT ![t] = r]
      BY <1>3 DEF TypeOK
  <2> QED BY <2>1, <2>2, TaskSet
<1>4. CASE task' = [task EXCEPT ![t].upg = @ \ {p}]
  <2> DEFINE r == [task[t] EXCEPT !.upg = @ \ {p}]
  <2>1. r \in Task /\ r.pc = task[t].pc /\ r.want = task[t].want
      BY <1>1 DEF Task
  <2>2. task' = [task EXCEPT ![t] = r]
      BY <1>4 DEF TypeOK
  <2> QED BY <2>1, <2>2, TaskSet
<1> QED BY <1>2, <1>3, <1>4

LEMMA PackagesTypes ==
    ASSUME TypeOK, NEW t \in Tasks,
           \/ PackagesStep(t) \/ PackagesFail(t) \/ PackagesPartial(t) \/ TakeLockUnlisted(t)
           \/ \E p \in Packages : InstallFail(t, p) \/ RemoveFail(t, p) \/ UpgradeFail(t, p)
           \/ SaveStateFail(t)
    PROVE  TypeOK'
<1>1. CASE PackagesFetch(t)
  <2>1. task' \in [Tasks -> Task]
      BY <1>1, PackagesAnswered DEF PackagesFetch, TypeOK
  <2> QED BY <1>1, <2>1 DEF PackagesFetch, PackagesAnswer, TypeOK, serverVars, pushVars, dirVars, pkgVars
<1>2. CASE PackagesPartial(t)
  <2>1. PICK p \in pkgs : PackagesAnswer(t, pkgs \ {p})
      BY <1>2 DEF PackagesPartial
  <2>2. pkgs \ {p} \in SUBSET Packages
      BY DEF TypeOK
  <2>3. task' \in [Tasks -> Task]
      BY <2>1, <2>2, PackagesAnswered
  <2>4. faults' \in 0 .. MaxFaults
      BY <1>2, FaultCounted DEF PackagesPartial
  <2> QED BY <2>1, <2>3, <2>4 DEF PackagesAnswer, TypeOK, serverVars, pushVars, dirVars, pkgVars
<1>3. CASE PackagesFail(t)
  <2>1. task' \in [Tasks -> Task]
      BY <1>3, GotoTask, StagesNamed DEF PackagesFail
  <2>2. faults' \in 0 .. MaxFaults
      BY <1>3, FaultCounted DEF PackagesFail
  <2> QED BY <1>3, <2>1, <2>2 DEF PackagesFail, TypeOK, serverVars, pushVars, dirVars, pkgVars
<1>4. CASE TakeLock(t)
  <2>1. task' \in [Tasks -> Task]
      BY <1>4, Locked DEF TakeLock
  <2> QED BY <1>4, <2>1 DEF TakeLock, PackagesLock, TypeOK, serverVars, pushVars, dirVars
<1>5. CASE TakeLockUnlisted(t)
  <2>1. task' \in [Tasks -> Task]
      BY <1>5, Locked DEF TakeLockUnlisted
  <2>2. faults' \in 0 .. MaxFaults
      BY <1>5, FaultCounted DEF TakeLockUnlisted
  <2> QED BY <1>5, <2>1, <2>2 DEF TakeLockUnlisted, PackagesLock, TypeOK, serverVars, pushVars, dirVars
<1>6. ASSUME NEW p \in Packages, Install(t, p) PROVE TypeOK'
  <2>1. task' \in [Tasks -> Task]
      BY <1>6, CrossedOff DEF Install
  <2>2. profile' \in SUBSET Packages
      BY <1>6 DEF Install, TypeOK
  <2> QED BY <1>6, <2>1, <2>2 DEF Install, TypeOK, serverVars, pushVars, dirVars
<1>7. ASSUME NEW p \in Packages, InstallFail(t, p) PROVE TypeOK'
  <2>1. task' \in [Tasks -> Task]
      BY <1>7, CrossedOff DEF InstallFail
  <2>2. profile' \in SUBSET Packages
      BY <1>7 DEF InstallFail, TypeOK
  <2>3. faults' \in 0 .. MaxFaults
      BY <1>7, FaultCounted DEF InstallFail
  <2> QED BY <1>7, <2>1, <2>2, <2>3 DEF InstallFail, TypeOK, serverVars, pushVars, dirVars
<1>8. ASSUME NEW p \in Packages, Remove(t, p) PROVE TypeOK'
  <2>1. task' \in [Tasks -> Task]
      BY <1>8, CrossedOff DEF Remove
  <2>2. profile' \in SUBSET Packages
      BY <1>8 DEF Remove, TypeOK
  <2> QED BY <1>8, <2>1, <2>2 DEF Remove, TypeOK, serverVars, pushVars, dirVars
<1>9. ASSUME NEW p \in Packages, RemoveFail(t, p) PROVE TypeOK'
  <2>1. task' \in [Tasks -> Task]
      BY <1>9, CrossedOff DEF RemoveFail
  <2>2. faults' \in 0 .. MaxFaults
      BY <1>9, FaultCounted DEF RemoveFail
  <2> QED BY <1>9, <2>1, <2>2 DEF RemoveFail, TypeOK, serverVars, pushVars, dirVars
<1>10. ASSUME NEW p \in Packages, UpgradeFail(t, p) PROVE TypeOK'
  <2>1. task' \in [Tasks -> Task]
      BY <1>10, CrossedOff DEF UpgradeFail
  <2>2. faults' \in 0 .. MaxFaults
      BY <1>10, FaultCounted DEF UpgradeFail
  <2>3. profile' \in SUBSET Packages
      BY <1>10 DEF UpgradeFail, TypeOK
  <2> QED BY <1>10, <2>1, <2>2, <2>3 DEF UpgradeFail, TypeOK, serverVars, pushVars, dirVars
<1>11. CASE SaveState(t)
  <2>1. task' \in [Tasks -> Task]
      BY <1>11, GotoTask, StagesNamed DEF SaveState
  <2>2. state' \in SUBSET Packages /\ lost' \in SUBSET Packages
      BY <1>11 DEF SaveState, TypeOK, Task
  <2> QED BY <1>11, <2>1, <2>2 DEF SaveState, TypeOK, serverVars, pushVars, dirVars
<1>12. CASE SaveStateFail(t)
  <2>1. task' \in [Tasks -> Task]
      BY <1>12, GotoTask, StagesNamed DEF SaveStateFail
  <2>2. lost' \in SUBSET Packages
      BY <1>12 DEF SaveStateFail, TypeOK
  <2>3. faults' \in 0 .. MaxFaults
      BY <1>12, FaultCounted DEF SaveStateFail
  <2> QED BY <1>12, <2>1, <2>2, <2>3 DEF SaveStateFail, TypeOK, serverVars, pushVars, dirVars
<1> QED BY <1>1, <1>2, <1>3, <1>4, <1>5, <1>6, <1>7, <1>8, <1>9, <1>10, <1>11, <1>12 DEF PackagesStep

LEMMA TypesStep == TypeOK /\ [Next]_vars => TypeOK'
<1> SUFFICES ASSUME TypeOK, [Next]_vars PROVE TypeOK'
    OBVIOUS
<1>1. CASE ServerStep \/ PushStep \/ DaemonStep
    BY <1>1, ServerTypes, PushTypes, DaemonTypes
<1>2. ASSUME NEW t \in Tasks, TaskStep(t) PROVE TypeOK'
    BY <1>2, SkillsTypes, ServersTypes, PackagesTypes DEF TaskStep
<1>3. ASSUME NEW t \in Tasks, TaskFault(t) PROVE TypeOK'
    BY <1>3, SkillsTypes, ServersTypes, PackagesTypes DEF TaskFault
<1>4. CASE UNCHANGED vars
    BY <1>4 DEF vars, serverVars, pushVars, dirVars, pkgVars, TypeOK
<1> QED BY <1>1, <1>2, <1>3, <1>4 DEF Next

-----------------------------------------------------------------------------
(* The record.  Steps that leave the packages alone keep it, wherever the    *)
(* tasks that take them stand.                                               *)

LEMMA Elsewhere ==
    ASSUME IInv, TypeOK', UNCHANGED pkgVars,
           \A u \in Tasks : task'[u] = task[u]
                           \/ (task[u].pc # "held" /\ task'[u].pc # "held")
    PROVE  IInv'
BY DEF IInv, LockHeld, HeldAccounts, PackageRecord, At, pkgVars

LEMMA LockKeeps ==
    ASSUME IInv, TypeOK', NEW t \in Tasks, NEW listed, PackagesLock(t, listed)
    PROVE  IInv'
<1>1. /\ task'[t].pc = "held"
      /\ task'[t].want = task[t].want
      /\ task'[t].left = Missing(t, listed) \cup (task[t].want \ state)
      /\ task'[t].del = state \ task[t].want
      /\ \A u \in Tasks : u # t => task'[u] = task[u]
  <2>1. task[t] \in Task
      BY DEF IInv, TypeOK
  <2>2. /\ task'[t] = [task[t] EXCEPT !.pc = "held",
                           !.left = Missing(t, listed) \cup (task[t].want \ state),
                           !.del = state \ task[t].want, !.upg = state \cap task[t].want]
        /\ \A u \in Tasks : u # t => task'[u] = task[u]
      BY Locked DEF IInv
  <2> QED BY <2>1, <2>2 DEF Task
<1>2. lock = None /\ lock' = t /\ profile' = profile /\ lost' = lost
    BY DEF PackagesLock
<1>3. \A u \in Tasks : ~At(u, "held")
    BY <1>2, NoneApart DEF IInv, LockHeld
<1>4. LockHeld'
    BY <1>1, <1>2, <1>3 DEF LockHeld, At
<1>5. profile \subseteq state \cup lost
    BY <1>2 DEF IInv, PackageRecord
<1>6. Missing(t, listed) \subseteq task[t].want
    BY DEF Missing
<1>7. HeldAccounts'
    BY <1>1, <1>2, <1>3, <1>5, <1>6 DEF HeldAccounts, At
<1>8. PackageRecord'
    BY <1>2, NoneApart DEF PackageRecord
<1> QED BY <1>4, <1>7, <1>8 DEF IInv

(* A command of the holder keeps the profile accounted for, if whatever it   *)
(* adds is in the answer and whatever it crosses off the removals is gone    *)
(* or counted as lost.                                                       *)
LEMMA HolderKeeps ==
    ASSUME IInv, TypeOK', NEW t \in Tasks, At(t, "held"),
           task'[t].pc = "held", task'[t].left \subseteq task'[t].want,
           \A u \in Tasks : u # t => task'[u] = task[u],
           profile' \subseteq task'[t].want \cup task'[t].del \cup lost',
           lock' = lock
    PROVE  IInv'
<1>1. lock = t
    BY DEF IInv, LockHeld
<1>2. \A u \in Tasks : u # t => ~At(u, "held")
    BY <1>1 DEF IInv, LockHeld
<1>3. LockHeld'
    BY <1>1, <1>2 DEF LockHeld, At
<1>4. HeldAccounts'
    BY <1>2 DEF HeldAccounts, At
<1>5. PackageRecord'
    BY <1>1, NoneApart DEF PackageRecord
<1> QED BY <1>3, <1>4, <1>5 DEF IInv

LEMMA CommandKeeps ==
    ASSUME IInv, TypeOK', NEW t \in Tasks, NEW p \in Packages,
           \/ Install(t, p) \/ InstallFail(t, p) \/ Remove(t, p)
           \/ RemoveFail(t, p) \/ UpgradeFail(t, p)
    PROVE  IInv'
<1> DEFINE r == task[t]
<1>1. /\ r \in Task
      /\ At(t, "held")
      /\ r.left \subseteq r.want
      /\ profile \subseteq r.want \cup r.del \cup lost
    BY DEF IInv, TypeOK, HeldAccounts, Install, InstallFail, Remove, RemoveFail, UpgradeFail
<1>2. CASE Install(t, p) \/ InstallFail(t, p)
  <2>1. task'[t] = [r EXCEPT !.left = @ \ {p}] /\ \A u \in Tasks : u # t => task'[u] = task[u]
      BY <1>2 DEF Install, InstallFail, IInv, TypeOK
  <2>2. /\ task'[t].pc = "held" /\ task'[t].want = r.want
        /\ task'[t].del = r.del /\ task'[t].left = r.left \ {p}
      BY <1>1, <2>1 DEF Task, At
  <2>3. profile' \subseteq profile \cup {p} /\ p \in r.left /\ lost' = lost /\ lock' = lock
      BY <1>2 DEF Install, InstallFail
  <2> QED BY <1>1, <2>1, <2>2, <2>3, HolderKeeps
<1>3. CASE Remove(t, p) \/ RemoveFail(t, p)
  <2>1. task'[t] = [r EXCEPT !.del = @ \ {p}] /\ \A u \in Tasks : u # t => task'[u] = task[u]
      BY <1>3 DEF Remove, RemoveFail, IInv, TypeOK
  <2>2. /\ task'[t].pc = "held" /\ task'[t].want = r.want
        /\ task'[t].del = r.del \ {p} /\ task'[t].left = r.left
      BY <1>1, <2>1 DEF Task, At
  <2>3. profile' \ lost' \subseteq (profile \ lost) \ {p} /\ lock' = lock
      BY <1>3 DEF Remove, RemoveFail
  <2> QED BY <1>1, <2>1, <2>2, <2>3, HolderKeeps
<1>4. CASE UpgradeFail(t, p)
  <2>1. task'[t] = [r EXCEPT !.upg = @ \ {p}] /\ \A u \in Tasks : u # t => task'[u] = task[u]
      BY <1>4 DEF UpgradeFail, IInv, TypeOK
  <2>2. /\ task'[t].pc = "held" /\ task'[t].want = r.want
        /\ task'[t].del = r.del /\ task'[t].left = r.left
      BY <1>1, <2>1 DEF Task, At
  <2>3. profile' \subseteq profile /\ lost' = lost /\ lock' = lock
      BY <1>4 DEF UpgradeFail
  <2> QED BY <1>1, <2>1, <2>2, <2>3, HolderKeeps
<1> QED BY <1>2, <1>3, <1>4

(* When the holder lets go, everything it leaves in the profile is recorded  *)
(* or counted as lost.                                                       *)
LEMMA SaveKeeps ==
    ASSUME IInv, TypeOK', NEW t \in Tasks, SaveState(t) \/ SaveStateFail(t)
    PROVE  IInv'
<1>1. At(t, "held") /\ lock = t /\ lock' = None
    BY DEF SaveState, SaveStateFail, IInv, LockHeld
<1>2. task'[t].pc = "idle" /\ \A u \in Tasks : u # t => task'[u] = task[u]
    BY GotoTask, StagesNamed DEF SaveState, SaveStateFail, IInv
<1>3. \A u \in Tasks : ~At(u, "held")'
    BY <1>1, <1>2 DEF IInv, LockHeld, At
<1>4. LockHeld' /\ HeldAccounts'
    BY <1>1, <1>3, NoneApart DEF LockHeld, HeldAccounts
<1>5. PackageRecord'
  <2>1. CASE SaveState(t)
    <3>1. profile \subseteq task[t].want \cup lost
        BY <1>1, <2>1 DEF IInv, HeldAccounts, SaveState
    <3> QED BY <2>1, <3>1 DEF SaveState, PackageRecord
  <2>2. CASE SaveStateFail(t)
      BY <2>2 DEF SaveStateFail, PackageRecord
  <2> QED BY <2>1, <2>2
<1> QED BY <1>4, <1>5 DEF IInv

LEMMA TaskKeeps ==
    ASSUME IInv, TypeOK', NEW t \in Tasks, TaskStep(t) \/ TaskFault(t)
    PROVE  IInv'
<1> USE DEF IInv
<1>1. CASE SkillsStep(t) \/ SkillsFail(t) \/ SkillsPartial(t) \/ RealiseFail(t) \/ RealiseAbort(t)
  <2>1. /\ UNCHANGED pkgVars
        /\ task[t].pc # "held" /\ task'[t].pc # "held"
        /\ \A u \in Tasks : u # t => task'[u] = task[u]
    <3>1. CASE SkillsFetch(t) \/ SkillsPartial(t)
      <4>1. PICK answer \in [Slugs -> Entry] : SkillsAnswer(t, answer)
        <5>1. skills \in [Slugs -> Entry] /\ \A s \in Slugs : [skills EXCEPT ![s] = None] \in [Slugs -> Entry]
            BY DEF TypeOK, Entry
        <5> QED BY <3>1, <5>1 DEF SkillsFetch, SkillsPartial
      <4> QED BY <4>1, SkillsAnswered DEF SkillsAnswer, At
    <3>2. ASSUME NEW s \in Slugs, LinkBuiltin(t, s) \/ LinkCurrent(t, s)
          PROVE  /\ UNCHANGED pkgVars
                 /\ task[t].pc # "held" /\ task'[t].pc # "held"
                 /\ \A u \in Tasks : u # t => task'[u] = task[u]
        BY <3>2, CrossedOff DEF LinkBuiltin, LinkCurrent, At
    <3>3. ASSUME NEW s \in Slugs, LinkStale(t, s)
          PROVE  /\ UNCHANGED pkgVars
                 /\ task[t].pc # "held" /\ task'[t].pc # "held"
                 /\ \A u \in Tasks : u # t => task'[u] = task[u]
        BY <3>3, StaleFound DEF LinkStale, At
    <3>4. CASE Realise(t) \/ RealiseFail(t)
        BY <3>4, BackToLinks DEF Realise, RealiseFail, At
    <3>5. CASE SkillsClean(t) \/ SkillsFail(t) \/ RealiseAbort(t)
        BY <3>5, GotoTask, StagesNamed DEF SkillsClean, SkillsFail, RealiseAbort, At
    <3> QED BY <1>1, <3>1, <3>2, <3>3, <3>4, <3>5 DEF SkillsStep
  <2> QED BY <2>1, Elsewhere
<1>2. CASE ServersStep(t) \/ ServersFail(t) \/ ServersPartial(t)
  <2>1. /\ UNCHANGED pkgVars
        /\ task[t].pc # "held" /\ task'[t].pc # "held"
        /\ \A u \in Tasks : u # t => task'[u] = task[u]
    <3>1. CASE ServersFetch(t) \/ ServersPartial(t)
        BY <3>1, ServersAnswered, NoServersTyped DEF ServersFetch, ServersPartial, ServersAnswer, At, TypeOK
    <3>2. CASE ServersWrite(t) \/ ServersFail(t)
        BY <3>2, GotoTask, StagesNamed DEF ServersWrite, ServersFail, At
    <3> QED BY <1>2, <3>1, <3>2 DEF ServersStep
  <2> QED BY <2>1, Elsewhere
<1>3. CASE PackagesFetch(t) \/ PackagesFail(t) \/ PackagesPartial(t)
  <2>1. /\ UNCHANGED pkgVars
        /\ task[t].pc # "held" /\ task'[t].pc # "held"
        /\ \A u \in Tasks : u # t => task'[u] = task[u]
    <3>1. CASE PackagesFetch(t) \/ PackagesPartial(t)
      <4>1. PICK answer \in SUBSET Packages : PackagesAnswer(t, answer)
          BY <3>1 DEF PackagesFetch, PackagesPartial, TypeOK
      <4> QED BY <4>1, PackagesAnswered DEF PackagesAnswer, At
    <3>2. CASE PackagesFail(t)
        BY <3>2, GotoTask, StagesNamed DEF PackagesFail, At
    <3> QED BY <1>3, <3>1, <3>2
  <2> QED BY <2>1, Elsewhere
<1>4. CASE TakeLock(t) \/ TakeLockUnlisted(t)
    BY <1>4, LockKeeps DEF TakeLock, TakeLockUnlisted
<1>5. ASSUME NEW p \in Packages,
             Install(t, p) \/ InstallFail(t, p) \/ Remove(t, p) \/ RemoveFail(t, p) \/ UpgradeFail(t, p)
      PROVE  IInv'
    BY <1>5, CommandKeeps
<1>6. CASE SaveState(t) \/ SaveStateFail(t)
    BY <1>6, SaveKeeps
<1> QED BY <1>1, <1>2, <1>3, <1>4, <1>5, <1>6 DEF TaskStep, TaskFault, PackagesStep

LEMMA DaemonKeeps ==
    ASSUME IInv, TypeOK', DaemonStep
    PROVE  IInv'
<1>1. CASE HandlePushCmd \/ UpdateTick
  <2>1. NextSlot \in Tasks /\ At(NextSlot, "idle")
      BY <1>1, SlotFound DEF HandlePushCmd, UpdateTick
  <2>2. PICK stage \in Stages \ {"held"} : Goto(NextSlot, stage)
    <3>1. CASE HandlePushCmd
      <4>1. Head(cmdq) \in Kinds
          BY <3>1 DEF HandlePushCmd, IInv, TypeOK
      <4>2. FirstStage(Head(cmdq)) \in Stages \ {"held"}
          BY <4>1, StagesNamed DEF FirstStage, Kinds
      <4> QED BY <3>1, <4>2 DEF HandlePushCmd
    <3>2. CASE UpdateTick
        BY <3>2, StagesNamed DEF UpdateTick
    <3> QED BY <1>1, <3>1, <3>2
  <2>3. task'[NextSlot].pc # "held" /\ \A u \in Tasks : u # NextSlot => task'[u] = task[u]
      BY <2>1, <2>2, GotoTask DEF IInv
  <2> QED BY <1>1, <2>1, <2>3, Elsewhere DEF HandlePushCmd, UpdateTick, At
<1>2. CASE Crash
  <2>1. \A u \in Tasks : ~At(u, "held")'
      BY <1>2, BootedTask DEF Crash, At
  <2>2. LockHeld' /\ HeldAccounts'
      BY <1>2, <2>1, NoneApart DEF Crash, LockHeld, HeldAccounts
  <2>3. PackageRecord'
      BY <1>2 DEF Crash, IInv, PackageRecord
  <2> QED BY <2>2, <2>3 DEF IInv
<1> QED BY <1>1, <1>2 DEF DaemonStep

THEOREM SyncStep == IInv /\ [Next]_vars => IInv'
<1> SUFFICES ASSUME IInv, [Next]_vars PROVE IInv'
    OBVIOUS
<1>1. TypeOK'
    BY TypesStep DEF IInv
<1>2. CASE ServerStep \/ PushStep \/ UNCHANGED vars
  <2>1. UNCHANGED <<pkgVars, task>>
      BY <1>2 DEF ServerStep, PushStep, ChangeSkills, ChangeServers, ChangePackages, Notify,
                  Connect, Disconnect, Receive, vars
  <2> QED BY <1>1, <2>1, Elsewhere
<1>3. CASE DaemonStep
    BY <1>1, <1>3, DaemonKeeps
<1>4. ASSUME NEW t \in Tasks, TaskStep(t) \/ TaskFault(t) PROVE IInv'
    BY <1>1, <1>4, TaskKeeps
<1> QED BY <1>2, <1>3, <1>4 DEF Next

(* The inductive invariant holds in every reachable state.                   *)
THEOREM SyncInvariant == Spec => []IInv
<1>1. IInv /\ [Next]_vars => IInv'
    BY SyncStep
<1> QED BY <1>1, SyncInit, PTL DEF Spec

(* The state of the server, of the push path and of the daemon keeps its     *)
(* types through every sync, fault and restart.                              *)
THEOREM SyncTypes == Spec => []TypeOK
<1>1. IInv => TypeOK
    BY DEF IInv
<1> QED BY <1>1, SyncInvariant, PTL

(* sync_packages: whatever the number of overlapping syncs and the order     *)
(* they fetched in, a package is in the profile without a record only after  *)
(* a failed removal, a failed save or a crash.                               *)
THEOREM SyncRecord == Spec => []PackageRecord
<1>1. IInv => PackageRecord
    BY DEF IInv
<1> QED BY <1>1, SyncInvariant, PTL

-----------------------------------------------------------------------------
(* The skills directory.  DirLocked is inductive over the types: a task      *)
(* leaves the stages that work on the directory only by locking it, or by a  *)
(* crash that the ghost remembers.                                           *)

LEMMA DirUntouched ==
    ASSUME DirLocked, UNCHANGED <<writable, torn>>,
           \A u \in Tasks : task[u].pc \in LinkStages => task'[u].pc \in LinkStages
    PROVE  DirLocked'
BY DEF DirLocked

LEMMA DirStep == TypeOK /\ DirLocked /\ [Next]_vars => DirLocked'
<1> SUFFICES ASSUME TypeOK, DirLocked, [Next]_vars PROVE DirLocked'
    OBVIOUS
<1>1. CASE ServerStep \/ PushStep \/ UNCHANGED vars
    BY <1>1, DirUntouched DEF ServerStep, PushStep, ChangeSkills, ChangeServers, ChangePackages, Notify,
                  Connect, Disconnect, Receive, vars, dirVars
<1>2. CASE HandlePushCmd \/ UpdateTick
  <2>1. NextSlot \in Tasks /\ At(NextSlot, "idle")
      BY <1>2, SlotFound DEF HandlePushCmd, UpdateTick
  <2>2. \A u \in Tasks : u # NextSlot => task'[u] = task[u]
      BY <1>2, <2>1 DEF HandlePushCmd, UpdateTick, Goto, TypeOK
  <2> QED BY <1>2, <2>1, <2>2, DirUntouched DEF HandlePushCmd, UpdateTick, At, LinkStages, dirVars
<1>3. CASE Crash
    BY <1>3 DEF Crash, DirLocked
<1>4. ASSUME NEW t \in Tasks, TaskStep(t) \/ TaskFault(t) PROVE DirLocked'
  <2>1. CASE SkillsFetch(t) \/ SkillsPartial(t)
    <3>1. PICK answer \in [Slugs -> Entry] : SkillsAnswer(t, answer)
      <4>1. skills \in [Slugs -> Entry] /\ \A s \in Slugs : [skills EXCEPT ![s] = None] \in [Slugs -> Entry]
          BY DEF TypeOK, Entry
      <4> QED BY <2>1, <4>1 DEF SkillsFetch, SkillsPartial
    <3> QED BY <3>1, SkillsAnswered DEF DirLocked, LinkStages
  <2>2. ASSUME NEW s \in Slugs, LinkBuiltin(t, s) \/ LinkCurrent(t, s) PROVE DirLocked'
    <3>1. \A u \in Tasks : task'[u].pc = task[u].pc
        BY <2>2, CrossedOff DEF LinkBuiltin, LinkCurrent
    <3> QED BY <2>2, <3>1, DirUntouched DEF LinkBuiltin, LinkCurrent, dirVars
  <2>3. ASSUME NEW s \in Slugs, LinkStale(t, s) PROVE DirLocked'
      BY <2>3, StaleFound, DirUntouched DEF LinkStale, LinkStages
  <2>4. CASE Realise(t) \/ RealiseFail(t)
      BY <2>4, BackToLinks, DirUntouched DEF Realise, RealiseFail, LinkStages, dirVars
  <2>5. CASE SkillsClean(t) \/ RealiseAbort(t)
      BY <2>5 DEF SkillsClean, RealiseAbort, Relock, DirLocked
  <2>6. CASE SkillsFail(t) \/ ServersStep(t) \/ ServersFail(t) \/ ServersPartial(t)
    <3>1. task[t].pc \notin LinkStages /\ \A u \in Tasks : u # t => task'[u] = task[u]
        BY <2>6 DEF SkillsFail, ServersStep, ServersFetch, ServersWrite, ServersFail, ServersPartial,
                    ServersAnswer, Goto, At, LinkStages, TypeOK
    <3>2. UNCHANGED <<writable, torn>>
        BY <2>6 DEF SkillsFail, ServersStep, ServersFetch, ServersWrite, ServersFail, ServersPartial,
                    ServersAnswer, dirVars
    <3> QED BY <3>1, <3>2, DirUntouched
  <2>7. CASE \/ PackagesFetch(t) \/ PackagesFail(t) \/ PackagesPartial(t)
             \/ TakeLock(t) \/ TakeLockUnlisted(t) \/ SaveState(t) \/ SaveStateFail(t)
    <3>1. task[t].pc \notin LinkStages /\ \A u \in Tasks : u # t => task'[u] = task[u]
        BY <2>7 DEF PackagesFetch, PackagesFail, PackagesPartial, PackagesAnswer, TakeLock,
                    TakeLockUnlisted, PackagesLock, SaveState, SaveStateFail, Goto, At, LinkStages, TypeOK
    <3>2. UNCHANGED <<writable, torn>>
        BY <2>7 DEF PackagesFetch, PackagesFail, PackagesPartial, PackagesAnswer, TakeLock,
                    TakeLockUnlisted, PackagesLock, SaveState, SaveStateFail, dirVars
    <3> QED BY <3>1, <3>2, DirUntouched
  <2>8. ASSUME NEW p \in Packages,
               Install(t, p) \/ InstallFail(t, p) \/ Remove(t, p) \/ RemoveFail(t, p) \/ UpgradeFail(t, p)
        PROVE  DirLocked'
    <3>1. task[t].pc \notin LinkStages /\ \A u \in Tasks : u # t => task'[u] = task[u]
        BY <2>8 DEF Install, InstallFail, Remove, RemoveFail, UpgradeFail, At, LinkStages, TypeOK
    <3>2. UNCHANGED <<writable, torn>>
        BY <2>8 DEF Install, InstallFail, Remove, RemoveFail, UpgradeFail, dirVars
    <3> QED BY <3>1, <3>2, DirUntouched
  <2> QED BY <1>4, <2>1, <2>2, <2>3, <2>4, <2>5, <2>6, <2>7, <2>8
          DEF TaskStep, TaskFault, SkillsStep, PackagesStep
<1> QED BY <1>1, <1>2, <1>3, <1>4 DEF Next, DaemonStep

(* WritableGuard: however many syncs unlock and lock the directory under one *)
(* another, it is writable only while one of them works on it, or since a    *)
(* crash that kept a guard from dropping.                                    *)
THEOREM SyncDirLocked == Spec => []DirLocked
<1>1. Init => DirLocked
    BY DEF Init, DirLocked
<1>2. TypeOK /\ DirLocked /\ [Next]_vars => DirLocked'
    BY DirStep
<1> QED BY <1>1, <1>2, SyncTypes, PTL DEF Spec
=============================================================================
