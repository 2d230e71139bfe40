---------------------------- MODULE ContentSync ----------------------------
(***************************************************************************)
(* What the server assigns to a cluster (skills, MCP servers, packages)    *)
(* and how one daemon of the cluster brings its machine to it.             *)
(*                                                                         *)
(* A change is written to the database and then pushed: the push goes      *)
(* through a bounded broadcast channel, an SSE connection that comes and   *)
(* goes and a bounded queue of the daemon, and each stage may lose it.     *)
(* A push, the periodic update and the start of the daemon all spawn a     *)
(* sync task; tasks overlap.  A task runs the stages skills, MCP servers,  *)
(* packages from the stage its trigger names, each on an answer fetched at *)
(* the stage's beginning.  Links are made in one directory the first       *)
(* finisher locks for all; packages are installed under one mutex, against *)
(* a state file that says what earlier syncs installed.                    *)
(***************************************************************************)
EXTENDS Integers, Sequences, FiniteSets

CONSTANTS
  Slugs,       \* skills
  Paths,       \* store paths a skill may resolve to
  Configs,     \* versions of the MCP server map
  NoServers,   \* the one of a cluster without servers
  Packages,    \* packages the server may ask for
  Conflicts,   \* pairs of packages that provide the same files
  Others,      \* profile elements that other parts of the daemon installed
  Tasks,       \* slots for sync tasks; bounds how many overlap
  Root,        \* TRUE when the daemon may write into a read-only directory
  None, Builtin,
  ChanCap,     \* messages the broadcast channel keeps for a slow reader
  QueueCap,    \* commands the daemon's queue keeps
  MaxChanges,  \* bound on changes of the assignment
  MaxFaults    \* bound on failed commands, requests and crashes

ASSUME CapsAreNat == /\ ChanCap \in Nat \ {0} /\ QueueCap \in Nat \ {0}
                     /\ MaxChanges \in Nat /\ MaxFaults \in Nat
ASSUME RootIsBool == Root \in BOOLEAN
ASSUME SomeTask == Tasks # {}
ASSUME NoServersTyped == NoServers \in Configs
ASSUME NoneApart == /\ None \notin Tasks \cup Paths \cup Configs \cup Slugs
                    /\ Builtin \notin Paths \cup {None}
ASSUME ConflictsTyped == Conflicts \in SUBSET (Packages \X Packages)

Kinds == {"SyncSkills", "SyncMcpServers", "SyncPackages"}
Entry == Paths \cup {None, Builtin}

VARIABLES
  skills, servers, pkgs,  \* what the three endpoints answer
  owed,                   \* pushes whose change is written, not yet sent
  connected, chan,        \* the SSE subscription and what it has not read
  cmdq,                   \* push commands the daemon has not handled
  dir, writable,          \* the skills directory and its permission
  mcporter,               \* the managed MCP configuration file
  profile, state,         \* packages installed, packages the file records
  lock,                   \* holder of nix_state_lock
  ticked,                 \* slot of the task the last update tick spawned
  task,                   \* the sync tasks
  lost,                   \* ghost: packages a fault left without a record
  torn,                   \* ghost: a crash left the directory writable
  changes, faults

serverVars == <<skills, servers, pkgs, owed, changes>>
pushVars   == <<connected, chan, cmdq>>
dirVars    == <<dir, writable, torn>>
pkgVars    == <<profile, state, lock, lost>>
vars == <<serverVars, pushVars, dirVars, mcporter, pkgVars, ticked, task, faults>>

-----------------------------------------------------------------------------
(* Sync tasks.  pc names the stage; got, conf and want are the answers of   *)
(* the three endpoints, left the slugs or packages still to handle, slug    *)
(* the skill being realised, del and upg the packages to remove and check.  *)

Idle == [pc |-> "idle", got |-> [s \in Slugs |-> None], conf |-> None,
         want |-> {}, left |-> {}, slug |-> None, del |-> {}, upg |-> {}]

LinkStages == {"links", "realise"}
Stages == {"idle", "skills", "servers", "write", "packages", "lock", "held"}
            \cup LinkStages

Task == [pc : Stages, got : [Slugs -> Entry], conf : Configs \cup {None},
         want : SUBSET Packages, left : SUBSET (Slugs \cup Packages),
         slug : Slugs \cup {None}, del : SUBSET Packages, upg : SUBSET Packages]

At(t, stage) == task[t].pc = stage

Goto(t, stage) == task' = [task EXCEPT ![t] = [Idle EXCEPT !.pc = stage]]

Free == {t \in Tasks : At(t, "idle")}

(* Slots are alike: a new process takes this one, a new task the next free. *)
Slot == CHOOSE t \in Tasks : TRUE
NextSlot == CHOOSE t \in Tasks : At(t, "idle")

(* A process that starts spawns one sync of everything. *)
Booted == [t \in Tasks |-> IF t = Slot THEN [Idle EXCEPT !.pc = "skills"] ELSE Idle]

Fault == faults < MaxFaults /\ faults' = faults + 1

(* The stage a push command starts at; the later stages follow in order. *)
FirstStage(kind) == CASE kind = "SyncSkills" -> "skills"
                      [] kind = "SyncMcpServers" -> "servers"
                      [] kind = "SyncPackages" -> "packages"

-----------------------------------------------------------------------------
(* The server: a settings request writes the assignment, then notifies.    *)
(* The servers and packages a skill brings along are changes of their own.  *)

Change(kind) ==
  /\ changes < MaxChanges
  /\ changes' = changes + 1
  /\ owed' = owed \cup {kind}

ChangeSkills ==
  /\ Change("SyncSkills")
  /\ \E s \in Slugs : \E e \in Entry \ {skills[s]} : skills' = [skills EXCEPT ![s] = e]
  /\ UNCHANGED <<servers, pkgs, pushVars, dirVars, mcporter, pkgVars, ticked, task, faults>>

ChangeServers ==
  /\ Change("SyncMcpServers")
  /\ servers' \in Configs \ {servers}
  /\ UNCHANGED <<skills, pkgs, pushVars, dirVars, mcporter, pkgVars, ticked, task, faults>>

ChangePackages ==
  /\ Change("SyncPackages")
  /\ \E p \in Packages : pkgs' = IF p \in pkgs THEN pkgs \ {p} ELSE pkgs \cup {p}
  /\ UNCHANGED <<skills, servers, pushVars, dirVars, mcporter, pkgVars, ticked, task, faults>>

(* broadcast::send: a subscriber that is behind loses its oldest message. *)
Notify(kind) ==
  /\ kind \in owed
  /\ owed' = owed \ {kind}
  /\ chan' = IF ~connected THEN chan
             ELSE LET q == Append(chan, kind)
                  IN IF Len(q) > ChanCap THEN Tail(q) ELSE q
  /\ UNCHANGED <<skills, servers, pkgs, changes, connected, cmdq, dirVars,
                 mcporter, pkgVars, ticked, task, faults>>

Connect ==
  /\ ~connected
  /\ connected' = TRUE
  /\ UNCHANGED <<serverVars, chan, cmdq, dirVars, mcporter, pkgVars, ticked, task, faults>>

(* The connection or the server goes; what was not read is gone, and a      *)
(* server that stops between a write and its notify never sends it.         *)
Disconnect ==
  /\ connected
  /\ Fault
  /\ connected' = FALSE
  /\ chan' = <<>>
  /\ owed' \in {owed, {}}
  /\ UNCHANGED <<skills, servers, pkgs, changes, cmdq, dirVars, mcporter,
                 pkgVars, ticked, task>>

(* connect_sse forwards an event; it waits while the queue is full. *)
Receive ==
  /\ connected
  /\ chan # <<>>
  /\ Len(cmdq) < QueueCap
  /\ cmdq' = Append(cmdq, Head(chan))
  /\ chan' = Tail(chan)
  /\ UNCHANGED <<serverVars, connected, dirVars, mcporter, pkgVars, ticked, task, faults>>

-----------------------------------------------------------------------------
(* The daemon: triggers of a sync. *)

HandlePushCmd ==
  /\ cmdq # <<>>
  /\ Free # {}
  /\ Goto(NextSlot, FirstStage(Head(cmdq)))
  /\ cmdq' = Tail(cmdq)
  /\ UNCHANGED <<serverVars, connected, chan, dirVars, mcporter, pkgVars, ticked, faults>>

(* The update interval is longer than a sync: the task of the last tick    *)
(* has ended.  Tasks of pushes may still run.                              *)
UpdateTick ==
  /\ ticked \in Free
  /\ Goto(NextSlot, "skills")
  /\ ticked' = NextSlot
  /\ UNCHANGED <<serverVars, pushVars, dirVars, mcporter, pkgVars, faults>>

(* The process dies and starts again.  Its tasks, its queue and the mutex   *)
(* are gone; the directory keeps its permission, and packages installed     *)
(* since the state file was read have no record.                            *)
Crash ==
  /\ Fault
  /\ ticked' = Slot
  /\ task' = Booted
  /\ cmdq' = <<>>
  /\ connected' = FALSE
  /\ chan' = <<>>
  /\ lock' = None
  /\ lost' = IF lock = None THEN lost ELSE lost \cup (profile \ state)
  /\ torn' = writable
  /\ UNCHANGED <<serverVars, dir, writable, mcporter, profile, state>>

-----------------------------------------------------------------------------
(* sync_skills *)

CanWrite == Root \/ writable

(* The guard's drop locks the directory whatever the others are doing. *)
Relock == writable' = FALSE /\ torn' = FALSE

(* The endpoint or the directory cannot be had: nothing was unlocked yet. *)
SkillsFail(t) ==
  /\ At(t, "skills")
  /\ Fault
  /\ Goto(t, "servers")
  /\ UNCHANGED <<serverVars, pushVars, dirVars, mcporter, pkgVars, ticked>>

SkillsAnswer(t, answer) ==
  /\ At(t, "skills")
  /\ writable' = TRUE
  /\ task' = [task EXCEPT ![t] = [Idle EXCEPT !.pc = "links", !.got = answer,
                                    !.left = {s \in Slugs : answer[s] # None}]]
  /\ UNCHANGED <<serverVars, pushVars, dir, torn, mcporter, pkgVars, ticked>>

SkillsFetch(t) == SkillsAnswer(t, skills) /\ UNCHANGED faults

(* A skill center that cannot be reached is left out of the answer, which   *)
(* is as good as any other for the daemon.                                  *)
SkillsPartial(t) ==
  /\ Fault
  /\ \E s \in Slugs : /\ skills[s] # None
                      /\ SkillsAnswer(t, [skills EXCEPT ![s] = None])

(* materialize_builtin: writing through a link into the store fails. *)
LinkBuiltin(t, s) ==
  /\ At(t, "links")
  /\ s \in task[t].left
  /\ task[t].got[s] = Builtin
  /\ dir' = IF dir[s] = None /\ CanWrite THEN [dir EXCEPT ![s] = Builtin] ELSE dir
  /\ task' = [task EXCEPT ![t].left = @ \ {s}]
  /\ UNCHANGED <<serverVars, pushVars, writable, torn, mcporter, pkgVars, ticked, faults>>

(* Mutant: any link counts as up to date. *)
LinkAny(t, s) ==
  /\ At(t, "links")
  /\ s \in task[t].left
  /\ task[t].got[s] # Builtin
  /\ dir[s] \in Paths
  /\ task' = [task EXCEPT ![t].left = @ \ {s}]
  /\ UNCHANGED <<serverVars, pushVars, dirVars, mcporter, pkgVars, ticked, faults>>

LinkCurrent(t, s) ==
  /\ At(t, "links")
  /\ s \in task[t].left
  /\ task[t].got[s] # Builtin
  /\ dir[s] = task[t].got[s]
  /\ task' = [task EXCEPT ![t].left = @ \ {s}]
  /\ UNCHANGED <<serverVars, pushVars, dirVars, mcporter, pkgVars, ticked, faults>>

(* A stale link is removed, and the store path then realised. *)
LinkStale(t, s) ==
  /\ At(t, "links")
  /\ s \in task[t].left
  /\ task[t].got[s] # Builtin
  /\ dir[s] # task[t].got[s]
  /\ dir' = IF dir[s] \in Paths /\ CanWrite THEN [dir EXCEPT ![s] = None] ELSE dir
  /\ task' = [task EXCEPT ![t].left = @ \ {s}, ![t].slug = s, ![t].pc = "realise"]
  /\ UNCHANGED <<serverVars, pushVars, writable, torn, mcporter, pkgVars, ticked, faults>>

(* nix-store --add-root: needs a writable directory and no real one there. *)
Realise(t) ==
  /\ At(t, "realise")
  /\ LET s == task[t].slug
     IN dir' = IF CanWrite /\ dir[s] # Builtin
               THEN [dir EXCEPT ![s] = task[t].got[s]] ELSE dir
  /\ task' = [task EXCEPT ![t].slug = None, ![t].pc = "links"]
  /\ UNCHANGED <<serverVars, pushVars, writable, torn, mcporter, pkgVars, ticked, faults>>

RealiseFail(t) ==
  /\ At(t, "realise")
  /\ Fault
  /\ task' = [task EXCEPT ![t].slug = None, ![t].pc = "links"]
  /\ UNCHANGED <<serverVars, pushVars, dirVars, mcporter, pkgVars, ticked>>

(* Mutant: an early return leaves the directory as it is. *)
AbortUnlocked(t) ==
  /\ At(t, "realise")
  /\ Fault
  /\ Goto(t, "servers")
  /\ UNCHANGED <<serverVars, pushVars, dirVars, mcporter, pkgVars, ticked>>

(* nix-store cannot be started: the sync ends early, the guard still locks. *)
RealiseAbort(t) ==
  /\ At(t, "realise")
  /\ Fault
  /\ Relock
  /\ Goto(t, "servers")
  /\ UNCHANGED <<serverVars, pushVars, dir, mcporter, pkgVars, ticked>>

(* Mutant: the directory is locked only on the error paths. *)
CleanUnlocked(t) ==
  /\ At(t, "links")
  /\ task[t].left = {}
  /\ dir' = [s \in Slugs |-> IF task[t].got[s] = None /\ CanWrite THEN None ELSE dir[s]]
  /\ Goto(t, "servers")
  /\ UNCHANGED <<serverVars, pushVars, writable, torn, mcporter, pkgVars, ticked, faults>>

(* Entries that the answer does not name go, and the directory is locked. *)
SkillsClean(t) ==
  /\ At(t, "links")
  /\ task[t].left = {}
  /\ dir' = [s \in Slugs |-> IF task[t].got[s] = None /\ CanWrite THEN None ELSE dir[s]]
  /\ Relock
  /\ Goto(t, "servers")
  /\ UNCHANGED <<serverVars, pushVars, mcporter, pkgVars, ticked, faults>>

-----------------------------------------------------------------------------
(* sync_mcp_servers *)

ServersAnswer(t, answer) ==
  /\ At(t, "servers")
  /\ task' = [task EXCEPT ![t].conf = answer, ![t].pc = "write"]
  /\ UNCHANGED <<serverVars, pushVars, dirVars, mcporter, pkgVars, ticked>>

ServersFetch(t) == ServersAnswer(t, servers) /\ UNCHANGED faults

ServersPartial(t) ==
  /\ Fault
  /\ servers # NoServers
  /\ ServersAnswer(t, NoServers)

ServersWrite(t) ==
  /\ At(t, "write")
  /\ mcporter' = task[t].conf
  /\ Goto(t, "packages")
  /\ UNCHANGED <<serverVars, pushVars, dirVars, pkgVars, ticked, faults>>

(* The request or the write fails; the packages are synced all the same. *)
ServersFail(t) ==
  /\ At(t, "servers") \/ At(t, "write")
  /\ Fault
  /\ Goto(t, "packages")
  /\ UNCHANGED <<serverVars, pushVars, dirVars, mcporter, pkgVars, ticked>>

-----------------------------------------------------------------------------
(* sync_packages: fetched before the mutex is taken. *)

PackagesAnswer(t, answer) ==
  /\ At(t, "packages")
  /\ task' = [task EXCEPT ![t].want = answer, ![t].pc = "lock"]
  /\ UNCHANGED <<serverVars, pushVars, dirVars, mcporter, pkgVars, ticked>>

PackagesFetch(t) == PackagesAnswer(t, pkgs) /\ UNCHANGED faults

PackagesPartial(t) ==
  /\ Fault
  /\ \E p \in pkgs : PackagesAnswer(t, pkgs \ {p})

PackagesFail(t) ==
  /\ At(t, "packages")
  /\ Fault
  /\ Goto(t, "idle")
  /\ UNCHANGED <<serverVars, pushVars, dirVars, mcporter, pkgVars, ticked>>

(* Mutant: the state file is believed. *)
NoneMissing(t, listed) == {}

(* What the profile lists shows which recorded packages are missing; an     *)
(* empty list, or one that cannot be had, is taken to show nothing.         *)
Missing(t, listed) ==
  IF listed = {} THEN {} ELSE (task[t].want \cap state) \ listed

(* Mutant: the state file is read without waiting for the other sync. *)
LockFree(t, listed) ==
  /\ At(t, "lock")
  /\ lock' = t
  /\ task' = [task EXCEPT ![t].pc = "held",
                          ![t].left = Missing(t, listed) \cup (task[t].want \ state),
                          ![t].del = state \ task[t].want,
                          ![t].upg = state \cap task[t].want]
  /\ UNCHANGED <<serverVars, pushVars, dirVars, mcporter, profile, state, lost, ticked>>

PackagesLock(t, listed) ==
  /\ At(t, "lock")
  /\ lock = None
  /\ lock' = t
  /\ task' = [task EXCEPT ![t].pc = "held",
                          ![t].left = Missing(t, listed) \cup (task[t].want \ state),
                          ![t].del = state \ task[t].want,
                          ![t].upg = state \cap task[t].want]
  /\ UNCHANGED <<serverVars, pushVars, dirVars, mcporter, profile, state, lost, ticked>>

TakeLock(t) == PackagesLock(t, profile \cup Others) /\ UNCHANGED faults

TakeLockUnlisted(t) == Fault /\ PackagesLock(t, {})

(* profile_install: packages that provide the same files are removed first. *)
Rivals(p) == {q \in Packages : q # p /\ (<<p, q>> \in Conflicts \/ <<q, p>> \in Conflicts)}

Install(t, p) ==
  /\ At(t, "held")
  /\ p \in task[t].left
  /\ profile' = (profile \ Rivals(p)) \cup {p}
  /\ task' = [task EXCEPT ![t].left = @ \ {p}]
  /\ UNCHANGED <<serverVars, pushVars, dirVars, mcporter, state, lock, lost, ticked, faults>>

(* A failure is logged and the loop goes on; after a conflict the rivals    *)
(* and an older version of the package itself have already been removed.    *)
InstallFail(t, p) ==
  /\ At(t, "held")
  /\ p \in task[t].left
  /\ Fault
  /\ profile' \in {profile} \cup
       (IF profile \cap Rivals(p) # {} THEN {profile \ (Rivals(p) \cup {p})} ELSE {})
  /\ task' = [task EXCEPT ![t].left = @ \ {p}]
  /\ UNCHANGED <<serverVars, pushVars, dirVars, mcporter, state, lock, lost, ticked>>

Remove(t, p) ==
  /\ At(t, "held")
  /\ task[t].left = {}
  /\ p \in task[t].del
  /\ profile' = profile \ {p}
  /\ task' = [task EXCEPT ![t].del = @ \ {p}]
  /\ UNCHANGED <<serverVars, pushVars, dirVars, mcporter, state, lock, lost, ticked, faults>>

(* A removal that fails is logged; the record is dropped all the same. *)
RemoveFail(t, p) ==
  /\ At(t, "held")
  /\ task[t].left = {}
  /\ p \in task[t].del
  /\ Fault
  /\ task' = [task EXCEPT ![t].del = @ \ {p}]
  /\ lost' = lost \cup {p}
  /\ UNCHANGED <<serverVars, pushVars, dirVars, mcporter, profile, state, lock, ticked>>

(* An upgrade that removes and adds may fail between the two. *)
UpgradeFail(t, p) ==
  /\ At(t, "held")
  /\ task[t].left = {} /\ task[t].del = {}
  /\ p \in task[t].upg \cap profile
  /\ Fault
  /\ profile' = profile \ {p}
  /\ task' = [task EXCEPT ![t].upg = @ \ {p}]
  /\ UNCHANGED <<serverVars, pushVars, dirVars, mcporter, state, lock, lost, ticked>>

(* The answer becomes the record, whatever the commands returned. *)
SaveState(t) ==
  /\ At(t, "held")
  /\ task[t].left = {} /\ task[t].del = {}
  /\ state' = task[t].want
  /\ lost' = lost \ task[t].want
  /\ lock' = None
  /\ Goto(t, "idle")
  /\ UNCHANGED <<serverVars, pushVars, dirVars, mcporter, profile, ticked, faults>>

SaveStateFail(t) ==
  /\ At(t, "held")
  /\ task[t].left = {} /\ task[t].del = {}
  /\ Fault
  /\ lost' = lost \cup (profile \ state)
  /\ lock' = None
  /\ Goto(t, "idle")
  /\ UNCHANGED <<serverVars, pushVars, dirVars, mcporter, profile, state, ticked>>

-----------------------------------------------------------------------------
Init ==
  /\ skills = [s \in Slugs |-> None]
  /\ servers = NoServers
  /\ pkgs = {}
  /\ owed = {}
  /\ connected = FALSE
  /\ chan = <<>>
  /\ cmdq = <<>>
  /\ dir = [s \in Slugs |-> None]
  /\ writable = FALSE
  /\ mcporter = None
  /\ profile = {}
  /\ state = {}
  /\ lock = None
  /\ ticked = Slot
  /\ task = Booted
  /\ lost = {}
  /\ torn = FALSE
  /\ changes = 0
  /\ faults = 0

SkillsStep(t) ==
  \/ SkillsFetch(t)
  \/ \E s \in Slugs : LinkBuiltin(t, s) \/ LinkCurrent(t, s) \/ LinkStale(t, s)
  \/ Realise(t)
  \/ SkillsClean(t)

ServersStep(t) == ServersFetch(t) \/ ServersWrite(t)

PackagesStep(t) ==
  \/ PackagesFetch(t)
  \/ TakeLock(t)
  \/ \E p \in Packages : Install(t, p) \/ Remove(t, p)
  \/ SaveState(t)

TaskStep(t) == SkillsStep(t) \/ ServersStep(t) \/ PackagesStep(t)

TaskFault(t) ==
  \/ SkillsFail(t)
  \/ SkillsPartial(t)
  \/ RealiseFail(t)
  \/ RealiseAbort(t)
  \/ ServersFail(t)
  \/ ServersPartial(t)
  \/ PackagesFail(t)
  \/ PackagesPartial(t)
  \/ TakeLockUnlisted(t)
  \/ \E p \in Packages : InstallFail(t, p) \/ RemoveFail(t, p) \/ UpgradeFail(t, p)
  \/ SaveStateFail(t)

ServerStep ==
  \/ ChangeSkills
  \/ ChangeServers
  \/ ChangePackages
  \/ \E k \in Kinds : Notify(k)

PushStep == Connect \/ Disconnect \/ Receive

DaemonStep == HandlePushCmd \/ UpdateTick \/ Crash

Next ==
  \/ ServerStep
  \/ PushStep
  \/ DaemonStep
  \/ \E t \in Tasks : TaskStep(t) \/ TaskFault(t)

Spec == Init /\ [][Next]_vars

(* Commands end and the interval keeps firing.  Nothing is assumed of the   *)
(* push path: a push may be lost, or never read.                            *)
Fairness ==
  /\ \A t \in Tasks : WF_vars(TaskStep(t))
  /\ WF_vars(UpdateTick)

LiveSpec == Spec /\ Fairness

-----------------------------------------------------------------------------
(* Properties *)

(* Every variable keeps its type. *)
TypeOK ==
  /\ skills \in [Slugs -> Entry]
  /\ servers \in Configs
  /\ pkgs \in SUBSET Packages
  /\ owed \in SUBSET Kinds
  /\ connected \in BOOLEAN
  /\ chan \in Seq(Kinds) /\ Len(chan) <= ChanCap
  /\ cmdq \in Seq(Kinds) /\ Len(cmdq) <= QueueCap
  /\ dir \in [Slugs -> Entry]
  /\ writable \in BOOLEAN /\ torn \in BOOLEAN
  /\ mcporter \in Configs \cup {None}
  /\ profile \in SUBSET Packages
  /\ state \in SUBSET Packages
  /\ lost \in SUBSET Packages
  /\ lock \in Tasks \cup {None}
  /\ ticked \in Tasks
  /\ task \in [Tasks -> Task]
  /\ changes \in 0 .. MaxChanges
  /\ faults \in 0 .. MaxFaults

(* packages.rs: the mutex "serializes the read-modify-write cycle of the   *)
(* nix state file so concurrent sync_packages calls cannot lose updates".  *)
(* While nobody holds it, every package in the profile is recorded, except *)
(* those a failed removal, a failed save or a crash left behind: whatever  *)
(* order overlapping syncs fetched and applied their answers in, the next  *)
(* one knows what it may remove.                                           *)
PackageRecord == lock = None => profile \subseteq state \cup lost

(* What makes PackageRecord inductive: the mutex is held by exactly the     *)
(* task that is changing the profile, and whatever the profile holds then   *)
(* is in that task's answer, without a record already, or about to go.      *)
LockHeld == \A t \in Tasks : At(t, "held") <=> lock = t

HeldAccounts ==
  \A t \in Tasks : At(t, "held") =>
    /\ task[t].left \subseteq task[t].want
    /\ profile \subseteq task[t].want \cup task[t].del \cup lost

IInv == TypeOK /\ LockHeld /\ HeldAccounts /\ PackageRecord

(* skills.rs: the guard makes sure that early returns and errors "can't     *)
(* leave it writable".  The directory is writable only while a sync that    *)
(* unlocked it is running, or when a crash kept the guard from dropping.    *)
DirLocked == writable => torn \/ \E t \in Tasks : task[t].pc \in LinkStages

(* A directory left writable is locked again by a later sync, even after a  *)
(* crash and syncs that cannot reach the server.                            *)
DirRelocks == writable ~> ~writable

(* Polling alone brings the skills directory and the MCP configuration file *)
(* to the assignment once changes and faults stop, although overlapping     *)
(* syncs write the file without a lock, lock the directory under one        *)
(* another, apply answers out of order and remove what the other has made.  *)
(* Left out are slugs that turned from a builtin skill into a store path or *)
(* back, which the code never resolves.                                     *)
KindClash(s) == (dir[s] = Builtin /\ skills[s] \in Paths) \/ (dir[s] \in Paths /\ skills[s] = Builtin)

FilesConverge ==
  /\ \A s \in Slugs : <>[](dir[s] = skills[s] \/ KindClash(s))
  /\ <>[](mcporter = servers)

(* The same of the profile: every wanted package is in it, unless a wanted  *)
(* rival drives it out; a package that is not wanted is not in it, unless a *)
(* fault left it without a record.                                          *)
PackagesConverge ==
  \A p \in Packages :
    <>[](IF p \in pkgs THEN p \in profile \/ Rivals(p) \cap pkgs # {}
                       ELSE p \notin profile \/ p \in lost)
=============================================================================
