--------------------------- MODULE HealerSessions ---------------------------
(***************************************************************************)
(* The healer: sessions in which an LLM agent diagnoses and repairs one    *)
(* managed instance (mac-mgmt-healer/src/lib.rs, session/models.rs,        *)
(* tools.rs), started over the API or by the auto-trigger loop of the      *)
(* server (server/src/healer_auto_trigger.rs, api/healer_routes.rs).       *)
(*                                                                         *)
(* Every operation is a sequence of database round trips with no lock, so  *)
(* it is split at its awaits: what it read is kept in calls[c] and used    *)
(* later.  The agent loop itself, its control signals and the session      *)
(* table belong to the crate plan-ai-chat, which is not in the repository; *)
(* they are modelled from how the healer uses them (marked EXTERNAL).      *)
(* The sessions are those of one instance: the guards of two instances     *)
(* never meet.                                                             *)
(***************************************************************************)
EXTENDS Naturals

CONSTANTS
    Sessions,       \* session ids that can be allotted
    Admins,         \* concurrent users of the API
    Threshold,      \* auto_trigger_threshold
    Scenarios,      \* bounds: the sessions, requests, restarts, agent moves and
                    \* changes of the node a behaviour may have
    Phases,         \* the phases the agent asks for, of the allowed ones
    Merging,        \* what transition_state does with the old state data
    None

AgentAllowed == {"diagnosing", "remediating", "verifying", "done", "needs_human_attention"}
Active == {"initializing", "diagnosing", "remediating", "verifying"}
Inactive == {"completed", "done", "failed", "cancelled", "needs_human_attention"}
NonResumable == Inactive \cup {"paused"}
States == Active \cup NonResumable \cup {"created", "awaiting_approval"}

ASSUME HealerAssumption ==
    /\ Threshold \in Nat \ {0}
    /\ Scenarios \subseteq [ids : SUBSET Sessions, asks : Nat, restarts : Nat, moves : Nat, flips : Nat]
    /\ Phases \subseteq AgentAllowed
    /\ Merging \subseteq BOOLEAN
    /\ Merging # {}
    /\ None \notin Sessions \cup States
    /\ None \notin BOOLEAN

AutoTrigger == "auto"      \* the auto-trigger loop as a caller of spawn_session
Callers == Admins \cup {AutoTrigger}

VARIABLES
    rows,       \* the table chat_sessions: None or the row of a session
    agents,     \* SessionManager: None or the registered agent of a session
    calls,      \* the operation each caller has under way
    boot,       \* resume_interrupted: the rows it listed and has not tried yet
    node,       \* what the heartbeats of the instance say
    count,      \* the auto-trigger counter of the instance
    approved,   \* history: the sessions whose remediation somebody allowed
    merging,    \* whether transition_state keeps the keys it is not given
    left        \* what remains of the scenario

vars == <<rows, agents, calls, boot, node, count, approved, merging, left>>

(* state_data, as far as the code reads it back: auto_approve, last_state,   *)
(* and whether reason is token_budget_exceeded.                              *)
NoData == [auto |-> None, last |-> None, budget |-> FALSE]
Data == [auto : BOOLEAN \cup {None}, last : Active \cup {None}, budget : BOOLEAN]

(* over: the tokens used reach the budget; recent: created within the last   *)
(* hour; today: completed within the last 24 hours.                          *)
Row == [state : States, data : Data, over : BOOLEAN, recent : BOOLEAN, today : BOOLEAN]

(* full: registered with the mutating tools; start: the state it starts in;  *)
(* signal: what the control handles have been told.                          *)
Signals == {"none", "approval", "pause", "budget", "deadline"}
Agent == [run : {"building", "running"}, full : BOOLEAN, start : Active, signal : Signals]

ASSUME NoneAssumption == None \notin Row \cup Agent

Idle == [op |-> "idle"]
Call ==
    {Idle, [op |-> "human"]}
    \cup [op : {"running", "recent", "create"}, auto : BOOLEAN]
    \cup [op : {"init", "launch"}, s : Sessions, auto : BOOLEAN]
    \cup [op : {"approve", "access"}, s : Sessions, sess : Row]

TypeOK ==
    /\ rows \in [Sessions -> Row \cup {None}]
    /\ agents \in [Sessions -> Agent \cup {None}]
    /\ calls \in [Callers -> Call]
    /\ boot \in [Sessions -> Row \cup {None}]
    /\ node \in {"healthy", "sick", "unreachable"}
    /\ count \in 0 .. Threshold - 1
    /\ approved \subseteq Sessions
    /\ merging \in BOOLEAN
    /\ left \in [ids : SUBSET Sessions, asks : Nat, restarts : Nat, moves : Nat, flips : Nat]

-----------------------------------------------------------------------------
(* EXTERNAL: the session table.  transition_state writes the state and the   *)
(* keys it is given of the state data; whether the others survive is not     *)
(* visible in the repository, so both are checked.                           *)
Kept(r) == IF merging THEN r.data ELSE NoData
Transition(r, state, data) ==
    [r EXCEPT !.state = state, !.data = data, !.today = (state = "needs_human_attention")]

(* The data {"reason": ...}, for any reason but token_budget_exceeded.       *)
Reason(r) == [Kept(r) EXCEPT !.budget = FALSE]

SetRow(s, r) == rows' = [rows EXCEPT ![s] = r]
Exists(s) == rows[s] # None
Fresh == {s \in left.ids : ~Exists(s)}

(* has_running_session, has_recent_session and the auto-trigger's query.     *)
HasRunning == \E s \in Sessions : Exists(s) /\ rows[s].state \notin Inactive
HasRecent == \E s \in Sessions : Exists(s) /\ rows[s].recent
NeedsHuman ==
    \E s \in Sessions : Exists(s) /\ rows[s].state = "needs_human_attention" /\ rows[s].today

FindResumable == [s \in Sessions |->
    IF Exists(s) /\ rows[s].state \notin NonResumable THEN rows[s] ELSE None]

Answer(c) == calls' = [calls EXCEPT ![c] = Idle]
Goto(c, call) == calls' = [calls EXCEPT ![c] = call]
Spend(what) == left[what] > 0 /\ left' = [left EXCEPT ![what] = @ - 1]
Ask == Spend("asks")

-----------------------------------------------------------------------------
(* launch: register the agent, or fail if the session still has one.         *)
Launch(s, full, start) ==
    IF agents[s] = None
    THEN agents' = [agents EXCEPT ![s] =
            [run |-> "building", full |-> full, start |-> start, signal |-> "none"]]
    ELSE UNCHANGED agents

(* build_session_spec succeeds and run_detached starts the agent loop, which *)
(* enters the start state (EXTERNAL).                                        *)
BuildOk(s) ==
    /\ agents[s] # None /\ agents[s].run = "building"
    /\ agents' = [agents EXCEPT ![s].run = "running"]
    /\ SetRow(s, Transition(rows[s], agents[s].start, Kept(rows[s])))
    /\ UNCHANGED <<calls, boot, node, count, approved, merging, left>>

(* Mutant: the failed build is logged and nothing more.                      *)
BuildFailsQuietly(s) ==
    /\ agents[s] # None /\ agents[s].run = "building"
    /\ agents' = [agents EXCEPT ![s] = None]
    /\ UNCHANGED <<rows, calls, boot, node, count, approved, merging, left>>

(* ... or fails: unregister, fail_session.                                   *)
BuildFails(s) ==
    /\ agents[s] # None /\ agents[s].run = "building"
    /\ agents' = [agents EXCEPT ![s] = None]
    /\ SetRow(s, Transition(rows[s], "failed", Kept(rows[s])))
    /\ UNCHANGED <<calls, boot, node, count, approved, merging, left>>

-----------------------------------------------------------------------------
(* spawn_session: two guards, create_session, transition_state, launch.      *)
SpawnRunning(c) ==
    /\ calls[c].op = "running"
    /\ IF HasRunning THEN Answer(c) ELSE Goto(c, [calls[c] EXCEPT !.op = "recent"])
    /\ UNCHANGED <<rows, agents, boot, node, count, approved, merging, left>>

SpawnRecent(c) ==
    /\ calls[c].op = "recent"
    /\ IF HasRecent THEN Answer(c) ELSE Goto(c, [calls[c] EXCEPT !.op = "create"])
    /\ UNCHANGED <<rows, agents, boot, node, count, approved, merging, left>>

SpawnCreate(c) ==
    /\ calls[c].op = "create"
    /\ IF Fresh = {}
       THEN Answer(c) /\ UNCHANGED <<rows, approved>>
       ELSE LET s == CHOOSE t \in Fresh : TRUE IN
            /\ SetRow(s, [state |-> "created", data |-> [NoData EXCEPT !.auto = calls[c].auto],
                          over |-> FALSE, recent |-> TRUE, today |-> FALSE])
            /\ approved' = IF calls[c].auto THEN approved \cup {s} ELSE approved
            /\ Goto(c, [op |-> "init", s |-> s, auto |-> calls[c].auto])
    /\ UNCHANGED <<agents, boot, node, count, merging, left>>

SpawnInit(c) ==
    /\ calls[c].op = "init"
    /\ SetRow(calls[c].s, Transition(rows[calls[c].s], "initializing",
            [Kept(rows[calls[c].s]) EXCEPT !.auto = calls[c].auto]))
    /\ Goto(c, [calls[c] EXCEPT !.op = "launch"])
    /\ UNCHANGED <<agents, boot, node, count, approved, merging, left>>

SpawnLaunch(c) ==
    /\ calls[c].op = "launch"
    /\ Launch(calls[c].s, calls[c].auto, "diagnosing")
    /\ Answer(c)
    /\ UNCHANGED <<rows, boot, node, count, approved, merging, left>>

(* POST /healer/sessions; auto_approve comes from the body or the cluster.   *)
CreateSession(c) ==
    /\ c \in Admins /\ calls[c] = Idle
    /\ Ask
    /\ \E auto \in BOOLEAN : Goto(c, [op |-> "running", auto |-> auto])
    /\ UNCHANGED <<rows, agents, boot, node, count, approved, merging>>

-----------------------------------------------------------------------------
(* resume_session and approve_session read the row, act on what they read    *)
(* and meet in resume_session_internal.                                      *)
ResumeState(sess) ==
    CASE sess.data.last # None -> sess.data.last
      [] sess.data.last = None /\ sess.state \in Active -> sess.state
      [] OTHER -> "diagnosing"

(* Mutant: a missing auto_approve counts as given.                           *)
AutoApproveDefault(sess) == sess.data.auto # FALSE

AutoApprove(sess) == sess.data.auto = TRUE      \* unwrap_or(false)

ResumeSession(c, s) ==
    /\ c \in Admins /\ calls[c] = Idle
    /\ Exists(s) /\ rows[s].state = "paused"
    /\ ~(rows[s].data.budget /\ rows[s].over)
    /\ Ask
    /\ Goto(c, [op |-> "access", s |-> s, sess |-> rows[s]])
    /\ UNCHANGED <<rows, agents, boot, node, count, approved, merging>>

ApproveSession(c, s) ==
    /\ c \in Admins /\ calls[c] = Idle
    /\ Exists(s) /\ rows[s].state = "awaiting_approval"
    /\ Ask
    /\ approved' = approved \cup {s}
    /\ Goto(c, [op |-> "approve", s |-> s, sess |-> rows[s]])
    /\ UNCHANGED <<rows, agents, boot, node, count, merging>>

ApproveTransition(c) ==
    /\ calls[c].op = "approve"
    /\ LET data == [calls[c].sess.data EXCEPT !.auto = TRUE, !.budget = FALSE] IN
       /\ SetRow(calls[c].s, Transition(rows[calls[c].s], "remediating", data))
       /\ Goto(c, [calls[c] EXCEPT !.op = "access", !.sess.state = "remediating", !.sess.data = data])
    /\ UNCHANGED <<agents, boot, node, count, approved, merging, left>>

(* resume_session_internal: build_access, then launch with what was read.    *)
Access(c) ==
    /\ calls[c].op = "access"
    /\ Launch(calls[c].s, AutoApprove(calls[c].sess), ResumeState(calls[c].sess))
    /\ Answer(c)
    /\ UNCHANGED <<rows, boot, node, count, approved, merging, left>>

AccessFails(c) ==
    /\ calls[c].op = "access"
    /\ Answer(c)
    /\ UNCHANGED <<rows, agents, boot, node, count, approved, merging, left>>

(* resume_interrupted at startup, beside the API that is already served.     *)
BootResume(s) ==
    /\ boot[s] # None
    /\ boot' = [boot EXCEPT ![s] = None]
    /\ \/ Launch(s, AutoApprove(boot[s]), ResumeState(boot[s]))
       \/ UNCHANGED agents
    /\ UNCHANGED <<rows, calls, node, count, approved, merging, left>>

(* pause_session, extend_budget and cancel_session.                          *)
PauseSession(s) ==
    /\ agents[s] # None /\ agents[s].signal = "none"
    /\ Ask
    /\ agents' = [agents EXCEPT ![s].signal = "pause"]
    /\ UNCHANGED <<rows, calls, boot, node, count, approved, merging>>

ExtendBudget(s) ==
    /\ Exists(s) /\ rows[s].over
    /\ Ask
    /\ SetRow(s, [rows[s] EXCEPT !.over = FALSE])
    /\ UNCHANGED <<agents, calls, boot, node, count, approved, merging>>

(* EXTERNAL: the agent is dropped and the row becomes cancelled; a session   *)
(* that has no agent is cancelled in the table alone.                        *)
CancelSession(s) ==
    /\ Exists(s) /\ rows[s].state \notin Inactive
    /\ Ask
    /\ agents' = [agents EXCEPT ![s] = None]
    /\ SetRow(s, Transition(rows[s], "cancelled", Kept(rows[s])))
    /\ UNCHANGED <<calls, boot, node, count, approved, merging>>

-----------------------------------------------------------------------------
(* The agent calls set_phase; without auto_approve the step to remediating   *)
(* becomes a request for approval and stops the agent.                       *)
SetPhase(s, phase) ==
    /\ agents[s] # None /\ agents[s].run = "running" /\ agents[s].signal = "none"
    /\ Spend("moves")
    /\ IF ~agents[s].full /\ phase = "remediating"
       THEN /\ SetRow(s, Transition(rows[s], "awaiting_approval", Reason(rows[s])))
            /\ agents' = [agents EXCEPT ![s].signal = "approval"]
       ELSE SetRow(s, Transition(rows[s], phase, Reason(rows[s]))) /\ UNCHANGED agents
    /\ UNCHANGED <<calls, boot, node, count, approved, merging>>

(* EXTERNAL: token use reaches the budget (budget_notify), or the proxy      *)
(* token is about to expire (deadline).                                      *)
Exhausted(s) ==
    /\ agents[s] # None /\ agents[s].run = "running" /\ agents[s].signal = "none"
    /\ Spend("moves")
    /\ \/ /\ SetRow(s, [rows[s] EXCEPT !.over = TRUE])
          /\ agents' = [agents EXCEPT ![s].signal = "budget"]
       \/ UNCHANGED rows /\ agents' = [agents EXCEPT ![s].signal = "deadline"]
    /\ UNCHANGED <<calls, boot, node, count, approved, merging>>

(* EXTERNAL: the agent loop sees the signal, drops the agent and parks the   *)
(* session; a request for approval has already been written.                 *)
AgentStops(s) ==
    /\ agents[s] # None /\ agents[s].run = "running" /\ agents[s].signal # "none"
    /\ agents' = [agents EXCEPT ![s] = None]
    /\ IF agents[s].signal = "approval"
       THEN UNCHANGED rows
       ELSE SetRow(s, Transition(rows[s], "paused",
                [Kept(rows[s]) EXCEPT
                    !.budget = (agents[s].signal = "budget"),
                    !.last = IF rows[s].state \in Active THEN rows[s].state ELSE None]))
    /\ UNCHANGED <<calls, boot, node, count, approved, merging, left>>

(* EXTERNAL: the agent loop ends by itself or with an error.                 *)
AgentEnds(s) ==
    /\ agents[s] # None /\ agents[s].run = "running" /\ agents[s].signal = "none"
    /\ agents' = [agents EXCEPT ![s] = None]
    /\ IF rows[s].state \in Inactive
       THEN UNCHANGED rows
       ELSE \E state \in {"completed", "failed"} : SetRow(s, Transition(rows[s], state, Kept(rows[s])))
    /\ UNCHANGED <<calls, boot, node, count, approved, merging, left>>

-----------------------------------------------------------------------------
(* Mutant: every scan below the threshold starts the count again.            *)
AutoTickForgets ==
    /\ calls[AutoTrigger] = Idle
    /\ IF node # "healthy" /\ count + 1 >= Threshold
       THEN count' = 0 /\ Goto(AutoTrigger, [op |-> "human"])
       ELSE count' = 0 /\ UNCHANGED calls
    /\ UNCHANGED <<rows, agents, boot, node, approved, merging, left>>

(* The auto-trigger loop: count consecutive unhealthy scans, forget a        *)
(* healthy or silent instance, trigger at the threshold.                     *)
AutoTick ==
    /\ calls[AutoTrigger] = Idle
    /\ CASE node = "healthy" -> count' = 0 /\ UNCHANGED calls
         [] node # "healthy" /\ count + 1 < Threshold -> count' = count + 1 /\ UNCHANGED calls
         [] OTHER -> count' = 0 /\ Goto(AutoTrigger, [op |-> "human"])
    /\ UNCHANGED <<rows, agents, boot, node, approved, merging, left>>

(* The 24-hour guard, the switch of the cluster and build_spawn_request,     *)
(* which fails for an instance without a relay.                              *)
AutoSpawn ==
    /\ calls[AutoTrigger].op = "human"
    /\ IF NeedsHuman \/ node # "sick"
       THEN Answer(AutoTrigger)
       ELSE \E auto \in BOOLEAN : Goto(AutoTrigger, [op |-> "running", auto |-> auto])
    /\ UNCHANGED <<rows, agents, boot, node, count, approved, merging, left>>

(* The instance and the clock.                                               *)
NodeChanges ==
    /\ Spend("flips")
    /\ node' \in {"healthy", "sick", "unreachable"} \ {node}
    /\ UNCHANGED <<rows, agents, calls, boot, count, approved, merging>>

TimePasses(s) ==
    /\ Exists(s)
    /\ \/ rows[s].recent /\ SetRow(s, [rows[s] EXCEPT !.recent = FALSE])
       \/ rows[s].today /\ ~rows[s].recent /\ SetRow(s, [rows[s] EXCEPT !.today = FALSE])
    /\ UNCHANGED <<agents, calls, boot, node, count, approved, merging, left>>

(* The server dies at any await, or drains and exits, and starts again.      *)
Restart ==
    /\ Spend("restarts")
    /\ agents' = [s \in Sessions |-> None]
    /\ calls' = [c \in Callers |-> Idle]
    /\ boot' = FindResumable
    /\ count' = 0
    /\ UNCHANGED <<rows, node, approved, merging>>

-----------------------------------------------------------------------------
Init ==
    /\ rows = [s \in Sessions |-> None]
    /\ agents = [s \in Sessions |-> None]
    /\ calls = [c \in Callers |-> Idle]
    /\ boot = [s \in Sessions |-> None]
    /\ node = "sick"
    /\ count = 0
    /\ approved = {}
    /\ merging \in Merging
    /\ left \in Scenarios

SpawnStep(c) ==
    \/ SpawnRunning(c)
    \/ SpawnRecent(c)
    \/ SpawnCreate(c)
    \/ SpawnInit(c)
    \/ SpawnLaunch(c)

Next ==
    \/ \E c \in Callers : SpawnStep(c)
    \/ \E c \in Admins :
          \/ CreateSession(c)
          \/ \E s \in Sessions : ResumeSession(c, s) \/ ApproveSession(c, s)
          \/ ApproveTransition(c)
          \/ Access(c)
          \/ AccessFails(c)
    \/ \E s \in Sessions :
          \/ BootResume(s)
          \/ BuildOk(s)
          \/ BuildFails(s)
          \/ PauseSession(s)
          \/ ExtendBudget(s)
          \/ CancelSession(s)
          \/ \E phase \in Phases : SetPhase(s, phase)
          \/ Exhausted(s)
          \/ AgentStops(s)
          \/ AgentEnds(s)
          \/ TimePasses(s)
    \/ AutoTick
    \/ AutoSpawn
    \/ NodeChanges
    \/ Restart

Spec == Init /\ [][Next]_vars

(* The runtime polls every ready task and the scan interval is a timer, so   *)
(* operations under way and the auto-trigger loop keep going.  Nothing is    *)
(* assumed of users, of the agent, of the clock or of the node.              *)
LiveSpec ==
    /\ Spec
    /\ WF_vars(AutoTick)
    /\ WF_vars(AutoSpawn)
    /\ WF_vars(SpawnStep(AutoTrigger))

-----------------------------------------------------------------------------
(* The approval gate: an agent has the mutating tools only in a session that *)
(* was created with auto_approve or that somebody approved, whatever was     *)
(* paused, resumed, approved twice or restarted before (build_session_spec's *)
(* diagnosis_only, lib.rs:709).                                              *)
ApprovalGate ==
    \A s \in Sessions : agents[s] # None /\ agents[s].full => s \in approved

(* Its inductive form: whatever the gate will be read from (rows, snapshots  *)
(* of calls and of the boot list) says auto_approve only for an approved     *)
(* session, and everything that runs or is under way has its row.            *)
Allowed ==
    /\ ApprovalGate
    /\ \A s \in Sessions : Exists(s) /\ rows[s].data.auto = TRUE => s \in approved
    /\ \A s \in Sessions : boot[s] # None /\ boot[s].data.auto = TRUE => s \in approved
    /\ \A c \in Callers :
          /\ calls[c].op \in {"init", "launch"} /\ calls[c].auto => calls[c].s \in approved
          /\ calls[c].op = "approve" => calls[c].s \in approved
          /\ calls[c].op = "access" /\ calls[c].sess.data.auto = TRUE => calls[c].s \in approved
Backed ==
    /\ \A s \in Sessions : agents[s] # None \/ boot[s] # None => Exists(s)
    /\ \A c \in Callers : calls[c].op \in {"init", "launch", "approve", "access"} => Exists(calls[c].s)
    /\ \A c \in Callers : calls[c].op \in {"approve", "access"} => c \in Admins
IInv == TypeOK /\ Backed /\ Allowed

(* A session that the table holds for running but that nobody runs: it can   *)
(* be neither approved nor resumed, and it blocks every new session of the   *)
(* instance until the server restarts.                                       *)
Stranded(s) ==
    /\ Exists(s) /\ rows[s].state \in Active \cup {"created"}
    /\ agents[s] = None /\ boot[s] = None
    /\ \A c \in Callers : calls[c].op \in {"init", "launch", "approve", "access"} => calls[c].s # s

(* The hand-over of a session to a new agent was refused or failed: a resume *)
(* that cannot reach the instance or finds the old agent still registered,   *)
(* or an approval that overtook the agent asking for it.                     *)
HandoverFailed(s) ==
    \/ \E c \in Admins : calls[c].op = "access" /\ calls[c].s = s
    \/ boot[s] # None
    \/ agents[s] # None /\ agents[s].signal = "approval"

(* Only a failed hand-over strands a session: neither the end of an agent,   *)
(* a pause, a cancel, an agent that cannot be built, nor a death of the      *)
(* server at any await of spawn_session or approve_session does              *)
(* (lib.rs:295-316, NON_RESUMABLE_STATES).                                   *)
StrandedOnlyByHandover ==
    [][\A s \in Sessions : Stranded(s)' /\ ~Stranded(s) => HandoverFailed(s)]_vars

(* An instance that stays unhealthy is attended to again and again: a        *)
(* session is open, is recent or has asked for a human (the auto-trigger     *)
(* loop, healer_auto_trigger.rs:86).                                         *)
Attended == HasRunning \/ HasRecent \/ NeedsHuman \/ Fresh = {}
SickIsAttended == <>[](node = "sick") => []<>Attended

-----------------------------------------------------------------------------
(* What comments of the code say and the code does not keep (README).        *)

(* models.rs:71, is_terminal: "no further transitions possible".             *)
TerminalIsFinal ==
    [][\A s \in Sessions : Exists(s) /\ rows[s].state \in Inactive
            => rows'[s].state = rows[s].state]_vars

(* lib.rs:183: "Guard: no concurrent sessions for the same instance".        *)
OneSessionAtATime ==
    \A s, t \in Sessions :
        (Exists(s) /\ Exists(t) /\ rows[s].state \notin Inactive /\ rows[t].state \notin Inactive)
        => s = t

(* lib.rs:411: "post-approval sessions resume straight into Remediating".    *)
ApprovedRemediates ==
    [][\A c \in Admins, s \in Sessions :
          (calls[c].op = "access" /\ calls[c].sess.state = "remediating" /\ calls[c].s = s
             /\ calls'[c] = Idle /\ agents[s] = None /\ agents'[s] # None)
          => agents'[s].start = "remediating"]_vars

=============================================================================
