---------------------------- MODULE HealerProofs ----------------------------
(***************************************************************************)
(* The approval gate of the healer, for any number of sessions, users and  *)
(* restarts and for both readings of transition_state.                     *)
(***************************************************************************)
EXTENDS HealerSessions, TLAPS

(* The vocabulary of session states is closed under what the actions write.  *)
LEMMA Vocabulary ==
    /\ Active \subseteq States
    /\ AgentAllowed \subseteq States
    /\ Inactive \subseteq States
    /\ {"created", "paused", "awaiting_approval"} \subseteq States
BY DEF Active, AgentAllowed, Inactive, NonResumable, States

(* What Kept and Transition make of a row: a row, with auto_approve only if  *)
(* the data it is given or the old row has it.                               *)
LEMMA RowKept ==
    ASSUME TypeOK, NEW r \in Row
    PROVE  /\ Kept(r) \in Data
           /\ Kept(r).auto = TRUE => r.data.auto = TRUE
           /\ Reason(r) \in Data
           /\ Reason(r).auto = TRUE => r.data.auto = TRUE
<1>1. NoData \in Data /\ NoData.auto # TRUE
    BY HealerAssumption DEF NoData, Data
<1>2. r.data \in Data
    BY DEF Row
<1>3. Kept(r) \in Data /\ (Kept(r).auto = TRUE => r.data.auto = TRUE)
    BY <1>1, <1>2 DEF Kept
<1>4. Reason(r) \in Data /\ Reason(r).auto = Kept(r).auto
    BY <1>3 DEF Reason, Data
<1> QED BY <1>3, <1>4

LEMMA RowWritten ==
    ASSUME NEW r \in Row, NEW state \in States, NEW data \in Data
    PROVE  /\ Transition(r, state, data) \in Row
           /\ Transition(r, state, data).data = data
BY DEF Transition, Row

(* What a value of calls is in each of its steps.                            *)
LEMMA CallShape ==
    ASSUME NEW call \in Call
    PROVE  /\ call.op \in {"idle", "human", "running", "recent", "create", "init", "launch", "approve", "access"}
           /\ call.op \in {"running", "recent", "create", "init", "launch"} => call.auto \in BOOLEAN
           /\ call.op \in {"init", "launch", "approve", "access"} => call.s \in Sessions
           /\ call.op \in {"approve", "access"} => call.sess \in Row
BY DEF Call, Idle

(* A call that works on a session names one.                                 *)
LEMMA CallSession ==
    ASSUME TypeOK
    PROVE  \A c \in Callers : calls[c].op \in {"init", "launch", "approve", "access"} => calls[c].s \in Sessions
BY CallShape DEF TypeOK

(* Building blocks of the steps: each keeps its part of the types.           *)
LEMMA CallMade ==
    ASSUME TypeOK, NEW c \in Callers, NEW call \in Call, Goto(c, call)
    PROVE  /\ calls' \in [Callers -> Call]
           /\ calls'[c] = call
           /\ \A d \in Callers : d # c => calls'[d] = calls[d]
BY DEF TypeOK, Goto

LEMMA CallAnswered ==
    ASSUME TypeOK, NEW c \in Callers, Answer(c)
    PROVE  /\ calls' \in [Callers -> Call]
           /\ calls'[c].op = "idle"
           /\ \A d \in Callers : d # c => calls'[d] = calls[d]
BY DEF TypeOK, Answer, Call, Idle

LEMMA RowSet ==
    ASSUME TypeOK, NEW s \in Sessions, NEW r \in Row, SetRow(s, r)
    PROVE  /\ rows' \in [Sessions -> Row \cup {None}]
           /\ rows'[s] = r
           /\ \A t \in Sessions : t # s => rows'[t] = rows[t]
BY DEF TypeOK, SetRow

(* Registering an agent keeps the types, touches no other session and gives  *)
(* the mutating tools only if it is told to.                                 *)
LEMMA Launched ==
    ASSUME TypeOK, NEW s \in Sessions, NEW full \in BOOLEAN, NEW start \in Active, Launch(s, full, start)
    PROVE  /\ agents' \in [Sessions -> Agent \cup {None}]
           /\ \A t \in Sessions : t # s => agents'[t] = agents[t]
           /\ agents'[s] # None /\ agents'[s].full => full \/ (agents[s] # None /\ agents[s].full)
<1> DEFINE new == [run |-> "building", full |-> full, start |-> start, signal |-> "none"]
<1>1. new \in Agent /\ new.full = full
    BY DEF Agent, Signals
<1>2. CASE agents[s] = None
  <2>1. agents' = [agents EXCEPT ![s] = new]
    BY <1>2 DEF Launch
  <2>2. agents \in [Sessions -> Agent \cup {None}]
    BY DEF TypeOK
  <2> HIDE DEF new
  <2>3. agents'[s] = new /\ \A t \in Sessions : t # s => agents'[t] = agents[t]
    BY <2>1, <2>2
  <2>4. agents' \in [Sessions -> Agent \cup {None}]
    BY <1>1, <2>1, <2>2
  <2> QED BY <1>1, <2>3, <2>4
<1>3. CASE agents[s] # None
  <2>1. agents' = agents
    BY <1>3 DEF Launch
  <2> QED BY <1>3, <2>1 DEF TypeOK
<1> QED BY <1>2, <1>3

(* The states a resumed session starts in are active ones.                   *)
LEMMA ResumesActive ==
    ASSUME NEW sess \in Row
    PROVE  ResumeState(sess) \in Active /\ AutoApprove(sess) \in BOOLEAN
BY DEF ResumeState, AutoApprove, Row, Data, Active

-----------------------------------------------------------------------------
THEOREM HealerInit == Init => IInv
<1> SUFFICES ASSUME Init PROVE IInv
    OBVIOUS
<1>1. TypeOK
    BY HealerAssumption DEF Init, TypeOK, Call, Idle
<1>2. \A c \in Callers : calls[c].op = "idle"
    BY DEF Init, Idle
<1>3. Backed /\ Allowed
    BY <1>2 DEF Init, Backed, Allowed, ApprovalGate, Exists
<1> QED BY <1>1, <1>3 DEF IInv

(* The steps of spawn_session.                                               *)
LEMMA SpawnKeeps ==
    ASSUME IInv, NEW c \in Callers, SpawnStep(c)
    PROVE  IInv'
<1> USE DEF IInv
<1>0. calls[c] \in Call
    BY DEF TypeOK
<1>1. CASE SpawnRunning(c) \/ SpawnRecent(c)
  <2>1. calls[c].op \in {"running", "recent"} /\ calls[c] \in [op : {"running", "recent", "create"}, auto : BOOLEAN]
    BY <1>0, <1>1 DEF SpawnRunning, SpawnRecent, Call, Idle
  <2>2. /\ calls' \in [Callers -> Call]
        /\ calls'[c].op \in {"idle", "recent", "create"}
        /\ \A d \in Callers : d # c => calls'[d] = calls[d]
    <3>1. CASE Answer(c)
        BY <3>1, CallAnswered
    <3>2. CASE Goto(c, [calls[c] EXCEPT !.op = "recent"])
        <4>1. [calls[c] EXCEPT !.op = "recent"] \in Call
            BY <2>1 DEF Call
        <4> QED BY <4>1, <3>2, <2>1, CallMade
    <3>3. CASE Goto(c, [calls[c] EXCEPT !.op = "create"])
        <4>1. [calls[c] EXCEPT !.op = "create"] \in Call
            BY <2>1 DEF Call
        <4> QED BY <4>1, <3>3, <2>1, CallMade
    <3> QED BY <1>1, <3>1, <3>2, <3>3 DEF SpawnRunning, SpawnRecent
  <2>3. UNCHANGED <<rows, agents, boot, node, count, approved, merging, left>>
    BY <1>1 DEF SpawnRunning, SpawnRecent
  <2>4. TypeOK'
    BY <2>2, <2>3 DEF TypeOK
  <2>5. Backed' /\ Allowed'
    BY <2>2, <2>3 DEF Backed, Allowed, ApprovalGate, Exists
  <2> QED BY <2>4, <2>5
<1>2. CASE SpawnCreate(c)
  <2>1. calls[c].auto \in BOOLEAN /\ calls[c].op = "create"
    BY <1>0, <1>2, CallShape DEF SpawnCreate
  <2>2. UNCHANGED <<agents, boot, node, count, merging, left>>
    BY <1>2 DEF SpawnCreate
  <2>3. CASE Fresh = {}
    <3>1. Answer(c) /\ UNCHANGED <<rows, approved>>
        BY <1>2, <2>3 DEF SpawnCreate
    <3>2. TypeOK'
        BY <2>2, <3>1, CallAnswered DEF TypeOK
    <3>3. Backed' /\ Allowed'
        BY <2>2, <3>1, CallAnswered DEF Backed, Allowed, ApprovalGate, Exists
    <3> QED BY <3>2, <3>3
  <2>4. CASE Fresh # {}
    <3> DEFINE s == CHOOSE t \in Fresh : TRUE
               row == [state |-> "created", data |-> [NoData EXCEPT !.auto = calls[c].auto],
                       over |-> FALSE, recent |-> TRUE, today |-> FALSE]
               call == [op |-> "init", s |-> s, auto |-> calls[c].auto]
    <3>1. s \in Sessions /\ ~Exists(s)
        BY <2>4 DEF Fresh, TypeOK
    <3>2. row \in Row /\ row.data.auto = calls[c].auto
        BY <2>1, Vocabulary DEF Row, NoData, Data
    <3>3. call \in Call /\ call.op = "init" /\ call.s = s /\ call.auto = calls[c].auto
        BY <2>1, <3>1 DEF Call
    <3>4. /\ SetRow(s, row)
          /\ approved' = IF calls[c].auto THEN approved \cup {s} ELSE approved
          /\ Goto(c, call)
        BY <1>2, <2>4 DEF SpawnCreate
    <3> HIDE DEF s, row, call
    <3>5. /\ rows' \in [Sessions -> Row \cup {None}] /\ rows'[s] = row
          /\ \A t \in Sessions : t # s => rows'[t] = rows[t]
        BY <3>1, <3>2, <3>4, RowSet
    <3>6. /\ calls' \in [Callers -> Call] /\ calls'[c] = call
          /\ \A d \in Callers : d # c => calls'[d] = calls[d]
        BY <3>3, <3>4, CallMade
    <3>7. approved \subseteq approved' /\ approved' \subseteq Sessions /\ (calls[c].auto => s \in approved')
        BY <3>1, <3>4 DEF TypeOK
    <3>8. TypeOK'
        BY <2>2, <3>5, <3>6, <3>7 DEF TypeOK
    <3>9. rows'[s] # None
        BY <3>2, <3>5, NoneAssumption
    <3>10. Backed'
        BY <2>2, <3>3, <3>5, <3>6, <3>9, CallSession DEF Backed, Exists
    <3>11. Allowed'
        BY <2>1, <2>2, <3>1, <3>2, <3>3, <3>5, <3>6, <3>7 DEF Allowed, ApprovalGate, Exists
    <3> QED BY <3>8, <3>10, <3>11
  <2> QED BY <2>3, <2>4
<1>3. CASE SpawnInit(c)
  <2> DEFINE s == calls[c].s
             call == [calls[c] EXCEPT !.op = "launch"]
             data == [Kept(rows[s]) EXCEPT !.auto = calls[c].auto]
             row == Transition(rows[s], "initializing", data)
  <2>1. calls[c] \in [op : {"init", "launch"}, s : Sessions, auto : BOOLEAN] /\ calls[c].op = "init"
    BY <1>0, <1>3 DEF SpawnInit, Call, Idle
  <2>2. s \in Sessions /\ Exists(s) /\ rows[s] \in Row
    BY <2>1 DEF Backed, Exists, TypeOK
  <2>3. Kept(rows[s]) \in Data
    BY <2>2, RowKept
  <2>4. data \in Data /\ data.auto = calls[c].auto
    BY <2>1, <2>3 DEF Data
  <2>5. row \in Row /\ row.data = data
    <3> HIDE DEF data
    <3> QED BY <2>2, <2>4, RowWritten, Vocabulary, ZenonT(40) DEF Active
  <2>6. call \in Call /\ call.op = "launch" /\ call.s = s /\ call.auto = calls[c].auto
    BY <2>1 DEF Call
  <2>7. SetRow(s, row) /\ Goto(c, call) /\ UNCHANGED <<agents, boot, node, count, approved, merging, left>>
    BY <1>3 DEF SpawnInit
  <2> HIDE DEF s, call, data, row
  <2>8. /\ rows' \in [Sessions -> Row \cup {None}] /\ rows'[s] = row
        /\ \A t \in Sessions : t # s => rows'[t] = rows[t]
    BY <2>2, <2>5, <2>7, RowSet
  <2>9. /\ calls' \in [Callers -> Call] /\ calls'[c] = call
        /\ \A d \in Callers : d # c => calls'[d] = calls[d]
    BY <2>6, <2>7, CallMade
  <2>10. TypeOK'
    BY <2>7, <2>8, <2>9 DEF TypeOK
  <2>11. rows'[s] # None
    BY <2>5, <2>8, NoneAssumption
  <2>12. calls[c].auto => s \in approved
    BY <2>1 DEF Allowed, s
  <2>13. Backed'
    BY <2>6, <2>7, <2>8, <2>9, <2>11, CallSession DEF Backed, Exists
  <2>14. Allowed'
    BY <2>1, <2>4, <2>5, <2>6, <2>7, <2>8, <2>9, <2>12 DEF Allowed, ApprovalGate, Exists
  <2> QED BY <2>10, <2>13, <2>14
<1>4. CASE SpawnLaunch(c)
  <2>1. calls[c].op = "launch" /\ calls[c].s \in Sessions /\ calls[c].auto \in BOOLEAN /\ Exists(calls[c].s)
    BY <1>0, <1>4, CallShape DEF SpawnLaunch, Backed
  <2>2. /\ Launch(calls[c].s, calls[c].auto, "diagnosing") /\ Answer(c)
        /\ UNCHANGED <<rows, boot, node, count, approved, merging, left>>
    BY <1>4 DEF SpawnLaunch
  <2>3. /\ agents' \in [Sessions -> Agent \cup {None}]
        /\ \A t \in Sessions : t # calls[c].s => agents'[t] = agents[t]
        /\ agents'[calls[c].s] # None /\ agents'[calls[c].s].full
              => calls[c].auto \/ (agents[calls[c].s] # None /\ agents[calls[c].s].full)
    BY <2>1, <2>2, Launched DEF Active
  <2>4. TypeOK'
    BY <2>2, <2>3, CallAnswered DEF TypeOK
  <2>5. Backed'
    BY <2>1, <2>2, <2>3, CallAnswered DEF Backed, Exists
  <2>6. Allowed'
    BY <2>1, <2>2, <2>3, CallAnswered DEF Allowed, ApprovalGate, Exists
  <2> QED BY <2>4, <2>5, <2>6
<1> QED BY <1>1, <1>2, <1>3, <1>4 DEF SpawnStep

(* A step on one session with a row that neither hands out auto_approve nor  *)
(* an agent with more tools than before.                                     *)
LEMMA SessionKeeps ==
    ASSUME IInv, NEW s \in Sessions, Exists(s),
           rows' \in [Sessions -> Row \cup {None}],
           rows'[s] \in Row,
           rows'[s].data.auto = TRUE => rows[s].data.auto = TRUE,
           \A t \in Sessions : t # s => rows'[t] = rows[t],
           agents' \in [Sessions -> Agent \cup {None}],
           agents'[s] # None => agents[s] # None /\ agents'[s].full = agents[s].full,
           \A t \in Sessions : t # s => agents'[t] = agents[t],
           UNCHANGED <<calls, boot, node, count, approved, merging>>,
           TypeOK => left' \in [ids : SUBSET Sessions, asks : Nat, restarts : Nat, moves : Nat, flips : Nat]
    PROVE  IInv'
<1> USE DEF IInv
<1>1. TypeOK'
    BY DEF TypeOK
<1>2. rows'[s] # None
    BY NoneAssumption
<1>3. Backed'
    BY <1>2, CallSession DEF Backed, Exists
<1>4. Allowed'
    BY <1>2 DEF Allowed, ApprovalGate, Exists
<1> QED BY <1>1, <1>3, <1>4

(* What is left of a scenario stays a scenario.                              *)
LEMMA Spent ==
    ASSUME TypeOK, NEW what \in {"asks", "restarts", "moves", "flips"}, Spend(what)
    PROVE  left' \in [ids : SUBSET Sessions, asks : Nat, restarts : Nat, moves : Nat, flips : Nat]
<1> DEFINE n == left[what] - 1
<1>1. left[what] \in Nat /\ left[what] > 0
    BY DEF TypeOK, Spend
<1>2. n \in Nat
    BY <1>1
<1>3. left' = [left EXCEPT ![what] = n]
    BY DEF Spend
<1> HIDE DEF n
<1> QED BY <1>2, <1>3 DEF TypeOK

(* The row of a session that has an agent.                                   *)
LEMMA AgentHasRow ==
    ASSUME IInv, NEW s \in Sessions, agents[s] # None
    PROVE  /\ Exists(s) /\ rows[s] \in Row
           /\ agents[s] \in Agent
           /\ agents \in [Sessions -> Agent \cup {None}]
           /\ rows \in [Sessions -> Row \cup {None}]
BY DEF IInv, TypeOK, Backed, Exists

(* The ends of a build.                                                      *)
LEMMA BuildKeeps ==
    ASSUME IInv, NEW s \in Sessions, BuildOk(s) \/ BuildFails(s)
    PROVE  IInv'
<1> USE DEF IInv
<1>1. agents[s] # None
    BY DEF BuildOk, BuildFails
<1>2. /\ Exists(s) /\ rows[s] \in Row /\ agents[s] \in Agent
      /\ agents \in [Sessions -> Agent \cup {None}]
    BY <1>1, AgentHasRow
<1>3. PICK state \in States : SetRow(s, Transition(rows[s], state, Kept(rows[s])))
    BY <1>2, Vocabulary DEF BuildOk, BuildFails, Agent, Inactive
<1>4. /\ Transition(rows[s], state, Kept(rows[s])) \in Row
      /\ Transition(rows[s], state, Kept(rows[s])).data.auto = TRUE => rows[s].data.auto = TRUE
    BY <1>2, RowKept, RowWritten, ZenonT(40)
<1>5. /\ rows' \in [Sessions -> Row \cup {None}] /\ rows'[s] = Transition(rows[s], state, Kept(rows[s]))
      /\ \A t \in Sessions : t # s => rows'[t] = rows[t]
    BY <1>3, <1>4, RowSet
<1>6. /\ agents' \in [Sessions -> Agent \cup {None}]
      /\ agents'[s] # None => agents[s] # None /\ agents'[s].full = agents[s].full
      /\ \A t \in Sessions : t # s => agents'[t] = agents[t]
  <2>1. CASE BuildOk(s)
    <3>1. agents' = [agents EXCEPT ![s].run = "running"]
        BY <2>1 DEF BuildOk
    <3>2. [agents[s] EXCEPT !.run = "running"] \in Agent
        BY <1>2 DEF Agent
    <3> QED BY <1>1, <1>2, <3>1, <3>2 DEF Agent
  <2>2. CASE BuildFails(s)
    <3>1. agents' = [agents EXCEPT ![s] = None]
        BY <2>2 DEF BuildFails
    <3> QED BY <1>2, <3>1
  <2> QED BY <2>1, <2>2
<1>7. UNCHANGED <<calls, boot, node, count, approved, merging, left>>
    BY DEF BuildOk, BuildFails
<1>8. TypeOK => left' \in [ids : SUBSET Sessions, asks : Nat, restarts : Nat, moves : Nat, flips : Nat]
    BY <1>7 DEF TypeOK
<1> HIDE DEF IInv
<1> QED BY <1>2, <1>4, <1>5, <1>6, <1>7, <1>8, SessionKeeps

(* What may happen to the agent of a session: it is told something, or it is *)
(* dropped.                                                                  *)
LEMMA AgentChanged ==
    ASSUME IInv, NEW s \in Sessions,
           \/ agents' = agents
           \/ agents' = [agents EXCEPT ![s] = None]
           \/ agents[s] # None /\ \E signal \in Signals : agents' = [agents EXCEPT ![s].signal = signal]
    PROVE  /\ agents' \in [Sessions -> Agent \cup {None}]
           /\ agents'[s] # None => agents[s] # None /\ agents'[s].full = agents[s].full
           /\ \A t \in Sessions : t # s => agents'[t] = agents[t]
<1>1. agents \in [Sessions -> Agent \cup {None}]
    BY DEF IInv, TypeOK
<1>2. CASE agents' = agents
    BY <1>1, <1>2
<1>3. CASE agents' = [agents EXCEPT ![s] = None]
    BY <1>1, <1>3
<1>4. ASSUME agents[s] # None, NEW signal \in Signals, agents' = [agents EXCEPT ![s].signal = signal]
      PROVE  /\ agents' \in [Sessions -> Agent \cup {None}]
             /\ agents'[s] # None => agents[s] # None /\ agents'[s].full = agents[s].full
             /\ \A t \in Sessions : t # s => agents'[t] = agents[t]
  <2>1. agents[s] \in Agent
    BY <1>1, <1>4
  <2>2. [agents[s] EXCEPT !.signal = signal] \in Agent /\ [agents[s] EXCEPT !.signal = signal].full = agents[s].full
    BY <2>1 DEF Agent
  <2> QED BY <1>1, <1>4, <2>2
<1> QED BY <1>2, <1>3, <1>4

(* ... and to its row: a transition with kept data, a new flag, or nothing.  *)
LEMMA RowChanged ==
    ASSUME IInv, NEW s \in Sessions, Exists(s),
           \/ rows' = rows
           \/ \E r \in Row : SetRow(s, r) /\ (r.data.auto = TRUE => rows[s].data.auto = TRUE)
    PROVE  /\ rows' \in [Sessions -> Row \cup {None}]
           /\ rows'[s] \in Row
           /\ rows'[s].data.auto = TRUE => rows[s].data.auto = TRUE
           /\ \A t \in Sessions : t # s => rows'[t] = rows[t]
<1>1. rows \in [Sessions -> Row \cup {None}] /\ rows[s] \in Row
    BY DEF IInv, TypeOK, Exists
<1>2. CASE rows' = rows
    BY <1>1, <1>2
<1>3. CASE \E r \in Row : SetRow(s, r) /\ (r.data.auto = TRUE => rows[s].data.auto = TRUE)
    BY <1>3, RowSet DEF IInv
<1> QED BY <1>2, <1>3

(* The agent's own steps, its end, and the requests that signal or drop it.  *)
LEMMA AgentKeeps ==
    ASSUME IInv, NEW s \in Sessions,
           \/ \E phase \in Phases : SetPhase(s, phase)
           \/ Exhausted(s) \/ AgentStops(s) \/ AgentEnds(s)
           \/ PauseSession(s) \/ ExtendBudget(s) \/ CancelSession(s) \/ TimePasses(s)
    PROVE  IInv'
<1>1. Exists(s) /\ rows[s] \in Row
  <2>1. agents[s] # None \/ Exists(s)
    BY DEF SetPhase, Exhausted, AgentStops, AgentEnds, PauseSession, ExtendBudget, CancelSession, TimePasses
  <2> QED BY <2>1 DEF IInv, TypeOK, Backed, Exists
<1>2. UNCHANGED <<calls, boot, node, count, approved, merging>>
    BY DEF SetPhase, Exhausted, AgentStops, AgentEnds, PauseSession, ExtendBudget, CancelSession, TimePasses
<1>3. TypeOK => left' \in [ids : SUBSET Sessions, asks : Nat, restarts : Nat, moves : Nat, flips : Nat]
  <2>1. left' = left \/ Spend("moves") \/ Spend("asks")
    BY DEF SetPhase, Exhausted, AgentStops, AgentEnds, PauseSession, ExtendBudget, CancelSession, TimePasses, Ask
  <2>2. CASE left' = left
    BY <2>2 DEF TypeOK
  <2> QED BY <2>1, <2>2, Spent
<1>4. /\ agents' \in [Sessions -> Agent \cup {None}]
      /\ agents'[s] # None => agents[s] # None /\ agents'[s].full = agents[s].full
      /\ \A t \in Sessions : t # s => agents'[t] = agents[t]
  <2>1. \/ agents' = agents
        \/ agents' = [agents EXCEPT ![s] = None]
        \/ agents[s] # None /\ \E signal \in Signals : agents' = [agents EXCEPT ![s].signal = signal]
    BY DEF SetPhase, Exhausted, AgentStops, AgentEnds, PauseSession, ExtendBudget, CancelSession, TimePasses, Signals
  <2> QED BY <2>1, AgentChanged
<1>5. \/ rows' = rows
      \/ \E r \in Row : SetRow(s, r) /\ (r.data.auto = TRUE => rows[s].data.auto = TRUE)
  <2> DEFINE old == rows[s]
             Good(r) == r \in Row /\ (r.data.auto = TRUE => rows[s].data.auto = TRUE)
  <2>1. /\ \A state \in States : Good(Transition(old, state, Kept(old))) /\ Good(Transition(old, state, Reason(old)))
    BY <1>1, RowKept, RowWritten, ZenonT(40) DEF IInv
  <2>2. \A b \in BOOLEAN : Good([old EXCEPT !.over = b]) /\ Good([old EXCEPT !.recent = b]) /\ Good([old EXCEPT !.today = b])
    BY <1>1 DEF Row
  <2>3. ASSUME NEW phase \in Phases, SetPhase(s, phase)
        PROVE  \E state \in States : SetRow(s, Transition(old, state, Reason(old)))
    <3>1. phase \in States
        BY HealerAssumption, Vocabulary
    <3> QED BY <2>3, <3>1, Vocabulary DEF SetPhase
  <2>4. CASE Exhausted(s) \/ ExtendBudget(s) \/ TimePasses(s)
    <3> HIDE DEF Good
    <3>1. \/ rows' = rows
          \/ \E b \in BOOLEAN : \/ SetRow(s, [old EXCEPT !.over = b])
                                \/ SetRow(s, [old EXCEPT !.recent = b])
                                \/ SetRow(s, [old EXCEPT !.today = b])
        BY <2>4 DEF Exhausted, ExtendBudget, TimePasses
    <3> QED BY <2>2, <3>1 DEF Good
  <2>5. CASE AgentEnds(s) \/ CancelSession(s)
    <3>1. rows' = rows \/ \E state \in States : SetRow(s, Transition(old, state, Kept(old)))
        BY <2>5, Vocabulary DEF AgentEnds, CancelSession, Inactive
    <3> HIDE DEF old
    <3> QED BY <2>1, <3>1
  <2>6. CASE AgentStops(s)
    <3> DEFINE data == [Kept(old) EXCEPT !.budget = (agents[s].signal = "budget"),
                                         !.last = IF old.state \in Active THEN old.state ELSE None]
    <3>1. Kept(old) \in Data /\ (Kept(old).auto = TRUE => old.data.auto = TRUE)
        BY <1>1, RowKept DEF IInv
    <3>2. data \in Data /\ data.auto = Kept(old).auto
        BY <3>1 DEF Data
    <3>3. rows' = rows \/ SetRow(s, Transition(old, "paused", data))
        BY <2>6 DEF AgentStops
    <3> HIDE DEF data
    <3>4. Transition(old, "paused", data) \in Row /\ Transition(old, "paused", data).data = data
        BY <1>1, <3>2, Vocabulary, RowWritten
    <3> QED BY <3>1, <3>2, <3>3, <3>4
  <2>7. CASE PauseSession(s)
    BY <2>7 DEF PauseSession
  <2>8. CASE \E phase \in Phases : SetPhase(s, phase)
    <3>1. \E state \in States : SetRow(s, Transition(old, state, Reason(old)))
        BY <2>3, <2>8
    <3> HIDE DEF old
    <3> QED BY <2>1, <3>1
  <2> QED BY <2>4, <2>5, <2>6, <2>7, <2>8
<1>6. /\ rows' \in [Sessions -> Row \cup {None}]
      /\ rows'[s] \in Row
      /\ rows'[s].data.auto = TRUE => rows[s].data.auto = TRUE
      /\ \A t \in Sessions : t # s => rows'[t] = rows[t]
    BY <1>1, <1>5, RowChanged
<1> QED BY <1>1, <1>2, <1>3, <1>4, <1>6, SessionKeeps

(* A step of one caller that writes no row: its call is answered or moves to *)
(* one that the invariant allows.                                            *)
LEMMA CallerKeeps ==
    ASSUME IInv, NEW c \in Callers, NEW call \in Call, Goto(c, call),
           call.op \in {"init", "launch", "approve", "access"} => Exists(call.s),
           call.op \in {"approve", "access"} => c \in Admins,
           call.op \in {"init", "launch"} => ~call.auto,
           call.op = "approve" => call.s \in approved',
           call.op = "access" /\ call.sess.data.auto = TRUE => call.s \in approved',
           approved \subseteq approved', approved' \subseteq Sessions,
           UNCHANGED <<rows, agents, boot, merging>>,
           node' \in {"healthy", "sick", "unreachable"},
           count' \in 0 .. Threshold - 1,
           left' \in [ids : SUBSET Sessions, asks : Nat, restarts : Nat, moves : Nat, flips : Nat]
    PROVE  IInv'
<1> USE DEF IInv
<1>1. /\ calls' \in [Callers -> Call] /\ calls'[c] = call
      /\ \A d \in Callers : d # c => calls'[d] = calls[d]
    BY CallMade
<1>2. TypeOK'
    BY <1>1 DEF TypeOK
<1>3. Backed'
    BY <1>1 DEF Backed, Exists
<1>4. Allowed'
    BY <1>1 DEF Allowed, ApprovalGate, Exists
<1> QED BY <1>2, <1>3, <1>4

(* Requests over the API that only read.                                     *)
LEMMA RequestKeeps ==
    ASSUME IInv, NEW c \in Admins,
           \/ CreateSession(c)
           \/ \E s \in Sessions : ResumeSession(c, s) \/ ApproveSession(c, s)
    PROVE  IInv'
<1>0. c \in Callers
    BY DEF Callers
<1>1. /\ left' \in [ids : SUBSET Sessions, asks : Nat, restarts : Nat, moves : Nat, flips : Nat]
      /\ UNCHANGED <<rows, agents, boot, node, count, merging>>
    BY Spent DEF CreateSession, ResumeSession, ApproveSession, Ask, IInv
<1>2. node' \in {"healthy", "sick", "unreachable"} /\ count' \in 0 .. Threshold - 1
    BY <1>1 DEF IInv, TypeOK
<1>3. CASE CreateSession(c)
  <2>1. PICK auto \in BOOLEAN : Goto(c, [op |-> "running", auto |-> auto])
    BY <1>3 DEF CreateSession
  <2> DEFINE call == [op |-> "running", auto |-> auto]
  <2>2. call \in Call /\ call.op = "running"
    BY DEF Call
  <2>3. approved' = approved /\ approved \subseteq Sessions
    BY <1>3 DEF CreateSession, IInv, TypeOK
  <2> HIDE DEF call
  <2>4. Goto(c, call)
    BY <2>1 DEF call
  <2> QED BY <1>0, <1>1, <1>2, <2>2, <2>3, <2>4, CallerKeeps
<1>4. ASSUME NEW s \in Sessions, ResumeSession(c, s)
      PROVE  IInv'
  <2> DEFINE call == [op |-> "access", s |-> s, sess |-> rows[s]]
  <2>1. Exists(s) /\ rows[s] \in Row /\ Goto(c, call) /\ approved' = approved /\ approved \subseteq Sessions
    BY <1>4 DEF ResumeSession, IInv, TypeOK, Exists
  <2>2. call \in Call /\ call.op = "access" /\ call.s = s /\ call.sess = rows[s]
    BY <2>1 DEF Call
  <2> HIDE DEF call
  <2>3. call.sess.data.auto = TRUE => s \in approved
    BY <2>1, <2>2 DEF IInv, Allowed
  <2> QED BY <1>0, <1>1, <1>2, <2>1, <2>2, <2>3, CallerKeeps
<1>5. ASSUME NEW s \in Sessions, ApproveSession(c, s)
      PROVE  IInv'
  <2> DEFINE call == [op |-> "approve", s |-> s, sess |-> rows[s]]
  <2>1. /\ Exists(s) /\ rows[s] \in Row /\ Goto(c, call)
        /\ approved' = approved \cup {s} /\ approved \subseteq Sessions
    BY <1>5 DEF ApproveSession, IInv, TypeOK, Exists
  <2>2. call \in Call /\ call.op = "approve" /\ call.s = s
    BY <2>1 DEF Call
  <2> HIDE DEF call
  <2> QED BY <1>0, <1>1, <1>2, <2>1, <2>2, CallerKeeps
<1> QED BY <1>3, <1>4, <1>5

(* The write of approve_session.                                             *)
LEMMA ApprovalKeeps ==
    ASSUME IInv, NEW c \in Admins, ApproveTransition(c)
    PROVE  IInv'
<1> USE DEF IInv
<1> DEFINE s == calls[c].s
           data == [calls[c].sess.data EXCEPT !.auto = TRUE, !.budget = FALSE]
           row == Transition(rows[s], "remediating", data)
           call == [calls[c] EXCEPT !.op = "access", !.sess.state = "remediating", !.sess.data = data]
<1>0. c \in Callers /\ calls[c] \in Call /\ calls[c].op = "approve"
    BY DEF Callers, TypeOK, ApproveTransition
<1>1. calls[c] \in [op : {"approve", "access"}, s : Sessions, sess : Row]
    BY <1>0 DEF Call, Idle
<1>2. s \in Sessions /\ Exists(s) /\ rows[s] \in Row /\ s \in approved
    BY <1>0, <1>1 DEF Backed, Exists, TypeOK, Allowed
<1>3. data \in Data
    BY <1>1 DEF Row, Data
<1>4. /\ SetRow(s, row) /\ Goto(c, call)
      /\ UNCHANGED <<agents, boot, node, count, approved, merging, left>>
    BY DEF ApproveTransition
<1>5. row \in Row
  <2> HIDE DEF data
  <2> QED BY <1>2, <1>3, RowWritten, Vocabulary DEF Active
<1>6. call \in Call /\ call.op = "access" /\ call.s = s
  <2>1. [calls[c].sess EXCEPT !.state = "remediating", !.data = data] \in Row
    <3> HIDE DEF data
    <3> QED BY <1>1, <1>3, Vocabulary DEF Row, Active
  <2> HIDE DEF data
  <2> QED BY <1>1, <2>1 DEF Call
<1> HIDE DEF s, data, row, call
<1>7. /\ rows' \in [Sessions -> Row \cup {None}] /\ rows'[s] = row
      /\ \A t \in Sessions : t # s => rows'[t] = rows[t]
    BY <1>2, <1>4, <1>5, RowSet
<1>8. /\ calls' \in [Callers -> Call] /\ calls'[c] = call
      /\ \A d \in Callers : d # c => calls'[d] = calls[d]
    BY <1>0, <1>4, <1>6, CallMade
<1>9. TypeOK'
    BY <1>4, <1>7, <1>8 DEF TypeOK
<1>10. rows'[s] # None
    BY <1>5, <1>7, NoneAssumption
<1>11. Backed'
    BY <1>4, <1>6, <1>7, <1>8, <1>10, CallSession DEF Backed, Exists
<1>12. Allowed'
    BY <1>2, <1>4, <1>6, <1>7, <1>8 DEF Allowed, ApprovalGate, Exists
<1> QED BY <1>9, <1>11, <1>12

(* The hand-over to a new agent, by a user or at startup.                    *)
LEMMA HandoverKeeps ==
    ASSUME IInv,
           \/ \E c \in Admins : Access(c) \/ AccessFails(c)
           \/ \E s \in Sessions : BootResume(s)
    PROVE  IInv'
<1> USE DEF IInv
<1>1. ASSUME NEW c \in Admins, Access(c) \/ AccessFails(c)
      PROVE  IInv'
  <2>0. c \in Callers /\ calls[c] \in Call /\ calls[c].op = "access"
    BY <1>1 DEF Callers, TypeOK, Access, AccessFails
  <2>1. calls[c].s \in Sessions /\ calls[c].sess \in Row /\ Exists(calls[c].s)
    BY <2>0, CallShape DEF Backed
  <2>2. Answer(c) /\ UNCHANGED <<rows, boot, node, count, approved, merging, left>>
    BY <1>1 DEF Access, AccessFails
  <2>3. /\ agents' \in [Sessions -> Agent \cup {None}]
        /\ \A t \in Sessions : t # calls[c].s => agents'[t] = agents[t]
        /\ agents'[calls[c].s] # None /\ agents'[calls[c].s].full
              => AutoApprove(calls[c].sess) \/ (agents[calls[c].s] # None /\ agents[calls[c].s].full)
    <3>1. CASE Access(c)
        BY <2>1, <3>1, Launched, ResumesActive DEF Access
    <3>2. CASE AccessFails(c)
        BY <3>2 DEF AccessFails, TypeOK
    <3> QED BY <1>1, <3>1, <3>2
  <2>4. AutoApprove(calls[c].sess) => calls[c].s \in approved
    BY <2>0 DEF AutoApprove, Allowed
  <2>5. TypeOK'
    BY <2>0, <2>2, <2>3, CallAnswered DEF TypeOK
  <2>6. Backed'
    BY <2>0, <2>1, <2>2, <2>3, CallAnswered DEF Backed, Exists
  <2>7. Allowed'
    BY <2>0, <2>1, <2>2, <2>3, <2>4, CallAnswered DEF Allowed, ApprovalGate, Exists
  <2> QED BY <2>5, <2>6, <2>7
<1>2. ASSUME NEW s \in Sessions, BootResume(s)
      PROVE  IInv'
  <2>1. /\ boot \in [Sessions -> Row \cup {None}] /\ boot[s] \in Row /\ Exists(s)
        /\ boot' = [boot EXCEPT ![s] = None]
        /\ UNCHANGED <<rows, calls, node, count, approved, merging, left>>
    BY <1>2 DEF BootResume, TypeOK, Backed
  <2>2. /\ agents' \in [Sessions -> Agent \cup {None}]
        /\ \A t \in Sessions : t # s => agents'[t] = agents[t]
        /\ agents'[s] # None /\ agents'[s].full
              => AutoApprove(boot[s]) \/ (agents[s] # None /\ agents[s].full)
    <3>1. CASE Launch(s, AutoApprove(boot[s]), ResumeState(boot[s]))
        BY <2>1, <3>1, Launched, ResumesActive
    <3>2. CASE UNCHANGED agents
        BY <3>2 DEF TypeOK
    <3> QED BY <1>2, <3>1, <3>2 DEF BootResume
  <2>3. AutoApprove(boot[s]) => s \in approved
    BY <1>2 DEF BootResume, AutoApprove, Allowed
  <2>4. TypeOK'
    BY <2>1, <2>2 DEF TypeOK
  <2>5. Backed'
    BY <2>1, <2>2 DEF Backed, Exists
  <2>6. Allowed'
    BY <2>1, <2>2, <2>3 DEF Allowed, ApprovalGate, Exists
  <2> QED BY <2>4, <2>5, <2>6
<1> QED BY <1>1, <1>2

(* The auto-trigger loop.                                                    *)
LEMMA TriggerKeeps ==
    ASSUME IInv, AutoTick \/ AutoSpawn
    PROVE  IInv'
<1>0. AutoTrigger \in Callers /\ left' = left /\ approved' = approved /\ UNCHANGED <<rows, agents, boot, node, merging>>
    BY DEF Callers, AutoTick, AutoSpawn
<1>1. /\ left' \in [ids : SUBSET Sessions, asks : Nat, restarts : Nat, moves : Nat, flips : Nat]
      /\ approved' \subseteq Sessions /\ node' \in {"healthy", "sick", "unreachable"}
    BY <1>0 DEF IInv, TypeOK
<1>2. count' \in 0 .. Threshold - 1
    BY HealerAssumption DEF IInv, TypeOK, AutoTick, AutoSpawn
<1>3. \/ UNCHANGED calls
      \/ \E call \in Call : Goto(AutoTrigger, call) /\ call.op \in {"idle", "human", "running"}
  <2>1. Idle \in Call /\ Idle.op = "idle"
    BY DEF Call, Idle
  <2>2. [op |-> "human"] \in Call
    BY DEF Call
  <2>3. \A auto \in BOOLEAN : [op |-> "running", auto |-> auto] \in Call
    BY DEF Call
  <2>4. CASE AutoTick
    BY <2>2, <2>4 DEF AutoTick
  <2>5. CASE AutoSpawn
    <3>1. CASE Answer(AutoTrigger)
        <4> HIDE DEF Idle
        <4> QED BY <2>1, <3>1 DEF Answer, Goto
    <3>2. CASE \E auto \in BOOLEAN : Goto(AutoTrigger, [op |-> "running", auto |-> auto])
        BY <2>3, <3>2
    <3> QED BY <2>5, <3>1, <3>2 DEF AutoSpawn
  <2> QED BY <2>4, <2>5
<1>4. CASE UNCHANGED calls
  <2>1. TypeOK'
    BY <1>0, <1>1, <1>2, <1>4 DEF IInv, TypeOK
  <2>2. Backed' /\ Allowed'
    BY <1>0, <1>4 DEF IInv, Backed, Allowed, ApprovalGate, Exists
  <2> QED BY <2>1, <2>2 DEF IInv
<1>5. CASE \E call \in Call : Goto(AutoTrigger, call) /\ call.op \in {"idle", "human", "running"}
  <2>1. PICK call \in Call : Goto(AutoTrigger, call) /\ call.op \in {"idle", "human", "running"}
    BY <1>5
  <2> QED BY <1>0, <1>1, <1>2, <2>1, CallerKeeps
<1> QED BY <1>3, <1>4, <1>5

(* The node and a restart of the server.                                     *)
LEMMA EnvironmentKeeps ==
    ASSUME IInv, NodeChanges \/ Restart
    PROVE  IInv'
<1> USE DEF IInv
<1>1. left' \in [ids : SUBSET Sessions, asks : Nat, restarts : Nat, moves : Nat, flips : Nat]
    BY Spent DEF NodeChanges, Restart
<1>2. CASE NodeChanges
  <2>1. node' \in {"healthy", "sick", "unreachable"} /\ UNCHANGED <<rows, agents, calls, boot, count, approved, merging>>
    BY <1>2 DEF NodeChanges
  <2>2. TypeOK'
    BY <1>1, <2>1 DEF TypeOK
  <2>3. Backed' /\ Allowed'
    BY <2>1 DEF Backed, Allowed, ApprovalGate, Exists
  <2> QED BY <2>2, <2>3
<1>3. CASE Restart
  <2>1. /\ agents' = [s \in Sessions |-> None]
        /\ boot' = FindResumable
        /\ count' = 0
        /\ UNCHANGED <<rows, node, approved, merging>>
        /\ calls' = [c \in Callers |-> Idle]
    BY <1>3 DEF Restart
  <2>2. calls' \in [Callers -> Call] /\ \A c \in Callers : calls'[c].op = "idle"
    BY <2>1 DEF Call, Idle
  <2>3. /\ boot' \in [Sessions -> Row \cup {None}]
        /\ \A s \in Sessions : boot'[s] # None => Exists(s) /\ boot'[s] = rows[s]
    BY <2>1 DEF FindResumable, TypeOK, Exists
  <2>4. count' \in 0 .. Threshold - 1
    BY <2>1, HealerAssumption
  <2>5. TypeOK'
    BY <1>1, <2>1, <2>2, <2>3, <2>4 DEF TypeOK
  <2>6. Backed'
    BY <2>1, <2>2, <2>3 DEF Backed, Exists
  <2>7. Allowed'
    BY <2>1, <2>2, <2>3 DEF Allowed, ApprovalGate, Exists
  <2> QED BY <2>5, <2>6, <2>7
<1> QED BY <1>2, <1>3

-----------------------------------------------------------------------------
(* Every step of the healer keeps the invariant.                             *)
THEOREM HealerStep == IInv /\ [Next]_vars => IInv'
<1> SUFFICES ASSUME IInv, [Next]_vars PROVE IInv'
    OBVIOUS
<1>1. CASE UNCHANGED vars
  <2>1. TypeOK'
    BY <1>1 DEF vars, IInv, TypeOK
  <2>2. Backed' /\ Allowed'
    BY <1>1 DEF vars, IInv, Backed, Allowed, ApprovalGate, Exists
  <2> QED BY <2>1, <2>2 DEF IInv
<1>2. CASE Next
    BY <1>2, SpawnKeeps, RequestKeeps, ApprovalKeeps, HandoverKeeps, BuildKeeps, AgentKeeps,
       TriggerKeeps, EnvironmentKeeps DEF Next
<1> QED BY <1>1, <1>2

(* The inductive invariant of the healer: types, and auto_approve only where *)
(* somebody allowed it.                                                      *)
THEOREM HealerInvariant == Spec => []IInv
BY HealerInit, HealerStep, PTL DEF Spec

(* The type invariant of rows, agents, calls under way and the boot list.    *)
THEOREM HealerTypes == Spec => []TypeOK
<1>1. IInv => TypeOK
    BY DEF IInv
<1> QED BY HealerInvariant, <1>1, PTL

(* The approval gate (diagnosis_only in build_session_spec) holds for any    *)
(* number of sessions, concurrent users, pauses, approvals and restarts.     *)
THEOREM HealerGate == Spec => []ApprovalGate
<1>1. IInv => ApprovalGate
    BY DEF IInv, Allowed
<1> QED BY HealerInvariant, <1>1, PTL

-----------------------------------------------------------------------------
(* A step that changes neither the row, the agent nor the snapshots of a     *)
(* session, and ends no call on it, does not strand it.                      *)
LEMMA NotStranded ==
    ASSUME NEW s \in Sessions, Stranded(s)', ~Stranded(s),
           rows'[s] = rows[s], agents'[s] = agents[s], boot'[s] = boot[s]
    PROVE  \E c \in Callers : /\ calls[c].op \in {"init", "launch", "approve", "access"}
                              /\ calls[c].s = s
                              /\ calls'[c].op \in {"init", "launch", "approve", "access"} => calls'[c].s # s
BY DEF Stranded, Exists

LEMMA StrandedStep ==
    ASSUME IInv, NEW s \in Sessions, Next, Stranded(s)', ~Stranded(s)
    PROVE  HandoverFailed(s)
<1>0. /\ rows'[s].state \in Active \cup {"created"} /\ agents'[s] = None /\ boot'[s] = None
      /\ \A c \in Callers : calls'[c].op \in {"init", "launch", "approve", "access"} => calls'[c].s # s
    BY DEF Stranded
<1>1. calls \in [Callers -> Call] /\ rows \in [Sessions -> Row \cup {None}] /\ agents \in [Sessions -> Agent \cup {None}]
    BY DEF IInv, TypeOK
<1>2. ASSUME NEW c \in Callers, SpawnStep(c)
      PROVE  FALSE
  <2>1. CASE SpawnRunning(c) \/ SpawnRecent(c)
    <3>1. calls[c].op \in {"running", "recent"} /\ UNCHANGED <<rows, agents, boot>> /\ \A d \in Callers : d # c => calls'[d] = calls[d]
        BY <1>1, <2>1 DEF SpawnRunning, SpawnRecent, Answer, Goto
    <3> QED BY <3>1, <1>0, NotStranded
  <2>2. CASE SpawnCreate(c)
    <3>1. calls[c].op = "create" /\ UNCHANGED <<agents, boot>> /\ \A d \in Callers : d # c => calls'[d] = calls[d]
        BY <1>1, <2>2 DEF SpawnCreate, Answer, Goto
    <3>2. \/ rows'[s] = rows[s]
          \/ calls'[c].op = "init" /\ calls'[c].s = s
      <4>1. CASE Fresh = {}
        BY <2>2, <4>1 DEF SpawnCreate
      <4>2. CASE Fresh # {}
        <5> DEFINE t == CHOOSE u \in Fresh : TRUE
                   row == [state |-> "created", data |-> [NoData EXCEPT !.auto = calls[c].auto],
                           over |-> FALSE, recent |-> TRUE, today |-> FALSE]
                   call == [op |-> "init", s |-> t, auto |-> calls[c].auto]
        <5>1. rows' = [rows EXCEPT ![t] = row] /\ calls' = [calls EXCEPT ![c] = call]
            BY <2>2, <4>2 DEF SpawnCreate, SetRow, Goto
        <5>2. call.op = "init" /\ call.s = t
            OBVIOUS
        <5> HIDE DEF t, row, call
        <5> QED BY <1>1, <5>1, <5>2
      <4> QED BY <4>1, <4>2
    <3> QED BY <1>0, <3>1, <3>2, NotStranded
  <2>3. CASE SpawnInit(c)
    <3>1. /\ calls[c].op = "init" /\ UNCHANGED <<agents, boot>>
          /\ \A d \in Callers : d # c => calls'[d] = calls[d]
          /\ \A t \in Sessions : t # calls[c].s => rows'[t] = rows[t]
        BY <1>1, <2>3 DEF SpawnInit, Goto, SetRow
    <3>2. calls[c] \in [op : {"init", "launch"}, s : Sessions, auto : BOOLEAN]
        BY <1>1, <3>1 DEF Call, Idle
    <3>3. calls'[c] = [calls[c] EXCEPT !.op = "launch"]
        BY <1>1, <2>3 DEF SpawnInit, Goto
    <3>4. calls'[c].op = "launch" /\ calls'[c].s = calls[c].s
        BY <3>2, <3>3
    <3> QED BY <1>0, <3>1, <3>4, NotStranded
  <2>4. CASE SpawnLaunch(c)
    <3>1. /\ calls[c].op = "launch" /\ UNCHANGED <<rows, boot>> /\ calls[c].s \in Sessions
          /\ \A d \in Callers : d # c => calls'[d] = calls[d]
        BY <1>1, <2>4, CallShape DEF SpawnLaunch, Answer
    <3>2. agents'[calls[c].s] # None /\ \A t \in Sessions : t # calls[c].s => agents'[t] = agents[t]
      <4> DEFINE new == [run |-> "building", full |-> calls[c].auto, start |-> "diagnosing", signal |-> "none"]
      <4>1. new \in Agent
        BY <1>1, <3>1, CallShape DEF Agent, Active, Signals
      <4>2. IF agents[calls[c].s] = None THEN agents' = [agents EXCEPT ![calls[c].s] = new] ELSE agents' = agents
        BY <2>4 DEF SpawnLaunch, Launch
      <4> HIDE DEF new
      <4> QED BY <1>1, <3>1, <4>1, <4>2, NoneAssumption
    <3> QED BY <1>0, <3>1, <3>2, NotStranded
  <2> QED BY <1>2, <2>1, <2>2, <2>3, <2>4 DEF SpawnStep
<1>3. ASSUME NEW c \in Admins, NEW t \in Sessions,
             CreateSession(c) \/ ResumeSession(c, t) \/ ApproveSession(c, t)
      PROVE  FALSE
  <2>1. /\ calls[c] = Idle /\ UNCHANGED <<rows, agents, boot>> /\ c \in Callers
        /\ \A d \in Callers : d # c => calls'[d] = calls[d]
    BY <1>1, <1>3 DEF CreateSession, ResumeSession, ApproveSession, Goto, Callers
  <2>2. calls[c].op = "idle"
    BY <2>1 DEF Idle
  <2> QED BY <1>0, <2>1, <2>2, NotStranded
<1>4. ASSUME NEW c \in Admins, CreateSession(c)
      PROVE  FALSE
    BY <1>3, <1>4
<1>5. ASSUME NEW c \in Admins, ApproveTransition(c)
      PROVE  FALSE
  <2>1. /\ calls[c].op = "approve" /\ UNCHANGED <<agents, boot>> /\ c \in Callers
        /\ \A d \in Callers : d # c => calls'[d] = calls[d]
        /\ \A t \in Sessions : t # calls[c].s => rows'[t] = rows[t]
    BY <1>1, <1>5 DEF ApproveTransition, Goto, SetRow, Callers
  <2>2. calls[c] \in [op : {"approve", "access"}, s : Sessions, sess : Row]
    BY <1>1, <2>1 DEF Call, Idle
  <2> DEFINE data == [calls[c].sess.data EXCEPT !.auto = TRUE, !.budget = FALSE]
  <2>3. calls'[c] = [calls[c] EXCEPT !.op = "access", !.sess.state = "remediating", !.sess.data = data]
    BY <1>1, <1>5, <2>1 DEF ApproveTransition, Goto
  <2> HIDE DEF data
  <2>4. calls'[c].op = "access" /\ calls'[c].s = calls[c].s
    BY <2>2, <2>3
  <2> QED BY <1>0, <2>1, <2>4, NotStranded
<1>6. ASSUME NEW c \in Admins, Access(c) \/ AccessFails(c)
      PROVE  HandoverFailed(s)
  <2>1. /\ calls[c].op = "access" /\ UNCHANGED <<rows, boot>> /\ c \in Callers
        /\ \A d \in Callers : d # c => calls'[d] = calls[d]
    BY <1>1, <1>6 DEF Access, AccessFails, Answer, Callers
  <2>2. CASE calls[c].s = s
    BY <2>1, <2>2 DEF HandoverFailed
  <2>3. CASE calls[c].s # s
    <3>1. agents'[s] = agents[s]
        BY <1>1, <1>6, <2>3 DEF Access, AccessFails, Launch
    <3> QED BY <1>0, <2>1, <2>3, <3>1, NotStranded
  <2> QED BY <2>2, <2>3
<1>7. ASSUME NEW t \in Sessions, BootResume(t)
      PROVE  HandoverFailed(s)
  <2>1. CASE t = s
    BY <1>7, <2>1 DEF BootResume, HandoverFailed
  <2>2. CASE t # s
    <3>1. rows'[s] = rows[s] /\ agents'[s] = agents[s] /\ boot'[s] = boot[s] /\ calls' = calls
        BY <1>1, <1>7, <2>2 DEF BootResume, Launch, IInv, TypeOK
    <3> QED BY <1>0, <3>1, NotStranded
  <2> QED BY <2>1, <2>2
<1>8. ASSUME NEW t \in Sessions,
             \/ BuildOk(t) \/ BuildFails(t) \/ PauseSession(t) \/ ExtendBudget(t) \/ CancelSession(t)
             \/ \E phase \in Phases : SetPhase(t, phase)
             \/ Exhausted(t) \/ AgentStops(t) \/ AgentEnds(t) \/ TimePasses(t)
      PROVE  HandoverFailed(s)
  <2>1. boot' = boot /\ calls' = calls
    BY <1>8 DEF BuildOk, BuildFails, PauseSession, ExtendBudget, CancelSession, SetPhase, Exhausted,
                AgentStops, AgentEnds, TimePasses
  <2>2. CASE t # s
    <3>1. rows'[s] = rows[s] /\ agents'[s] = agents[s]
        BY <1>1, <1>8, <2>2 DEF BuildOk, BuildFails, PauseSession, ExtendBudget, CancelSession, SetPhase, Exhausted,
                AgentStops, AgentEnds, TimePasses, SetRow
    <3> QED BY <1>0, <2>1, <3>1, NotStranded
  <2>3. CASE t = s
    <3>1. CASE BuildFails(s) \/ CancelSession(s) \/ AgentEnds(s) \/ AgentStops(s)
      <4>1. CASE AgentStops(s) /\ agents[s].signal = "approval"
        BY <4>1 DEF AgentStops, HandoverFailed
      <4>2. \/ rows' = rows /\ rows[s].state \in Inactive
            \/ \E state \in {"failed", "cancelled", "completed", "paused"}, data \in {Kept(rows[s]),
                    [Kept(rows[s]) EXCEPT !.budget = (agents[s].signal = "budget"),
                        !.last = IF rows[s].state \in Active THEN rows[s].state ELSE None]} :
                        SetRow(s, Transition(rows[s], state, data))
            \/ AgentStops(s) /\ agents[s].signal = "approval"
        BY <3>1 DEF BuildFails, CancelSession, AgentEnds, AgentStops
      <4>3. Exists(s) /\ rows[s] \in Row
        BY <3>1 DEF BuildFails, CancelSession, AgentEnds, AgentStops, IInv, Backed, TypeOK, Exists
      <4>4. ASSUME NEW state \in {"failed", "cancelled", "completed", "paused"}, NEW data, SetRow(s, Transition(rows[s], state, data))
            PROVE  FALSE
        <5>1. rows'[s].state = state
            BY <1>1, <4>3, <4>4 DEF SetRow, Transition, Row
        <5> QED BY <1>0, <5>1 DEF Active
      <4>5. ~(rows' = rows /\ rows[s].state \in Inactive)
        BY <1>0 DEF Active, Inactive
      <4> QED BY <4>1, <4>2, <4>4, <4>5
    <3>2. CASE ExtendBudget(s) \/ TimePasses(s)
      <4>1. agents' = agents /\ Exists(s) /\ rows[s] \in Row
        BY <1>1, <3>2 DEF ExtendBudget, TimePasses, Exists
      <4>2. rows'[s].state = rows[s].state
        BY <1>1, <3>2, <4>1 DEF ExtendBudget, TimePasses, SetRow, Row
      <4> QED BY <1>0, <2>1, <4>1, <4>2 DEF Stranded
    <3>3. CASE BuildOk(s) \/ PauseSession(s) \/ Exhausted(s) \/ \E phase \in Phases : SetPhase(s, phase)
      <4>1. agents[s] # None /\ agents[s] \in Agent
        BY <1>1, <3>3 DEF BuildOk, PauseSession, Exhausted, SetPhase
      <4>2. \/ agents' = agents
            \/ agents' = [agents EXCEPT ![s].run = "running"]
            \/ \E signal \in Signals : agents' = [agents EXCEPT ![s].signal = signal]
        BY <3>3 DEF BuildOk, PauseSession, Exhausted, SetPhase, Signals
      <4>3. /\ [agents[s] EXCEPT !.run = "running"] \in Agent
            /\ \A signal \in Signals : [agents[s] EXCEPT !.signal = signal] \in Agent
        BY <4>1 DEF Agent
      <4>4. agents'[s] # None
        BY <1>1, <4>1, <4>2, <4>3, NoneAssumption
      <4> QED BY <1>0, <4>4
    <3> QED BY <1>8, <2>3, <3>1, <3>2, <3>3
  <2> QED BY <2>2, <2>3
<1>9. ASSUME AutoTick \/ AutoSpawn
      PROVE  FALSE
  <2>1. /\ calls[AutoTrigger].op \in {"idle", "human"} /\ UNCHANGED <<rows, agents, boot>>
        /\ \A d \in Callers : d # AutoTrigger => calls'[d] = calls[d]
    BY <1>1, <1>9 DEF AutoTick, AutoSpawn, Goto, Answer, Idle
  <2> QED BY <1>0, <2>1, NotStranded
<1>10. ASSUME NodeChanges
       PROVE  FALSE
    BY <1>0, <1>10, NotStranded DEF NodeChanges
<1>11. ASSUME Restart
       PROVE  FALSE
  <2>1. rows' = rows /\ boot' = FindResumable /\ rows[s] # None
    BY <1>11 DEF Restart, Stranded, Exists
  <2>2. rows[s].state \notin NonResumable
    BY <1>0, <2>1 DEF NonResumable, Inactive, Active
  <2>3. boot'[s] = rows[s]
    BY <2>1, <2>2 DEF FindResumable, Exists
  <2> QED BY <1>0, <2>1, <2>3
<1> QED BY <1>2, <1>3, <1>4, <1>5, <1>6, <1>7, <1>8, <1>9, <1>10, <1>11 DEF Next

(* Only a failed hand-over leaves a session that the table holds for running *)
(* without anybody to run it.                                                *)
THEOREM HealerStranding == Spec => StrandedOnlyByHandover
<1>1. IInv /\ [Next]_vars => [\A s \in Sessions : Stranded(s)' /\ ~Stranded(s) => HandoverFailed(s)]_vars
    BY StrandedStep
<1> QED BY HealerInvariant, <1>1, PTL DEF Spec, StrandedOnlyByHandover
=============================================================================
