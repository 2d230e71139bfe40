------------------------ MODULE ServiceManagerProofs ------------------------
(***************************************************************************)
(* The daemon's service manager, for any services, versions, budgets of    *)
(* disturbances and configurations: what it takes for registered on its    *)
(* connection is known to the supervisor.                                  *)
(***************************************************************************)
EXTENDS ServiceManager, FiniteSetTheorems, TLAPS

(* The last two conjuncts of the invariant, and what they need.              *)
LinkAgrees ==
    /\ RegisteredIsKnown
    /\ link = "none" => \A s \in Managed : ~svc[s].registered

WireAlone ==
    /\ \A i \in 1..Len(asked) : asked[i].op # "List" => asked[i].name \in Managed
    /\ \A i \in 1..Len(unread), s \in Services \ Managed : unread[i].statuses[s] = None

IntegratedAlone ==
    /\ \A s \in Services \ Managed : ~Known(s) /\ svc[s].phase # "CrashBackoff"
    /\ WireAlone

Coming(s) == Kept(s) \/ Announced(s)

LEMMA InvParts == IInv <=> TypeOK /\ LinkAgrees /\ IntegratedAlone
BY DEF IInv, LinkAgrees, IntegratedAlone, WireAlone

LEMMA ScenarioTyped ==
    ASSUME IInv
    PROVE  /\ scenario \in Scenario
           /\ Managed \subseteq Services /\ None \notin Managed
           /\ scenario.gates \subseteq Gates /\ scenario.versions \subseteq Versions
           /\ scenario.hot \subseteq Services /\ scenario.integrated \subseteq Services
<1>1. scenario \in Scenario
    BY ScenariosAssumption DEF IInv, TypeOK
<1>2. Managed \subseteq Services /\ None \notin Managed
    BY VersionsAssumption DEF Managed
<1> QED BY <1>1, <1>2 DEF Scenario

-----------------------------------------------------------------------------
(* Values that steps write. *)

(* A service state with a field changed is a service state.                  *)
LEMMA PhaseSet ==
    ASSUME NEW r \in ServiceState, NEW p \in Phases
    PROVE  /\ [r EXCEPT !.phase = p] \in ServiceState
           /\ [r EXCEPT !.phase = p].registered = r.registered
           /\ [r EXCEPT !.phase = p].phase = p
BY DEF ServiceState

LEMMA TornDownTyped ==
    ASSUME NEW r \in ServiceState
    PROVE  TornDown(r) \in ServiceState /\ ~TornDown(r).registered /\ TornDown(r).phase = "Stopped"
BY DEF ServiceState, TornDown, Phases

LEMMA NewTyped ==
    ASSUME NEW s
    PROVE  /\ NewService(s) \in ServiceState /\ ~NewService(s).registered
           /\ NewService(s).phase # "CrashBackoff"
           /\ AddedService(s) \in ServiceState /\ ~AddedService(s).registered
           /\ AddedService(s).phase # "CrashBackoff"
<1>1. 0 \in 0 .. Confs
    BY VersionsAssumption
<1>2. /\ NewService(s) \in ServiceState /\ ~NewService(s).registered
      /\ NewService(s).phase # "CrashBackoff"
    BY <1>1 DEF NewService, ServiceState, Phases
<1> QED BY <1>2, PhaseSet DEF AddedService, Phases

LEMMA IdleTyped ==
    Idle \in [at: Stages, gate: Gates, busy: SUBSET Managed, live: SUBSET Managed,
              todo: SUBSET Managed, cur: Managed \cup {None}]
BY DEF Idle, Stages, Gates

(* SetToSeq lists a set of services.                                         *)
LEMMA ListTyped ==
    ASSUME NEW S \in SUBSET Services
    PROVE  SetToSeq(S) \in Seq(Services)
<1>1. IsFiniteSet(S)
    BY VersionsAssumption, FS_Subset
<1>2. Cardinality(S) \in Nat /\ ExistsBijection(1..Cardinality(S), S)
    BY <1>1, FS_CardinalityType
<1>3. \E f \in [1..Cardinality(S) -> S] : IsInjective(f)
    BY <1>2 DEF ExistsBijection, Bijection, Injection
<1>4. SetToSeq(S) \in [1..Cardinality(S) -> S]
    BY <1>3 DEF SetToSeq
<1> QED BY <1>2, <1>4

(* What is left of a budget.                                                 *)
LEMMA SpendTyped ==
    ASSUME IInv, NEW b \in Budgets, Spend(b)
    PROVE  left' \in [Budgets -> Nat]
<1>1. left \in [Budgets -> Nat] /\ left[b] \in Nat /\ left[b] > 0
    BY DEF IInv, TypeOK, Spend
<1>2. left[b] - 1 \in Nat
    BY <1>1
<1> QED BY <1>1, <1>2 DEF Spend

(* Register leaves an entry for its service and those of the others.         *)
LEMMA RegisteredTyped ==
    ASSUME IInv, NEW s \in Services, NEW c \in 1 .. Confs
    PROVE  /\ Registered(s, c) \in [Services -> Entry \cup {None}]
           /\ Registered(s, c)[s] # None
           /\ \A u \in Services : u # s => Registered(s, c)[u] = sup[u]
<1>1. disk[s] \in Versions \cup {None}
    BY DEF IInv, TypeOK
<1>2. sup \in [Services -> Entry \cup {None}]
    BY DEF IInv, TypeOK
<1>3. [conf |-> c, resolved |-> disk[s], bin |-> disk[s]] \in Entry
    BY <1>1 DEF Entry
<1>4. Known(s) => [sup[s] EXCEPT !.conf = c] \in Entry
    BY <1>1, <1>2 DEF Known, Entry
<1>5. CASE Known(s) /\ (sup[s].conf = c \/ s \in scenario.hot)
    BY <1>2, <1>4, <1>5, NoEntryAssumption DEF Registered
<1>6. CASE ~(Known(s) /\ (sup[s].conf = c \/ s \in scenario.hot))
    BY <1>2, <1>3, <1>6, NoEntryAssumption DEF Registered
<1> QED BY <1>5, <1>6

-----------------------------------------------------------------------------
(* The connection. *)

(* Requests are about managed services.                                      *)
Proper(r) == r \in Request /\ (r.op # "List" => r.name \in Managed)

LEMMA RequestsProper ==
    ASSUME IInv, NEW s \in Managed
    PROVE  Proper(Register(s)) /\ Proper(Unregister(s))
<1>1. s \in Services /\ conf[s] \in 1 .. Confs
    BY ScenarioTyped DEF IInv, TypeOK
<1> QED BY <1>1 DEF Proper, Register, Unregister, Request

LEMMA ListProper == Proper(List)
BY DEF Proper, List, Request

(* What a request does to the supervisor's entries.                          *)
LEMMA HandledTyped ==
    ASSUME IInv, NEW r, Proper(r)
    PROVE  /\ Handled(r) \in [Services -> Entry \cup {None}]
           /\ \A u \in Services \ Managed : Handled(r)[u] = None
           /\ r.op = "Register" => Handled(r)[r.name] # None
           /\ \A u \in Services : sup[u] # None /\ ~(r.op = "Unregister" /\ r.name = u)
                                    => Handled(r)[u] # None
<1>1. sup \in [Services -> Entry \cup {None}] /\ \A u \in Services \ Managed : sup[u] = None
    BY DEF IInv, TypeOK, Known
<1>2. CASE r.op = "Register"
    <2>1. r.name \in Services /\ r.name \in Managed /\ r.conf \in 1 .. Confs
        BY <1>2 DEF Proper, Request, List
    <2>2. Handled(r) = Registered(r.name, r.conf)
        BY <1>2 DEF Handled
    <2> QED BY <1>1, <1>2, <2>1, <2>2, RegisteredTyped
<1>3. CASE r.op = "Unregister"
    <2>1. r.name \in Services
        BY <1>3 DEF Proper, Request, List
    <2>2. Handled(r) = [sup EXCEPT ![r.name] = None]
        BY <1>3 DEF Handled
    <2> QED BY <1>1, <1>3, <2>1, <2>2
<1>4. CASE r.op \notin {"Register", "Unregister"}
    BY <1>1, <1>4 DEF Handled
<1> QED BY <1>2, <1>3, <1>4

LEMMA ReplyTyped ==
    ASSUME IInv, NEW r
    PROVE  /\ Reply(r) \in Answer
           /\ \A u \in Services \ Managed : Reply(r).statuses[u] = None
<1>1. sup \in [Services -> Entry \cup {None}] /\ \A u \in Services \ Managed : sup[u] = None
    BY DEF IInv, TypeOK, Known
<1>2. NoStatuses \in [Services -> Entry \cup {None}]
      /\ \A u \in Services : NoStatuses[u] = None
    BY DEF NoStatuses
<1>3. CASE r.op = "List"
    BY <1>1, <1>3 DEF Reply, Answer
<1>4. CASE r.op # "List"
    BY <1>2, <1>4 DEF Reply, Answer
<1> QED BY <1>3, <1>4

(* A request behind the others takes back no other registration, and is one  *)
(* if it registers.                                                          *)
LEMMA AppendAsked ==
    ASSUME IInv, NEW r, Proper(r), asked' = Append(asked, r), sup' = sup, UNCHANGED scenario
    PROVE  /\ asked' \in Seq(Request)
           /\ \A i \in 1..Len(asked') : asked'[i].op # "List" => asked'[i].name \in Managed
           /\ \A u \in Managed : ~(r.op = "Unregister" /\ r.name = u) /\ Coming(u) => Coming(u)'
           /\ r.op = "Register" => Coming(r.name)'
<1>1. asked \in Seq(Request) /\ r \in Request /\ Len(asked) \in Nat
    BY DEF IInv, TypeOK, Proper
<1>2. /\ asked' \in Seq(Request) /\ Len(asked') = Len(asked) + 1
      /\ asked'[Len(asked) + 1] = r
      /\ \A i \in 1..Len(asked) : asked'[i] = asked[i]
    BY <1>1
<1>3. \A i \in 1..Len(asked') : asked'[i].op # "List" => asked'[i].name \in Managed
    <2>1. \A i \in 1..Len(asked') : i = Len(asked) + 1 \/ i \in 1..Len(asked)
        BY <1>1, <1>2
    <2> QED BY <1>2, <2>1 DEF IInv, Proper
<1>4. ASSUME NEW u \in Managed, ~(r.op = "Unregister" /\ r.name = u), Coming(u)
      PROVE  Coming(u)'
    <2>1. \A i \in 1..Len(asked') : i = Len(asked) + 1 \/ i \in 1..Len(asked)
        BY <1>1, <1>2
    <2>2. CASE Kept(u)
        BY <1>2, <1>4, <2>1, <2>2 DEF Coming, Kept, Removing, Known
    <2>3. CASE Announced(u)
        <3>1. PICK i \in 1..Len(asked) : /\ asked[i].op = "Register" /\ asked[i].name = u
                                         /\ \A j \in i..Len(asked) : ~Removing(u, j)
            BY <2>3 DEF Announced
        <3>2. i \in 1..Len(asked') /\ asked'[i].op = "Register" /\ asked'[i].name = u
            BY <1>1, <1>2, <3>1
        <3>3. \A j \in i..Len(asked') : j = Len(asked) + 1 \/ (j \in i..Len(asked) /\ j \in 1..Len(asked))
            BY <1>1, <1>2, <3>1
        <3>4. \A j \in i..Len(asked') : ~(asked'[j].op = "Unregister" /\ asked'[j].name = u)
            BY <1>2, <1>4, <3>1, <3>3 DEF Removing
        <3> QED BY <3>2, <3>4 DEF Coming, Announced, Removing
    <2> QED BY <1>4, <2>2, <2>3 DEF Coming
<1>5. ASSUME r.op = "Register"
      PROVE  Coming(r.name)'
    <2>1. Len(asked') \in 1..Len(asked') /\ asked'[Len(asked')] = r
        BY <1>1, <1>2
    <2>2. \A j \in Len(asked')..Len(asked') : j = Len(asked')
        BY <1>1, <1>2
    <2> QED BY <1>5, <2>1, <2>2 DEF Coming, Announced, Removing
<1> QED BY <1>2, <1>3, <1>4, <1>5

(* A call: what it reads, and what it leaves on the connection.              *)
LEMMA CallKeeps ==
    ASSUME IInv, NEW how \in Outcomes, NEW r, Proper(r), Call(how, r), UNCHANGED <<link, scenario>>
    PROVE  /\ left' \in [Budgets -> Nat]
           /\ sup' \in [Services -> Entry \cup {None}]
           /\ \A u \in Services \ Managed : sup'[u] = None
           /\ asked' \in Seq(Request) /\ unread' \in Seq(Answer) /\ (link # "up" => InStep')
           /\ WireAlone'
           /\ Got(how, r) \in Answer
           /\ \A u \in Services \ Managed : Got(how, r).statuses[u] = None
           /\ Got(how, r).op = "Ok" => link = "up"
           /\ \A u \in Managed : ~(r.op = "Unregister" /\ r.name = u) /\ Coming(u) => Coming(u)'
           /\ r.op = "Register" /\ link = "up" => Coming(r.name)'
<1>1. /\ left \in [Budgets -> Nat] /\ sup \in [Services -> Entry \cup {None}]
      /\ \A u \in Services \ Managed : sup[u] = None
      /\ asked \in Seq(Request) /\ unread \in Seq(Answer) /\ (link # "up" => InStep)
      /\ WireAlone
    BY DEF IInv, TypeOK, Known, WireAlone
<1>2. Managed' = Managed
    BY DEF Managed
<1>3. NoAnswer \in Answer /\ NoAnswer.op # "Ok" /\ \A u \in Services : NoAnswer.statuses[u] = None
    BY DEF NoAnswer, Answer, NoStatuses
<1>4. CASE how = "own" /\ link = "up" /\ InStep /\ sup' = Handled(r) /\ UNCHANGED <<wire, left>>
    <2>1. asked = <<>> /\ unread = <<>> /\ asked' = <<>> /\ unread' = <<>>
        BY <1>4 DEF wire, InStep
    <2>2. Got(how, r) = Reply(r)
        BY <1>4 DEF Got
    <2>3. \A u \in Managed : ~(r.op = "Unregister" /\ r.name = u) /\ Coming(u) => Coming(u)'
        <3>1. Managed \subseteq Services
            BY ScenarioTyped
        <3>2. \A u \in Managed : Coming(u) => sup[u] # None
            BY <2>1 DEF Coming, Kept, Announced, Known
        <3>3. \A u \in Managed : sup'[u] # None => Coming(u)'
            BY <2>1 DEF Coming, Kept, Known
        <3> QED BY <1>4, <3>1, <3>2, <3>3, HandledTyped
    <2>4. r.op = "Register" => Coming(r.name)'
        BY <1>4, <2>1, HandledTyped DEF Coming, Kept, Known
    <2>5. WireAlone' /\ InStep'
        BY <2>1 DEF WireAlone, InStep
    <2> QED BY <1>1, <1>4, <2>1, <2>2, <2>3, <2>4, <2>5, HandledTyped, ReplyTyped
<1>5. CASE /\ how = "earlier" /\ link = "up" /\ unread # <<>>
           /\ asked' = Append(asked, r) /\ unread' = Tail(unread) /\ UNCHANGED <<sup, left>>
    <2>1. Got(how, r) = Head(unread)
        BY <1>5 DEF Got
    <2>2. /\ Head(unread) = unread[1] /\ 1 \in 1..Len(unread)
          /\ unread[1] \in Answer /\ unread' \in Seq(Answer)
          /\ \A i \in 1..Len(unread') : i + 1 \in 1..Len(unread) /\ unread'[i] = unread[i + 1]
        BY <1>1, <1>5
    <2>3. WireAlone'
        BY <1>1, <1>2, <1>5, <2>2, AppendAsked DEF WireAlone
    <2> QED BY <1>1, <1>5, <2>1, <2>2, <2>3, AppendAsked DEF WireAlone
<1>6. CASE /\ how = "none" /\ link = "up" /\ unread = <<>> /\ Spend("fail")
           /\ asked' = Append(asked, r) /\ UNCHANGED <<unread, sup>>
    <2>1. Got(how, r) = NoAnswer
        BY <1>6 DEF Got
    <2>2. WireAlone'
        BY <1>1, <1>2, <1>6, AppendAsked DEF WireAlone
    <2>3. left' \in [Budgets -> Nat]
        BY <1>6, SpendTyped DEF Budgets
    <2> QED BY <1>1, <1>3, <1>6, <2>1, <2>2, <2>3, AppendAsked
<1>7. CASE how = "none" /\ link # "up" /\ UNCHANGED <<wire, sup, left>>
    <2>1. Got(how, r) = NoAnswer
        BY <1>7 DEF Got
    <2>2. asked' = asked /\ unread' = unread
        BY <1>7 DEF wire
    <2>3. WireAlone' /\ (link # "up" => InStep')
        BY <1>1, <1>2, <2>2 DEF WireAlone, InStep
    <2>4. \A u \in Managed : Coming(u) => Coming(u)'
        BY <1>7, <2>2 DEF Coming, Kept, Announced, Removing, Known
    <2> QED BY <1>1, <1>3, <1>7, <2>1, <2>2, <2>3, <2>4
<1> QED BY <1>4, <1>5, <1>6, <1>7 DEF Call

-----------------------------------------------------------------------------
(* Steps that leave the connection and what is registered alone.             *)

(* A step after which no more is registered, nothing less is known and the   *)
(* connection is the one it was keeps LinkAgrees.                            *)
LEMMA LinkKept ==
    ASSUME IInv, UNCHANGED <<scenario, link, wire>>, cut \subseteq cut',
           \A s \in Managed : svc'[s].registered => svc[s].registered,
           \A s \in Managed : Known(s) => Known(s)'
    PROVE  LinkAgrees'
<1>1. Managed' = Managed /\ asked' = asked
    BY DEF Managed, wire
<1>2. \A s \in Managed : Kept(s) \/ Announced(s) => (Kept(s) \/ Announced(s))'
    BY <1>1 DEF Kept, Announced, Removing
<1> QED BY <1>1, <1>2 DEF IInv, LinkAgrees, RegisteredIsKnown

(* So does one after which what is registered, and not cut short, is coming. *)
LEMMA LinkComing ==
    ASSUME IInv, UNCHANGED <<scenario, link>>,
           \A s \in Managed : svc'[s].registered /\ link = "none" => svc[s].registered,
           \A s \in Managed : svc'[s].registered /\ s \notin cut' /\ link = "up" =>
                                \/ Coming(s)'
                                \/ svc[s].registered /\ s \notin cut /\ (Coming(s) => Coming(s)')
    PROVE  LinkAgrees'
<1>1. Managed' = Managed
    BY DEF Managed
<1> QED BY <1>1 DEF IInv, LinkAgrees, RegisteredIsKnown, Coming

LEMMA WireKept ==
    ASSUME IInv, UNCHANGED <<scenario, wire>>
    PROVE  WireAlone'
<1>1. Managed' = Managed /\ asked' = asked /\ unread' = unread
    BY DEF Managed, wire
<1> QED BY <1>1 DEF IInv, WireAlone

LEMMA WireEmpty ==
    ASSUME asked' = <<>>, unread' = <<>>
    PROVE  /\ WireAlone' /\ InStep'
           /\ asked' \in Seq(Request) /\ unread' \in Seq(Answer)
BY DEF WireAlone, InStep

LEMMA AloneKept ==
    ASSUME IInv, UNCHANGED scenario, WireAlone',
           \A s \in Services \ Managed : Known(s)' => Known(s),
           \A s \in Services \ Managed : svc'[s].phase = "CrashBackoff" => svc[s].phase = "CrashBackoff"
    PROVE  IntegratedAlone'
<1>1. Managed' = Managed
    BY DEF Managed
<1> QED BY <1>1 DEF IInv, IntegratedAlone

(* Only managed services are known.                                          *)
LEMMA KnownManaged ==
    ASSUME IInv, NEW s \in Services, Known(s)
    PROVE  s \in Managed
BY DEF IInv

LEMMA CrashInv ==
    ASSUME IInv, NEW s \in Services, Crash(s)
    PROVE  IInv'
<1>1. s \in Managed /\ sup[s] \in Entry
    BY KnownManaged DEF Crash, Up, Known, IInv, TypeOK
<1>2. sup' \in [Services -> Entry \cup {None}] /\ \A u \in Services : Known(u)' <=> Known(u)
    <2>1. [sup[s] EXCEPT !.bin = None] \in Entry
        BY <1>1 DEF Entry
    <2> QED BY <1>1, <2>1, NoEntryAssumption DEF Crash, Known, IInv, TypeOK
<1>3. left' \in [Budgets -> Nat]
    BY SpendTyped DEF Crash, IInv, TypeOK, Budgets
<1>4. notes' \subseteq Managed
    BY <1>1 DEF Crash, Notify, IInv, TypeOK
<1>5. UNCHANGED <<svc, link, wire, due, tick, installs, cut, world>>
    BY DEF Crash
<1>6. LinkAgrees' /\ IntegratedAlone'
    BY <1>2, <1>5, LinkKept, AloneKept, WireKept, ScenarioTyped DEF world
<1>7. TypeOK'
    BY <1>2, <1>3, <1>4, <1>5 DEF wire, InStep, IInv, TypeOK, world, installs, Managed
<1> QED BY <1>6, <1>7 DEF IInv, LinkAgrees, IntegratedAlone, WireAlone

LEMMA RespawnInv ==
    ASSUME IInv, NEW s \in Services, Respawn(s)
    PROVE  IInv'
<1>1. s \in Managed /\ sup[s] \in Entry /\ disk[s] \in Versions \cup {None}
    BY KnownManaged DEF Respawn, Known, IInv, TypeOK
<1>2. sup' \in [Services -> Entry \cup {None}] /\ \A u \in Services : Known(u)' <=> Known(u)
    <2>1. [sup[s] EXCEPT !.bin = disk[s]] \in Entry
        BY <1>1 DEF Entry
    <2> QED BY <1>1, <2>1, NoEntryAssumption DEF Respawn, Known, IInv, TypeOK
<1>4. notes' \subseteq Managed
    BY <1>1 DEF Respawn, Notify, IInv, TypeOK
<1>5. UNCHANGED <<svc, link, wire, due, tick, installs, cut, world, left>>
    BY DEF Respawn
<1>6. LinkAgrees' /\ IntegratedAlone'
    BY <1>2, <1>5, LinkKept, AloneKept, WireKept, ScenarioTyped DEF world
<1>7. TypeOK'
    BY <1>2, <1>4, <1>5 DEF wire, InStep, IInv, TypeOK, world, installs, Managed
<1> QED BY <1>6, <1>7 DEF IInv, LinkAgrees, IntegratedAlone, WireAlone

LEMMA DisconnectInv ==
    ASSUME IInv, NEW died \in BOOLEAN, Disconnect(died)
    PROVE  IInv'
<1>1. left' \in [Budgets -> Nat]
    BY SpendTyped DEF Disconnect, Budgets
<1>2. /\ UNCHANGED <<svc, notes, due, tick, installs, cut, world>>
      /\ link' = "down" /\ asked' = <<>> /\ unread' = <<>>
      /\ sup' = [s \in Services |-> None] \/ sup' = sup
    BY DEF Disconnect
<1>3. \A s \in Services \ Managed : Known(s)' => Known(s)
    BY <1>2 DEF Known
<1>4. IntegratedAlone'
    BY <1>2, <1>3, AloneKept, WireEmpty DEF world
<1>5. LinkAgrees'
    BY <1>2 DEF LinkAgrees, RegisteredIsKnown
<1>6. TypeOK'
    <2>1. sup' \in [Services -> Entry \cup {None}]
        BY <1>2 DEF IInv, TypeOK
    <2> QED BY <1>1, <1>2, <2>1, WireEmpty DEF IInv, TypeOK, world, installs, Managed
<1> QED BY <1>4, <1>5, <1>6 DEF IInv, LinkAgrees, IntegratedAlone, WireAlone

(* The supervisor serves a request that was given up: what it takes away is   *)
(* registered again behind it, or cut short.                                 *)
LEMMA ServeInv ==
    ASSUME IInv, Serve
    PROVE  IInv'
<1> DEFINE r == Head(asked)
<1>1. /\ link = "up" /\ asked # <<>> /\ sup' = Handled(r)
      /\ unread' = Append(unread, Reply(r)) /\ asked' = Tail(asked)
      /\ UNCHANGED <<svc, link, notes, due, tick, installs, cut, world, left>>
    BY DEF Serve
<1>2. asked \in Seq(Request) /\ unread \in Seq(Answer)
    BY DEF IInv, TypeOK
<1>3. /\ r = asked[1] /\ 1 \in 1..Len(asked) /\ asked[1] \in Request
      /\ asked' \in Seq(Request) /\ Len(asked') = Len(asked) - 1
      /\ \A i \in 1..Len(asked') : i + 1 \in 1..Len(asked) /\ asked'[i] = asked[i + 1]
    BY <1>1, <1>2
<1>4. Proper(r)
    BY <1>3 DEF Proper, IInv
<1>5. Managed' = Managed /\ Managed \subseteq Services
    BY <1>1, ScenarioTyped DEF Managed, world
<1> HIDE DEF r
<1>6. /\ unread' \in Seq(Answer) /\ Len(unread') = Len(unread) + 1
      /\ \A i \in 1..Len(unread) : unread'[i] = unread[i]
      /\ unread'[Len(unread) + 1] = Reply(r)
    BY <1>1, <1>2, ReplyTyped
<1>7. WireAlone'
    <2>1. \A i \in 1..Len(asked') : asked'[i].op # "List" => asked'[i].name \in Managed
        BY <1>3 DEF IInv
    <2>2. \A i \in 1..Len(unread') : i \in 1..Len(unread) \/ i = Len(unread) + 1
        BY <1>2, <1>6
    <2>3. \A i \in 1..Len(unread'), u \in Services \ Managed : unread'[i].statuses[u] = None
        BY <1>6, <2>2, ReplyTyped DEF IInv
    <2> QED BY <1>5, <2>1, <2>3 DEF WireAlone
<1>8. ASSUME NEW u \in Managed, Coming(u)
      PROVE  Coming(u)'
    <2>1. CASE Kept(u)
        <3>1. ~(r.op = "Unregister" /\ r.name = u)
            BY <1>3, <2>1 DEF Kept, Removing
        <3>2. sup'[u] # None
            BY <1>1, <1>4, <1>5, <2>1, <3>1, HandledTyped DEF Kept, Known
        <3>3. \A i \in 1..Len(asked') : ~(asked'[i].op = "Unregister" /\ asked'[i].name = u)
            BY <1>3, <2>1 DEF Kept, Removing
        <3> QED BY <3>2, <3>3 DEF Coming, Kept, Known, Removing
    <2>2. CASE Announced(u)
        <3>1. PICK i \in 1..Len(asked) : /\ asked[i].op = "Register" /\ asked[i].name = u
                                         /\ \A j \in i..Len(asked) : ~Removing(u, j)
            BY <2>2 DEF Announced
        <3>2. CASE i = 1
            <4>1. sup'[u] # None
                BY <1>1, <1>3, <1>4, <3>1, <3>2, HandledTyped
            <4>2. \A k \in 1..Len(asked') : k + 1 \in i..Len(asked)
                BY <1>2, <1>3, <3>2
            <4>3. \A k \in 1..Len(asked') : ~(asked'[k].op = "Unregister" /\ asked'[k].name = u)
                BY <1>3, <3>1, <4>2 DEF Removing
            <4> QED BY <4>1, <4>3 DEF Coming, Kept, Known, Removing
        <3>3. CASE i # 1
            <4>1. i - 1 \in 1..Len(asked') /\ asked'[i - 1] = asked[i]
                BY <1>2, <1>3, <3>1, <3>3
            <4>2. \A k \in (i - 1)..Len(asked') : k \in 1..Len(asked') /\ k + 1 \in i..Len(asked)
                BY <1>2, <1>3, <3>1, <3>3
            <4>3. \A k \in (i - 1)..Len(asked') : ~(asked'[k].op = "Unregister" /\ asked'[k].name = u)
                BY <1>3, <3>1, <4>2 DEF Removing
            <4> QED BY <3>1, <4>1, <4>3 DEF Coming, Announced, Removing
        <3> QED BY <3>2, <3>3
    <2> QED BY <1>8, <2>1, <2>2 DEF Coming
<1>9. LinkAgrees'
    BY <1>1, <1>8, LinkComing DEF world
<1>10. /\ sup' \in [Services -> Entry \cup {None}]
       /\ \A u \in Services \ Managed : sup'[u] = None
    BY <1>1, <1>4, HandledTyped
<1>11. IntegratedAlone'
    BY <1>1, <1>7, <1>10, AloneKept DEF world, Known
<1>12. TypeOK'
    BY <1>1, <1>3, <1>6, <1>10 DEF IInv, TypeOK, installs, world, Managed
<1> QED BY <1>9, <1>11, <1>12 DEF IInv, LinkAgrees, IntegratedAlone, WireAlone

(* A step that changes neither the services nor the connection nor the       *)
(* supervisor keeps the invariant when it keeps the types.                   *)
LEMMA AsideInv ==
    ASSUME IInv, UNCHANGED <<scenario, svc, link, wire, sup, cut>>, TypeOK'
    PROVE  IInv'
<1>1. LinkAgrees' /\ IntegratedAlone'
    BY LinkKept, AloneKept, WireKept, ScenarioTyped DEF Known
<1> QED BY <1>1 DEF IInv, LinkAgrees, IntegratedAlone, WireAlone

LEMMA PinMovesInv ==
    ASSUME IInv, PinMoves
    PROVE  IInv'
<1>1. left' \in [Budgets -> Nat] /\ pin' \in Versions
    BY SpendTyped, ScenarioTyped DEF PinMoves, Budgets
<1>2. UNCHANGED <<manager, scenario, sup, disk, conf>>
    BY DEF PinMoves
<1>3. TypeOK'
    BY <1>1, <1>2 DEF wire, InStep, IInv, TypeOK, manager, Managed
<1> QED BY <1>2, <1>3, AsideInv DEF manager

LEMMA BinaryChangesInv ==
    ASSUME IInv, NEW s \in Services, BinaryChanges(s)
    PROVE  IInv'
<1>1. left' \in [Budgets -> Nat]
    BY SpendTyped DEF BinaryChanges, Budgets
<1>2. PICK v \in scenario.versions : disk' = [disk EXCEPT ![s] = v]
    BY DEF BinaryChanges
<1>3. disk' \in [Services -> Versions \cup {None}]
    BY <1>2, ScenarioTyped DEF IInv, TypeOK
<1>4. UNCHANGED <<manager, scenario, sup, pin, conf>>
    BY DEF BinaryChanges
<1>5. TypeOK'
    BY <1>1, <1>3, <1>4 DEF wire, InStep, IInv, TypeOK, manager, Managed
<1> QED BY <1>4, <1>5, AsideInv DEF manager

LEMMA EnvFileChangesInv ==
    ASSUME IInv, NEW s \in Services, EnvFileChanges(s)
    PROVE  IInv'
<1>1. left' \in [Budgets -> Nat]
    BY SpendTyped DEF EnvFileChanges, Budgets
<1>2. conf[s] + 1 \in 1 .. Confs
    BY VersionsAssumption DEF EnvFileChanges, IInv, TypeOK
<1>3. conf' \in [Services -> 1 .. Confs]
    BY <1>2 DEF EnvFileChanges, IInv, TypeOK
<1>4. UNCHANGED <<manager, scenario, sup, disk, pin>>
    BY DEF EnvFileChanges
<1>5. TypeOK'
    BY <1>1, <1>3, <1>4 DEF wire, InStep, IInv, TypeOK, manager, Managed
<1> QED BY <1>4, <1>5, AsideInv DEF manager

LEMMA BackoffElapsesInv ==
    ASSUME IInv, BackoffElapses
    PROVE  IInv'
<1>1. due' \subseteq Managed
    BY DEF BackoffElapses, IInv
<1>2. UNCHANGED <<svc, link, wire, notes, tick, installs, cut, outside>>
    BY DEF BackoffElapses
<1>3. TypeOK'
    BY <1>1, <1>2 DEF wire, InStep, IInv, TypeOK, installs, outside, Managed
<1> QED BY <1>2, <1>3, AsideInv DEF outside

-----------------------------------------------------------------------------
(* Installation. *)

LEMMA InstallNextInv ==
    ASSUME IInv, NEW ok \in BOOLEAN, InstallNext(ok)
    PROVE  IInv'
<1> DEFINE s == Head(queue)
<1>1. queue \in Seq(Services) /\ queue # <<>>
    BY DEF InstallNext, IInv, TypeOK
<1>2. s \in Services /\ Tail(queue) \in Seq(Services)
    BY <1>1
<1>3. left' \in [Budgets -> Nat]
    BY SpendTyped DEF InstallNext, IInv, TypeOK, Budgets
<1>4. disk' \in [Services -> Versions \cup {None}]
    BY <1>2 DEF InstallNext, IInv, TypeOK
<1>5. updates' \in Seq([name: Services, ok: BOOLEAN]) /\ Len(updates') <= 4
    <2>1. updates \in Seq([name: Services, ok: BOOLEAN]) /\ Len(updates) < 4
        BY DEF InstallNext, IInv, TypeOK
    <2>2. [name |-> s, ok |-> ok] \in [name: Services, ok: BOOLEAN]
        BY <1>2
    <2>3. updates' = Append(updates, [name |-> s, ok |-> ok])
        BY DEF InstallNext
    <2> HIDE DEF s
    <2> QED BY <2>1, <2>2, <2>3
<1>6. /\ UNCHANGED <<svc, link, wire, notes, due, tick, rx, cut, scenario, sup, pin, conf>>
      /\ queue' = Tail(queue)
    BY DEF InstallNext
<1>7. TypeOK'
    BY <1>2, <1>3, <1>4, <1>5, <1>6 DEF wire, InStep, IInv, TypeOK, Managed
<1> QED BY <1>6, <1>7, AsideInv

LEMMA HandleInstallUpdateInv ==
    ASSUME IInv, HandleInstallUpdate
    PROVE  IInv'
<1> DEFINE u == Head(updates)
           R == [name: Services, ok: BOOLEAN]
<1>1. updates \in Seq(R) /\ updates # <<>> /\ Len(updates) <= 4
    BY DEF HandleInstallUpdate, IInv, TypeOK
<1>2. u \in R /\ Tail(updates) \in Seq(R) /\ Len(Tail(updates)) <= 4
    <2> HIDE DEF R
    <2> QED BY <1>1
<1>3. u.name \in Services /\ svc[u.name] \in ServiceState
    BY <1>2 DEF IInv, TypeOK
<1> DEFINE new == IF ~u.ok THEN [svc[u.name] EXCEPT !.phase = "InstallFailed"]
                  ELSE IF u.name \in Managed
                  THEN [svc[u.name] EXCEPT !.phase = "Stopped", !.registered = FALSE]
                  ELSE [svc[u.name] EXCEPT !.phase = "Starting", !.registered = TRUE]
<1>4. /\ new \in ServiceState /\ new.phase # "CrashBackoff"
      /\ u.name \in Managed /\ new.registered => svc[u.name].registered
    <2> HIDE DEF u
    <2> QED BY <1>3 DEF ServiceState, Phases
<1>5. /\ UNCHANGED <<link, wire, notes, due, tick, rx, queue, cut, outside>>
      /\ svc' = [svc EXCEPT ![u.name] = new] /\ updates' = Tail(updates)
    BY DEF HandleInstallUpdate
<1>6. /\ svc' \in [Services -> ServiceState]
      /\ \A s \in Managed : svc'[s].registered => svc[s].registered
      /\ \A s \in Services \ Managed :
            svc'[s].phase = "CrashBackoff" => svc[s].phase = "CrashBackoff"
    <2> HIDE DEF new, u
    <2> QED BY <1>3, <1>4, <1>5, ScenarioTyped DEF IInv, TypeOK
<1>7. LinkAgrees' /\ IntegratedAlone'
    BY <1>5, <1>6, LinkKept, AloneKept, WireKept DEF outside, Known
<1>8. TypeOK'
    BY <1>2, <1>5, <1>6 DEF wire, InStep, IInv, TypeOK, outside, Managed
<1> QED BY <1>7, <1>8 DEF IInv, LinkAgrees, IntegratedAlone, WireAlone

LEMMA FinishInstallsInv ==
    ASSUME IInv, FinishInstalls
    PROVE  IInv'
<1>1. UNCHANGED <<svc, link, wire, notes, due, tick, queue, updates, cut, outside>> /\ rx' = FALSE
    BY DEF FinishInstalls
<1>2. TypeOK'
    BY <1>1 DEF wire, InStep, IInv, TypeOK, outside, Managed
<1> QED BY <1>1, <1>2, AsideInv DEF outside

(* retry_failed_installs registers nothing and backs nothing off.            *)
LEMMA RetryTyped ==
    ASSUME IInv, NEW st \in [Services -> ServiceState], RetryFailedInstalls(st)
    PROVE  /\ svc' \in [Services -> ServiceState]
           /\ queue' \in Seq(Services) /\ rx' \in BOOLEAN /\ updates' = updates
           /\ \A s \in Services : svc'[s].registered = st[s].registered
           /\ \A s \in Services : svc'[s].phase = "CrashBackoff" => st[s].phase = "CrashBackoff"
<1> DEFINE failed == {s \in Services : st[s].phase = "InstallFailed"}
           requeued == [s \in Services |->
                          IF s \in failed THEN [st[s] EXCEPT !.phase = "Installing"] ELSE st[s]]
<1>1. CASE rx \/ failed = {}
    BY <1>1 DEF RetryFailedInstalls, installs, IInv, TypeOK
<1>2. CASE ~(rx \/ failed = {})
    <2>1. svc' = requeued /\ rx' = TRUE /\ UNCHANGED updates
          /\ queue' = SetToSeq({s \in Services : requeued[s].phase = "Installing"})
        BY <1>2 DEF RetryFailedInstalls
    <2>2. queue' \in Seq(Services)
        BY <2>1, ListTyped
    <2>3. \A s \in Services :
            /\ requeued[s] \in ServiceState /\ requeued[s].registered = st[s].registered
            /\ requeued[s].phase = "CrashBackoff" => st[s].phase = "CrashBackoff"
        BY PhaseSet DEF Phases
    <2>4. svc' \in [Services -> ServiceState]
        BY <2>1, <2>3
    <2> QED BY <2>1, <2>2, <2>3, <2>4
<1> QED BY <1>1, <1>2

-----------------------------------------------------------------------------
(* The other handlers of the loop. *)

(* check_upgrades marks services and puts the pinned version on disk.        *)
LEMMA UpgradedTyped ==
    ASSUME IInv, NEW st \in [Services -> ServiceState], NEW which, CheckUpgrades(which)
    PROVE  /\ Upgraded(st, which) \in [Services -> ServiceState]
           /\ disk' \in [Services -> Versions \cup {None}]
           /\ \A s \in Services : /\ Upgraded(st, which)[s].registered = st[s].registered
                                  /\ Upgraded(st, which)[s].phase = st[s].phase
<1>1. \A s \in Services :
        /\ [st[s] EXCEPT !.upgrade = TRUE] \in ServiceState
        /\ [st[s] EXCEPT !.upgrade = TRUE].registered = st[s].registered
        /\ [st[s] EXCEPT !.upgrade = TRUE].phase = st[s].phase
    BY DEF ServiceState
<1>2. \A s \in Services :
        /\ Upgraded(st, which)[s] \in ServiceState
        /\ Upgraded(st, which)[s].registered = st[s].registered
        /\ Upgraded(st, which)[s].phase = st[s].phase
    BY <1>1 DEF Upgraded
<1>3. Upgraded(st, which) \in [Services -> ServiceState]
    BY <1>2 DEF Upgraded
<1>4. disk' \in [Services -> Versions \cup {None}]
    BY DEF CheckUpgrades, IInv, TypeOK
<1> QED BY <1>2, <1>3, <1>4

(* A connection that is dropped takes every registration with it.            *)
LEMMA TornTyped ==
    ASSUME IInv
    PROVE  /\ [s \in Services |-> TornDown(svc[s])] \in [Services -> ServiceState]
           /\ \A s \in Services : /\ ~[u \in Services |-> TornDown(svc[u])][s].registered
                                  /\ [u \in Services |-> TornDown(svc[u])][s].phase = "Stopped"
<1>1. \A s \in Services : svc[s] \in ServiceState
    BY DEF IInv, TypeOK
<1> QED BY <1>1, TornDownTyped

(* A step after which nothing is registered keeps LinkAgrees.                *)
LEMMA NothingRegistered ==
    ASSUME IInv, UNCHANGED scenario, \A s \in Managed : ~svc'[s].registered
    PROVE  LinkAgrees'
<1>1. Managed' = Managed
    BY DEF Managed
<1> QED BY <1>1 DEF LinkAgrees, RegisteredIsKnown

LEMMA HandleUpdateInv ==
    ASSUME IInv, NEW torn \in BOOLEAN, NEW failing \in SUBSET Services,
           HandleUpdate(torn, failing)
    PROVE  IInv'
<1> DEFINE st == IF torn THEN [s \in Services |-> TornDown(svc[s])] ELSE svc
           which == Upgradable(st, failing)
<1>1. /\ torn => link # "none" /\ left["link"] > 0
      /\ failing # {} => left["fail"] > 0
      /\ left' = [left EXCEPT !["link"] = IF torn THEN @ - 1 ELSE @,
                              !["fail"] = IF failing # {} THEN @ - 1 ELSE @]
      /\ link' = IF torn THEN "none" ELSE link
      /\ asked' = (IF torn THEN <<>> ELSE asked) /\ unread' = (IF torn THEN <<>> ELSE unread)
      /\ notes' = IF torn THEN {} ELSE notes
      /\ svc' = Upgraded(st, which) /\ CheckUpgrades(which)
      /\ UNCHANGED <<due, tick, installs, cut, scenario, sup, pin, conf>>
    BY DEF HandleUpdate
<1>2. st \in [Services -> ServiceState]
    BY TornTyped DEF IInv, TypeOK
<1>3. /\ svc' \in [Services -> ServiceState]
      /\ disk' \in [Services -> Versions \cup {None}]
      /\ \A s \in Services : svc'[s].registered = st[s].registered /\ svc'[s].phase = st[s].phase
    <2> HIDE DEF which, st
    <2> QED BY <1>1, <1>2, UpgradedTyped
<1>4. left' \in [Budgets -> Nat]
    <2>1. left \in [Budgets -> Nat] /\ "link" \in Budgets /\ "fail" \in Budgets
        BY DEF IInv, TypeOK, Budgets
    <2>2. torn => left["link"] - 1 \in Nat
        BY <1>1, <2>1
    <2>3. failing # {} => left["fail"] - 1 \in Nat
        BY <1>1, <2>1
    <2> QED BY <1>1, <2>1, <2>2, <2>3
<1>5. ~torn => UNCHANGED <<link, wire>>
    BY <1>1 DEF wire
<1>6. LinkAgrees'
    <2>1. CASE torn
        BY <1>1, <1>3, <2>1, TornTyped, NothingRegistered, ScenarioTyped
    <2>2. CASE ~torn
        BY <1>1, <1>3, <1>5, <2>2, LinkKept, ScenarioTyped DEF Known
    <2> QED BY <2>1, <2>2
<1>7. IntegratedAlone'
    <2>1. CASE torn
        BY <1>1, <1>3, <2>1, TornTyped, AloneKept, WireEmpty DEF Known
    <2>2. CASE ~torn
        BY <1>1, <1>3, <1>5, <2>2, AloneKept, WireKept DEF Known
    <2> QED BY <2>1, <2>2
<1>8. TypeOK'
    <2>1. asked' \in Seq(Request) /\ unread' \in Seq(Answer) /\ (link' # "up" => InStep')
        <3>1. CASE torn
            BY <1>1, <3>1, WireEmpty
        <3>2. CASE ~torn
            BY <1>1, <3>2 DEF IInv, TypeOK, InStep
        <3> QED BY <3>1, <3>2
    <2> QED BY <1>1, <1>3, <1>4, <2>1 DEF IInv, TypeOK, installs, Managed
<1> QED BY <1>6, <1>7, <1>8 DEF IInv, LinkAgrees, IntegratedAlone, WireAlone

LEMMA PushSelfUpdateInv ==
    ASSUME IInv, PushSelfUpdate
    PROVE  IInv'
<1>1. left' \in [Budgets -> Nat]
    BY SpendTyped DEF PushSelfUpdate, Budgets
<1>2. /\ link' = "none" /\ asked' = <<>> /\ unread' = <<>> /\ notes' = {}
      /\ svc' = [s \in Services |-> TornDown(svc[s])]
      /\ UNCHANGED <<due, tick, installs, cut, world, sup>>
    BY DEF PushSelfUpdate
<1>3. svc' \in [Services -> ServiceState]
      /\ \A s \in Services : ~svc'[s].registered /\ svc'[s].phase = "Stopped"
    BY <1>2, TornTyped
<1>4. LinkAgrees' /\ IntegratedAlone'
    BY <1>2, <1>3, NothingRegistered, AloneKept, WireEmpty, ScenarioTyped DEF world, Known
<1>5. TypeOK'
    BY <1>1, <1>2, <1>3, WireEmpty DEF IInv, TypeOK, installs, world, Managed
<1> QED BY <1>4, <1>5 DEF IInv, LinkAgrees, IntegratedAlone, WireAlone

LEMMA PushSyncNixpkgsInv ==
    ASSUME IInv, NEW failing \in SUBSET Services, PushSyncNixpkgs(failing)
    PROVE  IInv'
<1> DEFINE which == Upgradable(svc, failing)
           st == Upgraded(svc, which)
<1>1. left' \in [Budgets -> Nat]
    BY SpendTyped DEF PushSyncNixpkgs, IInv, TypeOK, Budgets
<1>2. /\ CheckUpgrades(which) /\ RetryFailedInstalls(st)
      /\ UNCHANGED <<link, wire, notes, due, tick, cut, scenario, sup, pin, conf>>
    BY DEF PushSyncNixpkgs
<1>3. svc \in [Services -> ServiceState]
    BY DEF IInv, TypeOK
<1>4. /\ st \in [Services -> ServiceState]
      /\ disk' \in [Services -> Versions \cup {None}]
      /\ \A s \in Services : st[s].registered = svc[s].registered /\ st[s].phase = svc[s].phase
    <2> HIDE DEF which
    <2> QED BY <1>2, <1>3, UpgradedTyped
<1> HIDE DEF st
<1>5. /\ svc' \in [Services -> ServiceState]
      /\ queue' \in Seq(Services) /\ rx' \in BOOLEAN /\ updates' = updates
      /\ \A s \in Services : svc'[s].registered = svc[s].registered
      /\ \A s \in Services : svc'[s].phase = "CrashBackoff" => svc[s].phase = "CrashBackoff"
    BY <1>2, <1>4, RetryTyped
<1>6. LinkAgrees' /\ IntegratedAlone'
    BY <1>2, <1>5, LinkKept, AloneKept, WireKept, ScenarioTyped DEF Known
<1>7. TypeOK'
    BY <1>1, <1>2, <1>4, <1>5 DEF wire, InStep, IInv, TypeOK, Managed
<1> QED BY <1>6, <1>7 DEF IInv, LinkAgrees, IntegratedAlone, WireAlone

LEMMA ConfigPollInv ==
    ASSUME IInv, ConfigPoll
    PROVE  IInv'
<1>1. RetryFailedInstalls(svc) /\ UNCHANGED <<link, wire, notes, due, tick, cut, outside>>
    BY DEF ConfigPoll
<1>2. svc \in [Services -> ServiceState]
    BY DEF IInv, TypeOK
<1>3. /\ svc' \in [Services -> ServiceState]
      /\ queue' \in Seq(Services) /\ rx' \in BOOLEAN /\ updates' = updates
      /\ \A s \in Services : svc'[s].registered = svc[s].registered
      /\ \A s \in Services : svc'[s].phase = "CrashBackoff" => svc[s].phase = "CrashBackoff"
    BY <1>1, <1>2, RetryTyped
<1>4. LinkAgrees' /\ IntegratedAlone'
    BY <1>1, <1>3, LinkKept, AloneKept, WireKept, ScenarioTyped DEF Known, outside
<1>5. TypeOK'
    BY <1>1, <1>3 DEF wire, InStep, IInv, TypeOK, outside, Managed
<1> QED BY <1>4, <1>5 DEF IInv, LinkAgrees, IntegratedAlone, WireAlone

LEMMA ConfigReloadInv ==
    ASSUME IInv, NEW failing \in SUBSET Services, ConfigReload(failing)
    PROVE  IInv'
<1> DEFINE reloading == scenario.hot \ failing
           st == ScheduleRestart(failing)
<1>1. left' \in [Budgets -> Nat]
    BY SpendTyped DEF ConfigReload, Budgets
<1>2. /\ \A s \in Managed : conf[s] < Confs
      /\ conf' = [s \in Services |-> IF s \in Managed THEN conf[s] + 1 ELSE conf[s]]
      /\ sup' = [s \in Services |-> IF s \in reloading /\ Known(s)
                                    THEN [sup[s] EXCEPT !.conf = conf[s] + 1] ELSE sup[s]]
      /\ RetryFailedInstalls(st)
      /\ UNCHANGED <<link, wire, notes, due, tick, cut, scenario, disk, pin>>
    BY DEF ConfigReload
<1>3. \A s \in Managed : s \in Services /\ conf[s] + 1 \in 1 .. Confs
    BY <1>2, ScenarioTyped, VersionsAssumption DEF IInv, TypeOK
<1>4. conf' \in [Services -> 1 .. Confs]
    BY <1>2, <1>3 DEF IInv, TypeOK
<1>5. \A s \in Services : Known(s) => [sup[s] EXCEPT !.conf = conf[s] + 1] \in Entry
    BY <1>3, KnownManaged DEF Known, IInv, TypeOK, Entry
<1>6. sup' \in [Services -> Entry \cup {None}] /\ \A s \in Services : Known(s)' <=> Known(s)
    BY <1>2, <1>5, NoEntryAssumption DEF Known, IInv, TypeOK
<1>7. \A s \in Services :
        /\ [svc[s] EXCEPT !.restart = TRUE] \in ServiceState
        /\ [svc[s] EXCEPT !.restart = TRUE].registered = svc[s].registered
        /\ [svc[s] EXCEPT !.restart = TRUE].phase = svc[s].phase
    <2>1. \A s \in Services : svc[s] \in ServiceState
        BY DEF IInv, TypeOK
    <2> QED BY <2>1 DEF ServiceState
<1>8. /\ st \in [Services -> ServiceState]
      /\ \A s \in Services : st[s].registered = svc[s].registered /\ st[s].phase = svc[s].phase
    BY <1>7 DEF ScheduleRestart, IInv, TypeOK
<1> HIDE DEF st, reloading
<1>9. /\ svc' \in [Services -> ServiceState]
      /\ queue' \in Seq(Services) /\ rx' \in BOOLEAN /\ updates' = updates
      /\ \A s \in Services : svc'[s].registered = svc[s].registered
      /\ \A s \in Services : svc'[s].phase = "CrashBackoff" => svc[s].phase = "CrashBackoff"
    BY <1>2, <1>8, RetryTyped
<1>10. LinkAgrees' /\ IntegratedAlone'
    BY <1>2, <1>6, <1>9, LinkKept, AloneKept, WireKept, ScenarioTyped
<1>11. TypeOK'
    BY <1>1, <1>2, <1>4, <1>6, <1>9 DEF wire, InStep, IInv, TypeOK, Managed
<1> QED BY <1>10, <1>11 DEF IInv, LinkAgrees, IntegratedAlone, WireAlone

-----------------------------------------------------------------------------
(* The health tick. *)

TickType ==
    [at: Stages, gate: Gates, busy: SUBSET Managed, live: SUBSET Managed,
     todo: SUBSET Managed, cur: Managed \cup {None}]

(* A connection found broken is dropped with what was registered on it; one  *)
(* that was never there has nothing to drop.                                 *)
LEMMA TickBeginInv ==
    ASSUME IInv, NEW gate \in Gates, NEW busy \in SUBSET Services, NEW connects \in BOOLEAN,
           TickBegin(gate, busy, connects)
    PROVE  IInv'
<1> DEFINE st == IF link = "down" THEN [s \in Services |-> TornDown(svc[s])] ELSE svc
           todo == Unregistered(st)
<1>1. left' \in [Budgets -> Nat]
    BY SpendTyped DEF TickBegin, IInv, TypeOK, Budgets
<1>2. /\ busy \subseteq Managed
      /\ ~connects => link # "up"
      /\ svc' = st
      /\ notes' = IF link = "up" THEN notes ELSE {}
      /\ link' = IF connects THEN "up" ELSE "none"
      /\ tick' = IF connects
                 THEN [at |-> IF todo = {} THEN "refresh" ELSE "register",
                       gate |-> gate, busy |-> busy, live |-> {}, todo |-> todo,
                       cur |-> None]
                 ELSE Idle
      /\ UNCHANGED <<wire, due, installs, cut, world, sup>>
    BY DEF TickBegin
<1>3. /\ st \in [Services -> ServiceState]
      /\ \A s \in Services : st[s].phase = "CrashBackoff" => svc[s].phase = "CrashBackoff"
    BY TornTyped DEF IInv, TypeOK
<1>4. link # "up" => \A s \in Managed : ~st[s].registered
    <2>1. CASE link = "down"
        BY <2>1, TornTyped, ScenarioTyped
    <2>2. CASE link = "none"
        BY <2>2 DEF IInv
    <2> QED BY <2>1, <2>2 DEF IInv, TypeOK
<1>5. tick' \in TickType
    <2>1. todo \subseteq Managed
        BY DEF Unregistered
    <2> HIDE DEF todo
    <2> QED BY <1>2, <2>1, IdleTyped DEF TickType, Stages
<1>6. LinkAgrees'
    <2>1. CASE link = "up"
        BY <1>2, <2>1, LinkKept, ScenarioTyped DEF world, Known
    <2>2. CASE link # "up"
        BY <1>2, <1>4, <2>2, NothingRegistered DEF world
    <2> QED BY <2>1, <2>2
<1> HIDE DEF st, todo
<1>7. IntegratedAlone'
    BY <1>2, <1>3, AloneKept, WireKept DEF world, Known
<1>8. TypeOK'
    <2>1. Managed' = Managed /\ notes' \subseteq Managed
        BY <1>2 DEF world, Managed, IInv, TypeOK
    <2>2. asked' \in Seq(Request) /\ unread' \in Seq(Answer) /\ (link' # "up" => InStep')
        BY <1>2 DEF wire, InStep, IInv, TypeOK
    <2> QED BY <1>1, <1>2, <1>3, <1>5, <2>1, <2>2 DEF IInv, TypeOK, TickType, installs, world
<1> QED BY <1>6, <1>7, <1>8 DEF IInv, LinkAgrees, IntegratedAlone, WireAlone

(* register_service: an answer that is Ok leaves the service registered here  *)
(* and coming there.                                                         *)
LEMMA RegisterInv ==
    ASSUME IInv, NEW s \in Managed, NEW how \in Outcomes, RegisterService(s, how),
           tick' \in TickType, UNCHANGED <<link, notes, due, installs, world>>
    PROVE  IInv'
<1> DEFINE r == Register(s)
           ok == Got(how, r).op = "Ok"
           new == IF ok THEN [svc[s] EXCEPT !.spec = conf[s], !.registered = TRUE,
                                            !.phase = "Starting"]
                  ELSE [svc[s] EXCEPT !.spec = conf[s]]
<1>1. /\ Call(how, r) /\ svc' = [svc EXCEPT ![s] = new]
      /\ cut' = IF ok THEN cut \ {s} ELSE cut
    BY DEF RegisterService
<1>2. Proper(r) /\ r.op = "Register" /\ r.name = s
    BY RequestsProper DEF Register
<1>3. s \in Services /\ svc \in [Services -> ServiceState] /\ Managed' = Managed
      /\ Managed \subseteq Services
    BY ScenarioTyped DEF IInv, TypeOK, world, Managed
<1>4. new \in ServiceState /\ (~ok => new.registered = svc[s].registered)
    <2>1. svc[s] \in ServiceState /\ conf[s] \in 0 .. Confs
        BY <1>3, VersionsAssumption DEF IInv, TypeOK
    <2> QED BY <2>1 DEF ServiceState, Phases
<1> HIDE DEF new, r
<1>5. /\ left' \in [Budgets -> Nat]
      /\ sup' \in [Services -> Entry \cup {None}]
      /\ \A u \in Services \ Managed : sup'[u] = None
      /\ asked' \in Seq(Request) /\ unread' \in Seq(Answer) /\ (link # "up" => InStep')
      /\ WireAlone'
      /\ ok => link = "up"
      /\ \A u \in Managed : Coming(u) => Coming(u)'
      /\ link = "up" => Coming(s)'
    BY <1>1, <1>2, CallKeeps DEF world
<1> HIDE DEF ok
<1>6. /\ svc' \in [Services -> ServiceState]
      /\ \A u \in Services : u # s => svc'[u] = svc[u]
      /\ ~ok => svc'[s].registered = svc[s].registered
    BY <1>1, <1>3, <1>4
<1>7. LinkAgrees'
    <2>1. \A u \in Managed : svc'[u].registered /\ link = "none" => svc[u].registered
        BY <1>3, <1>5, <1>6
    <2>2. \A u \in Managed : svc'[u].registered /\ u \notin cut' /\ link = "up" =>
                               \/ Coming(u)'
                               \/ svc[u].registered /\ u \notin cut /\ (Coming(u) => Coming(u)')
        BY <1>1, <1>3, <1>5, <1>6
    <2> QED BY <2>1, <2>2, LinkComing DEF world
<1>8. IntegratedAlone'
    BY <1>3, <1>5, <1>6, AloneKept DEF world, Known
<1>9. TypeOK'
    BY <1>1, <1>3, <1>5, <1>6 DEF IInv, TypeOK, TickType, installs, world
<1> QED BY <1>7, <1>8, <1>9 DEF IInv, LinkAgrees, IntegratedAlone, WireAlone

LEMMA TickTyped ==
    ASSUME IInv
    PROVE  tick \in TickType /\ tick.todo \subseteq Managed
BY DEF IInv, TypeOK, TickType

LEMMA TickRegisterInv ==
    ASSUME IInv, NEW s \in Services, NEW how \in Outcomes, TickRegister(s, how)
    PROVE  IInv'
<1>1. s \in Managed
    BY TickTyped DEF TickRegister
<1>2. tick' \in TickType
    BY TickTyped DEF TickRegister, TickType, Stages
<1> QED BY <1>1, <1>2, RegisterInv DEF TickRegister

LEMMA TickReregisterInv ==
    ASSUME IInv, NEW s \in Services, NEW how \in Outcomes, TickReregister(s, how)
    PROVE  IInv'
<1>1. s \in Managed
    BY TickTyped, VersionsAssumption DEF TickReregister, TickType
<1>2. tick' \in TickType
    BY TickTyped DEF TickReregister, TickType, Stages
<1> QED BY <1>1, <1>2, RegisterInv DEF TickReregister

(* What a list says of the running versions, and the crashes it was told of.  *)
LEMMA RefreshTyped ==
    ASSUME IInv, NEW answer \in Answer
    PROVE  /\ RefreshRunning(answer) \in [Services -> ServiceState]
           /\ \A s \in Services : /\ RefreshRunning(answer)[s].registered = svc[s].registered
                                  /\ RefreshRunning(answer)[s].phase = svc[s].phase
<1>1. \A s \in Services : svc[s] \in ServiceState
    BY DEF IInv, TypeOK
<1> DEFINE listed(s) == answer.statuses[s]
           shown(s) == IF listed(s).resolved # None THEN listed(s).resolved ELSE listed(s).bin
           run(s) == IF s \in scenario.wrapped /\ shown(s) # None THEN Wrapper ELSE shown(s)
<1>2. ASSUME NEW s \in Services, listed(s) # None
      PROVE  run(s) \in Versions \cup {None, Wrapper}
    <2>1. answer.statuses[s] \in Entry
        BY <1>2 DEF Answer
    <2>2. shown(s) \in Versions \cup {None}
        BY <2>1 DEF Entry
    <2> HIDE DEF shown
    <2> QED BY <2>2
<1>3. ASSUME NEW s \in Services, NEW v \in Versions \cup {None, Wrapper}
      PROVE  /\ [svc[s] EXCEPT !.running = v] \in ServiceState
             /\ [svc[s] EXCEPT !.running = v].registered = svc[s].registered
             /\ [svc[s] EXCEPT !.running = v].phase = svc[s].phase
    BY <1>1, <1>3 DEF ServiceState
<1>4. RefreshRunning(answer) =
        [s \in Services |-> IF answer.op = "Services" /\ listed(s) # None
                            THEN [svc[s] EXCEPT !.running = run(s)] ELSE svc[s]]
    BY DEF RefreshRunning
<1> HIDE DEF listed, run
<1>5. \A s \in Services : /\ RefreshRunning(answer)[s] \in ServiceState
                          /\ RefreshRunning(answer)[s].registered = svc[s].registered
                          /\ RefreshRunning(answer)[s].phase = svc[s].phase
    BY <1>1, <1>2, <1>3, <1>4
<1> QED BY <1>4, <1>5

(* A call of the tick that asks for the list and changes no registration.    *)
LEMMA ListInv ==
    ASSUME IInv, NEW how \in Outcomes, Call(how, List), tick' \in TickType,
           svc' \in [Services -> ServiceState],
           \A s \in Services : svc'[s].registered = svc[s].registered,
           \A s \in Services \ Managed : svc'[s].phase = "CrashBackoff" => svc[s].phase = "CrashBackoff",
           notes' \subseteq Managed, due' \subseteq Managed,
           UNCHANGED <<link, installs, cut, world>>
    PROVE  IInv'
<1>1. Proper(List) /\ List.op = "List"
    BY ListProper DEF List
<1>2. /\ left' \in [Budgets -> Nat]
      /\ sup' \in [Services -> Entry \cup {None}]
      /\ \A u \in Services \ Managed : sup'[u] = None
      /\ asked' \in Seq(Request) /\ unread' \in Seq(Answer) /\ (link # "up" => InStep')
      /\ WireAlone'
      /\ \A u \in Managed : Coming(u) => Coming(u)'
    BY <1>1, CallKeeps DEF world
<1>3. Managed' = Managed /\ Managed \subseteq Services
    BY ScenarioTyped DEF world, Managed
<1>4. LinkAgrees'
    BY <1>2, <1>3, LinkComing DEF world
<1>5. IntegratedAlone'
    BY <1>2, AloneKept DEF world, Known
<1>6. TypeOK'
    BY <1>2, <1>3 DEF IInv, TypeOK, TickType, installs, world
<1> QED BY <1>4, <1>5, <1>6 DEF IInv, LinkAgrees, IntegratedAlone, WireAlone

(* What the answer to a list call is.                                        *)
LEMMA ListAnswer ==
    ASSUME IInv, NEW how \in Outcomes, Call(how, List), UNCHANGED <<link, scenario>>
    PROVE  /\ Got(how, List) \in Answer
           /\ \A u \in Services \ Managed : Got(how, List).statuses[u] = None
BY ListProper, CallKeeps

LEMMA TickRefreshInv ==
    ASSUME IInv, NEW how \in Outcomes, TickRefresh(how)
    PROVE  IInv'
<1> DEFINE st == RefreshRunning(Got(how, List))
<1>1. /\ Call(how, List) /\ svc' = DrainNotifications(st) /\ notes' = {} /\ due' = due \ notes
      /\ tick' = [tick EXCEPT !.at = "live"]
      /\ UNCHANGED <<link, installs, cut, world>>
    BY DEF TickRefresh
<1>2. Got(how, List) \in Answer
    BY <1>1, ListAnswer DEF world
<1>3. /\ st \in [Services -> ServiceState]
      /\ \A s \in Services : st[s].registered = svc[s].registered /\ st[s].phase = svc[s].phase
    BY <1>2, RefreshTyped
<1> HIDE DEF st
<1>4. /\ svc' \in [Services -> ServiceState]
      /\ \A s \in Services : svc'[s].registered = svc[s].registered
      /\ \A s \in Services \ Managed : svc'[s].phase = "CrashBackoff" => svc[s].phase = "CrashBackoff"
    <2>1. \A s \in Services :
            /\ [st[s] EXCEPT !.phase = "CrashBackoff"] \in ServiceState
            /\ [st[s] EXCEPT !.phase = "CrashBackoff"].registered = st[s].registered
        BY <1>3, PhaseSet DEF Phases
    <2>2. notes \subseteq Managed
        BY DEF IInv, TypeOK
    <2> QED BY <1>1, <1>3, <2>1, <2>2 DEF DrainNotifications
<1>5. tick' \in TickType
    BY <1>1, TickTyped DEF TickType, Stages
<1>6. notes' \subseteq Managed /\ due' \subseteq Managed
    BY <1>1 DEF IInv, TypeOK
<1> QED BY <1>1, <1>4, <1>5, <1>6, ListInv

LEMMA TickRefreshedInv ==
    ASSUME IInv, NEW how \in Outcomes, TickRefreshed(how)
    PROVE  IInv'
<1>1. /\ Call(how, List) /\ svc' = RefreshRunning(Got(how, List))
      /\ tick' = [tick EXCEPT !.at = "check"]
      /\ UNCHANGED <<link, notes, due, installs, cut, world>>
    BY DEF TickRefreshed
<1>2. Got(how, List) \in Answer
    BY <1>1, ListAnswer DEF world
<1>3. /\ svc' \in [Services -> ServiceState]
      /\ \A s \in Services : svc'[s].registered = svc[s].registered /\ svc'[s].phase = svc[s].phase
    BY <1>1, <1>2, RefreshTyped
<1>4. tick' \in TickType
    BY <1>1, TickTyped DEF TickType, Stages
<1>5. notes' \subseteq Managed /\ due' \subseteq Managed
    BY <1>1 DEF IInv, TypeOK
<1> QED BY <1>1, <1>3, <1>4, <1>5, ListInv

LEMMA TickLiveInv ==
    ASSUME IInv, NEW how \in Outcomes, TickLive(how)
    PROVE  IInv'
<1> DEFINE alive == LiveMap(Got(how, List))
<1>1. /\ Call(how, List) /\ tick' = [tick EXCEPT !.at = "decide", !.live = alive]
      /\ UNCHANGED <<svc, link, notes, due, installs, cut, world>>
    BY DEF TickLive
<1>2. alive \subseteq Managed
    BY <1>1, ListAnswer DEF LiveMap, world
<1> HIDE DEF alive
<1>3. tick' \in TickType
    BY <1>1, <1>2, TickTyped DEF TickType, Stages
<1>4. svc' \in [Services -> ServiceState] /\ notes' \subseteq Managed /\ due' \subseteq Managed
    BY <1>1 DEF IInv, TypeOK
<1> QED BY <1>1, <1>3, <1>4, ListInv

(* lifecycle_step changes neither the phase nor what is registered.           *)
LEMMA LifecycleTyped ==
    ASSUME IInv, NEW s \in Services, NEW st \in ServiceState
    PROVE  /\ LifecycleStep(s, st).state \in ServiceState
           /\ LifecycleStep(s, st).state.registered = st.registered
           /\ LifecycleStep(s, st).state.phase = st.phase
<1>1. ASSUME NEW a \in BOOLEAN, NEW b \in BOOLEAN, NEW t \in Versions \cup {None}
      PROVE  /\ [st EXCEPT !.restart = a, !.target = t, !.upgrade = b] \in ServiceState
             /\ [st EXCEPT !.restart = a, !.target = t, !.upgrade = b].registered = st.registered
             /\ [st EXCEPT !.restart = a, !.target = t, !.upgrade = b].phase = st.phase
    BY <1>1 DEF ServiceState
<1>2. /\ [st EXCEPT !.restart = FALSE, !.upgrade = FALSE] \in ServiceState
      /\ [st EXCEPT !.restart = FALSE, !.upgrade = FALSE].registered = st.registered
      /\ [st EXCEPT !.restart = FALSE, !.upgrade = FALSE].phase = st.phase
    BY DEF ServiceState
<1>3. disk[s] \in Versions \cup {None} /\ st.target \in Versions \cup {None}
      /\ st.restart \in BOOLEAN /\ st.upgrade \in BOOLEAN
    BY DEF IInv, TypeOK, ServiceState
<1> DEFINE backoff == st.phase = "CrashBackoff"
           busy == ~backoff /\ s \in tick.busy
           restart == \/ st.restart
                      \/ st.phase = "Healthy" /\ NeedsRestart(s)
           drifts == /\ ~st.upgrade
                     /\ DriftDecision(st.running, disk[s], st.target) = "Schedule"
           upgrade == (st.upgrade \/ drifts) /\ tick.gate # "Deferred"
           target == IF drifts THEN disk[s] ELSE st.target
           pending == (st.upgrade \/ drifts) /\ ~upgrade
<1>4. restart \in BOOLEAN /\ pending \in BOOLEAN /\ target \in Versions \cup {None}
    BY <1>3
<1>5. \/ LifecycleStep(s, st).state = [st EXCEPT !.restart = FALSE, !.upgrade = FALSE]
      \/ LifecycleStep(s, st).state
           = [st EXCEPT !.restart = restart, !.target = target, !.upgrade = pending]
    BY DEF LifecycleStep
<1> HIDE DEF restart, pending, target
<1>6. LET r == [st EXCEPT !.restart = restart, !.target = target, !.upgrade = pending]
      IN r \in ServiceState /\ r.registered = st.registered /\ r.phase = st.phase
    BY <1>1, <1>4
<1> QED BY <1>2, <1>5, <1>6

LEMMA TickDecideInv ==
    ASSUME IInv, TickDecide
    PROVE  IInv'
<1> DEFINE begun(s) == IF Expired(s) THEN [svc[s] EXCEPT !.phase = "Starting"] ELSE svc[s]
           step == [s \in Services |->
                      IF s \in Managed THEN LifecycleStep(s, begun(s))
                      ELSE [reregister |-> FALSE, state |-> svc[s]]]
           todo == {s \in Services : step[s].reregister}
<1>1. /\ svc' = [s \in Services |->
                   IF step[s].state.phase = "Starting" /\ s \notin todo /\ AllowsHealthy(s)
                   THEN [step[s].state EXCEPT !.phase = "Healthy"]
                   ELSE step[s].state]
      /\ due' = {s \in due : ~Expired(s)}
      /\ tick' = [tick EXCEPT !.todo = todo,
                              !.at = IF todo = {} THEN "check" ELSE "unregister"]
      /\ UNCHANGED <<link, wire, notes, installs, cut, outside>>
    BY DEF TickDecide
<1>2. todo \subseteq Managed
    OBVIOUS
<1>3. ASSUME NEW s \in Services
      PROVE  /\ step[s].state \in ServiceState
             /\ step[s].state.registered = svc[s].registered
             /\ s \notin Managed => step[s].state.phase = svc[s].phase
    <2>1. begun(s) \in ServiceState /\ begun(s).registered = svc[s].registered
        <3>1. svc[s] \in ServiceState /\ "Starting" \in Phases
            BY DEF IInv, TypeOK, Phases
        <3>2. LET r == [svc[s] EXCEPT !.phase = "Starting"]
              IN r \in ServiceState /\ r.registered = svc[s].registered
            BY <3>1, PhaseSet
        <3> QED BY <3>1, <3>2
    <2>2. CASE s \in Managed
        <3>1. step[s] = LifecycleStep(s, begun(s))
            BY <2>2
        <3> HIDE DEF step, begun
        <3> QED BY <2>1, <2>2, <3>1, LifecycleTyped
    <2>3. CASE s \notin Managed
        BY <2>3 DEF IInv, TypeOK
    <2> QED BY <2>2, <2>3
<1> HIDE DEF step, todo
<1>4. /\ svc' \in [Services -> ServiceState]
      /\ \A s \in Services : svc'[s].registered = svc[s].registered
      /\ \A s \in Services \ Managed :
            svc'[s].phase = "CrashBackoff" => svc[s].phase = "CrashBackoff"
    <2>1. ASSUME NEW s \in Services
          PROVE  /\ [step[s].state EXCEPT !.phase = "Healthy"] \in ServiceState
                 /\ [step[s].state EXCEPT !.phase = "Healthy"].registered = svc[s].registered
                 /\ [step[s].state EXCEPT !.phase = "Healthy"].phase = "Healthy"
        <3>1. "Healthy" \in Phases /\ step[s].state \in ServiceState
            BY <1>3 DEF Phases
        <3> QED BY <1>3, <3>1, PhaseSet
    <2> QED BY <1>1, <1>3, <2>1
<1>5. LinkAgrees' /\ IntegratedAlone'
    BY <1>1, <1>4, LinkKept, AloneKept, WireKept, ScenarioTyped DEF outside, Known
<1>6. tick' \in TickType
    BY <1>1, <1>2, TickTyped DEF TickType, Stages
<1>7. TypeOK'
    BY <1>1, <1>4, <1>6 DEF wire, InStep, IInv, TypeOK, TickType, installs, outside, Managed
<1> QED BY <1>5, <1>7 DEF IInv, LinkAgrees, IntegratedAlone, WireAlone

(* The first half of reregister_service takes the entry away, and `cut` says  *)
(* so until the second half ends.                                            *)
LEMMA TickUnregisterInv ==
    ASSUME IInv, NEW s \in Services, NEW how \in Outcomes, TickUnregister(s, how)
    PROVE  IInv'
<1>1. s \in Managed
    BY TickTyped DEF TickUnregister
<1>2. /\ Call(how, Unregister(s)) /\ cut' = cut \cup {s}
      /\ tick' = [tick EXCEPT !.at = "reregister", !.cur = s]
      /\ UNCHANGED <<svc, link, notes, due, installs, world>>
    BY DEF TickUnregister
<1>3. Proper(Unregister(s)) /\ Unregister(s).name = s
    BY <1>1, RequestsProper DEF Unregister
<1>4. /\ left' \in [Budgets -> Nat]
      /\ sup' \in [Services -> Entry \cup {None}]
      /\ \A u \in Services \ Managed : sup'[u] = None
      /\ asked' \in Seq(Request) /\ unread' \in Seq(Answer) /\ (link # "up" => InStep')
      /\ WireAlone'
      /\ \A u \in Managed : u # s /\ Coming(u) => Coming(u)'
    BY <1>2, <1>3, CallKeeps DEF world
<1>5. Managed' = Managed
    BY <1>2 DEF world, Managed
<1>6. LinkAgrees'
    BY <1>2, <1>4, LinkComing DEF world
<1>7. IntegratedAlone'
    BY <1>2, <1>4, AloneKept DEF world, Known
<1>8. tick' \in TickType
    BY <1>1, <1>2, TickTyped DEF TickType, Stages
<1>9. TypeOK'
    BY <1>1, <1>2, <1>4, <1>5, <1>8 DEF IInv, TypeOK, TickType, installs, world
<1> QED BY <1>6, <1>7, <1>9 DEF IInv, LinkAgrees, IntegratedAlone, WireAlone

LEMMA TickCheckInv ==
    ASSUME IInv, NEW sick \in SUBSET Services, TickCheck(sick)
    PROVE  IInv'
<1>1. left' \in [Budgets -> Nat]
    BY SpendTyped DEF TickCheck, IInv, TypeOK, Budgets
<1>2. /\ svc' = [s \in Services |->
                   IF ~Checkable(s) THEN svc[s]
                   ELSE IF Passes(s) /\ s \notin sick /\ AllowsHealthy(s)
                   THEN [svc[s] EXCEPT !.phase = "Healthy"]
                   ELSE [svc[s] EXCEPT !.phase = "Unhealthy"]]
      /\ tick' = Idle
      /\ UNCHANGED <<link, wire, notes, due, installs, cut, world, sup>>
    BY DEF TickCheck
<1>3. \A s \in Services, p \in {"Healthy", "Unhealthy"} :
        /\ [svc[s] EXCEPT !.phase = p] \in ServiceState
        /\ [svc[s] EXCEPT !.phase = p].registered = svc[s].registered
        /\ [svc[s] EXCEPT !.phase = p].phase = p
    <2>1. /\ \A p \in {"Healthy", "Unhealthy"} : p \in Phases
          /\ \A s \in Services : svc[s] \in ServiceState
        BY DEF IInv, TypeOK, Phases
    <2> QED BY <2>1, PhaseSet
<1>4. /\ svc' \in [Services -> ServiceState]
      /\ \A s \in Services : svc'[s].registered = svc[s].registered
      /\ \A s \in Services : svc'[s].phase = "CrashBackoff" => svc[s].phase = "CrashBackoff"
    BY <1>2, <1>3 DEF IInv, TypeOK
<1>5. LinkAgrees' /\ IntegratedAlone'
    BY <1>2, <1>4, LinkKept, AloneKept, WireKept, ScenarioTyped DEF world, Known
<1>6. TypeOK'
    BY <1>1, <1>2, <1>4, IdleTyped DEF wire, InStep, IInv, TypeOK, installs, world, Managed
<1> QED BY <1>5, <1>6 DEF IInv, LinkAgrees, IntegratedAlone, WireAlone

(* What an abandoned tick leaves on the connection is proper, and what it     *)
(* takes back is cut short.                                                  *)
LEMMA WaitingProper ==
    ASSUME IInv, NEW r \in Waiting
    PROVE  /\ Proper(r)
           /\ r.op = "Register" => r.conf \in 0 .. Confs
           /\ r.op = "Unregister" => tick.at = "unregister" /\ r.name \in tick.todo
<1>1. tick.todo \subseteq Managed
    BY TickTyped
<1>2. CASE tick.at \in {"register", "reregister"}
    <2>1. PICK s \in tick.todo : r = Register(s)
        BY <1>2 DEF Waiting
    <2>2. Proper(r) /\ r.op = "Register"
        BY <1>1, <2>1, RequestsProper DEF Register
    <2>3. r.conf \in 1 .. Confs
        BY <2>2 DEF Proper, Request, List
    <2> QED BY <2>2, <2>3
<1>3. CASE tick.at = "unregister"
    <2>1. PICK s \in tick.todo : r = Unregister(s)
        BY <1>3 DEF Waiting
    <2> QED BY <1>1, <1>3, <2>1, RequestsProper DEF Unregister
<1>4. CASE tick.at \in {"refresh", "live", "refreshed"}
    <2>1. r = List
        BY <1>4 DEF Waiting
    <2> QED BY <2>1, ListProper DEF List
<1>5. CASE tick.at \notin {"register", "reregister", "unregister", "refresh", "live", "refreshed"}
    BY <1>5 DEF Waiting
<1> QED BY <1>2, <1>3, <1>4, <1>5

LEMMA TickTimeoutInv ==
    ASSUME IInv, TickTimeout
    PROVE  IInv'
<1>1. left' \in [Budgets -> Nat]
    BY SpendTyped DEF TickTimeout, Budgets
<1>2. /\ tick' = Idle /\ cut \subseteq cut' /\ cut' \subseteq cut \cup tick.todo
      /\ UNCHANGED <<link, notes, due, installs, world, sup>>
    BY DEF TickTimeout
<1>3. cut' \subseteq Managed
    BY <1>2, TickTyped DEF IInv, TypeOK
<1>4. CASE UNCHANGED <<wire, svc>>
    <2>1. LinkAgrees' /\ IntegratedAlone'
        BY <1>2, <1>4, LinkKept, AloneKept, WireKept, ScenarioTyped DEF world, Known
    <2>2. TypeOK'
        BY <1>1, <1>2, <1>3, <1>4, IdleTyped DEF wire, InStep, IInv, TypeOK, installs, world, Managed
    <2> QED BY <2>1, <2>2 DEF IInv, LinkAgrees, IntegratedAlone, WireAlone
<1>5. ASSUME NEW r \in Waiting, link = "up",
             asked' = Append(asked, r), UNCHANGED unread,
             svc' = IF r.op = "Register" THEN [svc EXCEPT ![r.name].spec = r.conf] ELSE svc
      PROVE  IInv'
    <2>1. Proper(r) /\ (r.op = "Register" => r.conf \in 0 .. Confs)
        BY <1>5, WaitingProper
    <2>2. r.op = "Unregister" => r.name \in cut'
        BY <1>5, WaitingProper DEF TickTimeout
    <2>3. Managed' = Managed /\ Managed \subseteq Services
        BY <1>2, ScenarioTyped DEF world, Managed
    <2>4. /\ svc' \in [Services -> ServiceState]
          /\ \A s \in Services : svc'[s].registered = svc[s].registered /\ svc'[s].phase = svc[s].phase
        <3>1. svc \in [Services -> ServiceState]
            BY DEF IInv, TypeOK
        <3>2. CASE r.op = "Register"
            <4>1. r.name \in Services /\ svc[r.name] \in ServiceState
                BY <2>1, <2>3, <3>1, <3>2 DEF Proper
            <4>2. LET n == [svc[r.name] EXCEPT !.spec = r.conf]
                  IN n \in ServiceState /\ n.registered = svc[r.name].registered
                     /\ n.phase = svc[r.name].phase
                BY <2>1, <3>2, <4>1 DEF ServiceState
            <4>3. svc' = [svc EXCEPT ![r.name] = [svc[r.name] EXCEPT !.spec = r.conf]]
                BY <1>5, <3>2
            <4> QED BY <3>1, <4>1, <4>2, <4>3
        <3> QED BY <1>5, <3>1, <3>2
    <2>5. /\ asked' \in Seq(Request)
          /\ \A i \in 1..Len(asked') : asked'[i].op # "List" => asked'[i].name \in Managed
          /\ \A u \in Managed : ~(r.op = "Unregister" /\ r.name = u) /\ Coming(u) => Coming(u)'
        BY <1>2, <1>5, <2>1, AppendAsked DEF world
    <2>6. WireAlone'
        BY <1>5, <2>3, <2>5 DEF IInv, WireAlone
    <2>7. LinkAgrees'
        BY <1>2, <2>2, <2>3, <2>4, <2>5, LinkComing DEF world
    <2>8. IntegratedAlone'
        BY <1>2, <2>4, <2>6, AloneKept DEF world, Known
    <2>9. TypeOK'
        BY <1>1, <1>2, <1>3, <1>5, <2>4, <2>5, IdleTyped DEF IInv, TypeOK, installs, world, Managed
    <2> QED BY <2>7, <2>8, <2>9 DEF IInv, LinkAgrees, IntegratedAlone, WireAlone
<1> QED BY <1>4, <1>5 DEF TickTimeout

-----------------------------------------------------------------------------
(* Start of the daemon, and the invariant. *)

LEMMA StartedTyped ==
    ASSUME NEW added \in SUBSET Services
    PROVE  LET st == [s \in Services |-> IF s \in added THEN AddedService(s) ELSE NewService(s)]
           IN /\ st \in [Services -> ServiceState]
              /\ \A s \in Services : ~st[s].registered /\ st[s].phase # "CrashBackoff"
BY NewTyped

LEMMA RestartInv ==
    ASSUME IInv, Restart
    PROVE  IInv'
<1>1. left' \in [Budgets -> Nat]
    BY SpendTyped DEF Restart, Budgets
<1>2. PICK added \in SUBSET scenario.integrated : Started(added)
    BY DEF Restart
<1>3. added \in SUBSET Services
    BY ScenarioTyped
<1>4. /\ svc' \in [Services -> ServiceState]
      /\ \A s \in Services : ~svc'[s].registered /\ svc'[s].phase # "CrashBackoff"
    BY <1>2, <1>3, StartedTyped DEF Started
<1>5. /\ link' = "none" /\ asked' = <<>> /\ unread' = <<>> /\ notes' = {} /\ due' = {} /\ tick' = Idle /\ cut' = {}
      /\ rx' = TRUE /\ queue' = SetToSeq(Services \ added) /\ updates' = <<>>
      /\ UNCHANGED <<world, sup>>
    BY <1>2 DEF Started, Restart
<1>6. queue' \in Seq(Services)
    BY <1>5, ListTyped
<1>7. LinkAgrees' /\ IntegratedAlone'
    BY <1>4, <1>5, NothingRegistered, AloneKept, WireEmpty, ScenarioTyped DEF world, Known
<1>8. updates' \in Seq([name: Services, ok: BOOLEAN]) /\ Len(updates') <= 4
    BY <1>5
<1>9. TypeOK'
    BY <1>1, <1>4, <1>5, <1>6, <1>8, WireEmpty, IdleTyped DEF IInv, TypeOK, world, Managed
<1> QED BY <1>7, <1>9 DEF IInv, LinkAgrees, IntegratedAlone, WireAlone

LEMMA InitInv ==
    ASSUME Init
    PROVE  IInv
<1>1. scenario \in Scenario
    BY ScenariosAssumption DEF Init
<1>2. PICK added \in SUBSET scenario.integrated :
        /\ svc = [s \in Services |-> IF s \in added THEN AddedService(s) ELSE NewService(s)]
        /\ queue = SetToSeq(Services \ added)
    BY DEF Init
<1>3. added \in SUBSET Services
    BY <1>1 DEF Scenario
<1>4. /\ svc \in [Services -> ServiceState]
      /\ \A s \in Services : ~svc[s].registered /\ svc[s].phase # "CrashBackoff"
    BY <1>2, <1>3, StartedTyped
<1>5. queue \in Seq(Services)
    BY <1>2, ListTyped
<1>6. left \in [Budgets -> Nat] /\ pin \in Versions
    BY <1>1 DEF Init, Scenario
<1>7. conf \in [Services -> 1 .. Confs] /\ 1 \in 1 .. Confs
    BY VersionsAssumption DEF Init
<1>8. disk \in [Services -> Versions \cup {None}]
    BY VersionsAssumption DEF Init
<1>9. [conf |-> 1, resolved |-> 1, bin |-> 1] \in Entry
    BY <1>7, VersionsAssumption DEF Entry
<1>10. /\ sup \in [Services -> Entry \cup {None}]
       /\ \A s \in Services \ Managed : ~Known(s)
    BY <1>9 DEF Init, Known
<1>11. Managed \subseteq Services
    BY DEF Managed
<1>12. TypeOK
    <2>1. /\ scenario \in Scenarios /\ link = "none" /\ notes = {} /\ due = {} /\ tick = Idle
          /\ cut = {} /\ rx = TRUE /\ updates = <<>> /\ asked = <<>> /\ unread = <<>>
        BY DEF Init
    <2>2. updates \in Seq([name: Services, ok: BOOLEAN]) /\ Len(updates) <= 4
        BY <2>1
    <2>3. asked \in Seq(Request) /\ unread \in Seq(Answer) /\ InStep
        BY <2>1 DEF InStep
    <2> QED BY <2>1, <2>2, <2>3, <1>4, <1>5, <1>6, <1>7, <1>8, <1>10, IdleTyped DEF TypeOK
<1>13. 1 .. Len(asked) = {} /\ 1 .. Len(unread) = {}
    BY DEF Init
<1> QED BY <1>4, <1>10, <1>11, <1>12, <1>13 DEF IInv, RegisteredIsKnown

LEMMA NextInv ==
    ASSUME IInv, [Next]_vars
    PROVE  IInv'
<1>1. CASE Tick
    BY <1>1, TickRegisterInv, TickUnregisterInv, TickReregisterInv, TickRefreshInv,
       TickLiveInv, TickRefreshedInv, TickDecideInv, TickCheckInv DEF Tick
<1>2. CASE Handlers
    BY <1>2, TickBeginInv, HandleInstallUpdateInv, FinishInstallsInv, HandleUpdateInv,
       PushSelfUpdateInv, PushSyncNixpkgsInv, ConfigReloadInv, ConfigPollInv DEF Handlers
<1>3. CASE Environment
    BY <1>3, CrashInv, RespawnInv, BinaryChangesInv, EnvFileChangesInv, DisconnectInv,
       InstallNextInv, PinMovesInv, BackoffElapsesInv, ServeInv DEF Environment
<1>4. CASE UNCHANGED vars
    <2>1. UNCHANGED <<manager, outside>>
        BY <1>4 DEF vars
    <2>2. TypeOK'
        BY <2>1 DEF wire, InStep, IInv, TypeOK, manager, outside, Managed
    <2> QED BY <2>1, <2>2, AsideInv DEF manager, outside
<1> QED BY <1>1, <1>2, <1>3, <1>4, TickTimeoutInv, RestartInv DEF Next

(* The inductive invariant: the types, what the connection says of what is    *)
(* registered, and services without a process staying out of the supervisor. *)
THEOREM ManagerInvariant == Spec => []IInv
<1>1. Init => IInv
    BY InitInv
<1>2. IInv /\ [Next]_vars => IInv'
    BY NextInv
<1> QED BY <1>1, <1>2, PTL DEF Spec

(* Every variable of the manager keeps its range, and no more than four      *)
(* installation results wait in the channel of spawn_install_task.           *)
THEOREM ManagerTypes == Spec => []TypeOK
<1>1. IInv => TypeOK
    BY DEF IInv
<1> QED BY <1>1, ManagerInvariant, PTL

(* What service_mgmt.rs takes for registered on its connection, the           *)
(* supervisor knows, or will know once it has served what is on the           *)
(* connection: lost connections, supervisors that die, calls and ticks that   *)
(* are given up with the answers they leave to later calls, and restarts of   *)
(* the daemon included; what a reregister that stopped half-way left is not.  *)
THEOREM ManagerRegistered == Spec => []RegisteredIsKnown
<1>1. IInv => RegisteredIsKnown
    BY DEF IInv
<1> QED BY <1>1, ManagerInvariant, PTL
=============================================================================
