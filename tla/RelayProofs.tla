---------------------------- MODULE RelayProofs ----------------------------
(***************************************************************************)
(* The relay's port tables for any daemons, streams and port range, and    *)
(* its gossip topics for any streams, clusters and channel capacity.       *)
(***************************************************************************)
EXTENDS RelaySsh, RelayGossip, FiniteSetTheorems, WellFoundedInduction, TLAPS

LEMMA NoneIsNoPort == None \notin Ports /\ Ports \subseteq Nat
BY RelayAssumption

LEMMA MinIsOne ==
    ASSUME NEW S, S \subseteq Nat, S # {}
    PROVE  Min(S) \in S /\ \A y \in S : Min(S) <= y
<1>1. PICK x \in S : \A y \in S : ~(<<y, x>> \in OpToRel(<, Nat))
  BY WFMin, NatLessThanWellFounded
<1>2. \A y \in S : x <= y
  <2> TAKE y \in S
  <2>1. ~(y < x)
    BY <1>1 DEF OpToRel
  <2> QED BY <2>1
<1> QED BY <1>2 DEF Min

(* What DaemonRegistry keeps of its two tables R and U, up to the ports V that *)
(* a listener has outlived.                                                    *)
Tidy(R, U, V) ==
    /\ R \in [Daemons -> Reservation \cup {None}] /\ U \subseteq Ports
    /\ \A p \in U : \E e \in Daemons : R[e] # None /\ R[e].port = p
    /\ \A e \in Daemons : R[e] # None => R[e].port \in U \cup V
    /\ \A e, f \in Daemons :
         e # f /\ R[e] # None /\ R[f] # None /\ R[e].port \notin V => R[e].port # R[f].port
    /\ \A e \in Daemons : R[e] # None /\ R[e].port \notin V => R[e].first
    /\ FirstsUnique(R)

TablesTyped ==
    /\ daemons \in [Daemons -> DaemonConn \cup {None}]
    /\ listener \in [Daemons -> Ports \cup {None}]
    /\ disk \in [Daemons -> Reservation \cup {None}]
    /\ saved \in BOOLEAN /\ outlived \subseteq Ports

PortsInv ==
    /\ Tidy(resv, used, outlived) /\ FirstsUnique(disk)
    /\ ServedIsReserved /\ AdvertisedIsServed /\ FileKeeps

(* No reservation that has not expired changes its port. *)
Kept ==
    \A d \in Daemons : Valid(resv, d) => resv'[d] # None /\ resv'[d].port = resv[d].port

LEMMA TidyParts ==
    Tidy(resv, used, outlived) <=>
        /\ resv \in [Daemons -> Reservation \cup {None}] /\ used \subseteq Ports
        /\ UsedAreReserved /\ ReservationsDisjoint /\ NewestHeld /\ FirstsUnique(resv)
<1>1. \A p : p \in PortsOf(resv, Daemons) <=> \E d \in Daemons : resv[d] # None /\ resv[d].port = p
  BY DEF PortsOf
<1> QED BY <1>1 DEF Tidy, UsedAreReserved, ReservationsDisjoint, NewestHeld

LEMMA TidyPartsNext ==
    Tidy(resv', used', outlived') <=>
        /\ resv' \in [Daemons -> Reservation \cup {None}] /\ used' \subseteq Ports
        /\ UsedAreReserved' /\ ReservationsDisjoint' /\ NewestHeld' /\ FirstsUnique(resv')
<1>1. \A p : p \in PortsOf(resv', Daemons)
              <=> \E d \in Daemons : resv'[d] # None /\ resv'[d].port = p
  BY DEF PortsOf
<1>2. UsedAreReserved' <=> /\ used' \subseteq PortsOf(resv', Daemons)
                           /\ PortsOf(resv', Daemons) \subseteq used' \cup outlived'
  BY DEF UsedAreReserved, PortsOf
<1> QED BY <1>1, <1>2 DEF Tidy, ReservationsDisjoint, NewestHeld

LEMMA IInvTables == IInv => TablesTyped /\ PortsInv
BY TidyParts DEF IInv, TypeOK, TablesTyped, PortsInv

LEMMA FreshTyped ==
    ASSUME NEW p \in Ports
    PROVE  /\ Fresh(p) \in Reservation /\ Fresh(p) # None /\ Fresh(p).port = p
           /\ ~Fresh(p).old /\ Fresh(p).first
<1>1. Fresh(p) \in Reservation
  BY DEF Fresh, Reservation
<1>2. Fresh(p).port = p
  BY DEF Fresh
<1>3. Fresh(p).old = FALSE /\ Fresh(p).first = TRUE
  BY Zenon DEF Fresh
<1>4. Fresh(p) # None
  BY <1>1, NoneIsNoRecord
<1> QED BY <1>1, <1>2, <1>3, <1>4

(* What allocate_port leaves: tables that are tidy, all reservations of others *)
(* that have not expired, and a port that, if it was not outlived, is none of  *)
(* theirs.                                                                     *)
LEMMA Allocated ==
    ASSUME IInv, NEW d \in Daemons
    PROVE  LET a == AllocatePort(d) IN
           /\ Tidy(a.resv, a.used, outlived)
           /\ \A e \in Daemons : a.resv[e] \in {resv[e], None}
           /\ \A e \in Daemons : e # d /\ Valid(resv, e) => a.resv[e] = resv[e]
           /\ a.port \in Ports \cup {None}
           /\ a.port # None /\ a.port \notin outlived =>
                \A e \in Daemons : e # d /\ a.resv[e] # None => a.resv[e].port # a.port
           /\ a.port # None /\ a.resv[d] # None => a.resv[d].port = a.port
           /\ Valid(resv, d) => a.port # None /\ a.port = resv[d].port
<1> DEFINE gone == Lapsed(d) \cup Expired(d)
           left == used \ PortsOf(resv, gone)
           R == [e \in Daemons |-> IF e \in gone THEN None ELSE resv[e]]
           port == CASE Valid(resv, d) -> resv[d].port
                     [] ~Valid(resv, d) /\ Ports \ left # {} -> Min(Ports \ left)
                     [] OTHER -> None
<1>0. Tidy(resv, used, outlived)
  BY IInvTables DEF PortsInv
<1>1. AllocatePort(d) = [port |-> port, resv |-> R, used |-> left]
  BY DEF AllocatePort
<1>2. /\ gone \subseteq Daemons
      /\ \A e \in Daemons : e # d /\ Valid(resv, e) => e \notin gone
      /\ Valid(resv, d) => gone = {}
      /\ ~Valid(resv, d) => d \in gone
  BY DEF Lapsed, Expired, Valid
<1> HIDE DEF gone
<1>3. \A e \in Daemons : R[e] = IF e \in gone THEN None ELSE resv[e]
  OBVIOUS
<1>4. R \in [Daemons -> Reservation \cup {None}]
  BY <1>0 DEF Tidy
<1> HIDE DEF R
<1>5. \A p : p \in PortsOf(resv, gone) <=> \E e \in gone : resv[e] # None /\ resv[e].port = p
  BY DEF PortsOf
<1>6. \A p : p \in left <=> p \in used /\ \A e \in gone : resv[e] # None => resv[e].port # p
  BY <1>5
<1> HIDE DEF left
<1>7. Tidy(R, left, outlived)
  <2>1. left \subseteq Ports
    BY <1>0, <1>6 DEF Tidy
  <2>2. \A p \in left : \E e \in Daemons : R[e] # None /\ R[e].port = p
    BY <1>0, <1>3, <1>6 DEF Tidy
  <2>3. \A e \in Daemons : R[e] # None => R[e].port \in left \cup outlived
    <3> SUFFICES ASSUME NEW e \in Daemons, R[e] # None, R[e].port \notin outlived
                 PROVE  R[e].port \in left
      OBVIOUS
    <3>1. e \notin gone /\ R[e] = resv[e] /\ resv[e].port \in used
      BY <1>0, <1>3 DEF Tidy
    <3>2. \A f \in gone : resv[f] # None => resv[f].port # resv[e].port
      BY <1>0, <1>2, <3>1 DEF Tidy
    <3> QED BY <1>6, <3>1, <3>2
  <2>4. \A e \in Daemons : R[e] \in {resv[e], None}
    BY <1>3
  <2>5. FirstsUnique(R)
    BY <1>0, <2>4 DEF Tidy, FirstsUnique
  <2> QED BY <1>0, <1>4, <2>1, <2>2, <2>3, <2>4, <2>5 DEF Tidy
<1>8. /\ \A e \in Daemons : R[e] \in {resv[e], None}
      /\ \A e \in Daemons : e # d /\ Valid(resv, e) => R[e] = resv[e]
  BY <1>2, <1>3
<1>9. CASE Valid(resv, d)
  <2>1. port = resv[d].port
    BY <1>9
  <2>2. resv[d] # None /\ resv[d].port \in Ports
    BY <1>0, <1>9 DEF Valid, Tidy, Reservation
  <2>3. \A e \in Daemons : R[e] = resv[e]
    BY <1>2, <1>3, <1>9
  <2>4. resv[d].port \notin outlived =>
          \A e \in Daemons : e # d /\ resv[e] # None => resv[e].port # resv[d].port
    BY <1>0, <2>2 DEF Tidy
  <2> HIDE DEF port
  <2> QED BY <1>1, <1>7, <1>8, <2>1, <2>2, <2>3, <2>4, NoneIsNoPort
<1>10. CASE ~Valid(resv, d) /\ Ports \ left # {}
  <2>1. port = Min(Ports \ left)
    BY <1>10
  <2>2. port \in Ports \ left
    BY <1>10, <2>1, MinIsOne, NoneIsNoPort
  <2>3. R[d] = None
    BY <1>2, <1>3, <1>10
  <2>4. port \notin outlived => \A e \in Daemons : R[e] # None => R[e].port # port
    BY <1>7, <2>2 DEF Tidy
  <2> HIDE DEF port
  <2> QED BY <1>1, <1>7, <1>8, <1>10, <2>2, <2>3, <2>4
<1>11. CASE ~Valid(resv, d) /\ ~(Ports \ left # {})
  <2>1. port = None
    BY <1>11
  <2> HIDE DEF port
  <2> QED BY <1>1, <1>7, <1>8, <1>11, <2>1
<1> QED BY <1>9, <1>10, <1>11

(* reserve_port on tidy tables, for a port that no other daemon holds unless  *)
(* it was outlived.                                                            *)
LEMMA Reserved ==
    ASSUME NEW d \in Daemons, NEW p \in Ports, NEW R, NEW U, Tidy(R, U, outlived),
           p \notin outlived => \A e \in Daemons : e # d /\ R[e] # None => R[e].port # p,
           R[d] # None => R[d].port = p,
           disk \in [Daemons -> Reservation \cup {None}], FirstsUnique(disk),
           outlived' = outlived, ReservePort(d, p, R, U)
    PROVE  /\ Tidy(resv', used', outlived')
           /\ disk' \in [Daemons -> Reservation \cup {None}] /\ saved' \in BOOLEAN
           /\ FirstsUnique(disk') /\ FileKeeps'
           /\ Valid(resv', d) /\ resv'[d].port = p
           /\ \A e \in Daemons : e # d =>
                /\ R[e] # None <=> resv'[e] # None
                /\ R[e] # None => resv'[e].port = R[e].port /\ resv'[e].old = R[e].old
<1>1. resv' = Reserve(R, d, p) /\ used' = U \cup {p} /\ Save(Reserve(R, d, p))
  BY DEF ReservePort
<1> DEFINE Q == Reserve(R, d, p)
<1>2. Fresh(p) \in Reservation /\ Fresh(p) # None /\ Fresh(p).port = p
      /\ ~Fresh(p).old /\ Fresh(p).first
  BY FreshTyped
<1>3. \A e \in Daemons : R[e] # None => R[e] \in Reservation
  BY DEF Tidy
<1>4. ASSUME NEW r \in Reservation
      PROVE  /\ [r EXCEPT !.first = FALSE] \in Reservation
             /\ [r EXCEPT !.first = FALSE].port = r.port
             /\ [r EXCEPT !.first = FALSE].old = r.old
             /\ ~[r EXCEPT !.first = FALSE].first
  BY Zenon DEF Reservation
<1>5. /\ Q[d] = Fresh(p)
      /\ \A e \in Daemons : e # d /\ R[e] # None /\ R[e].port = p =>
           Q[e] = [R[e] EXCEPT !.first = FALSE]
      /\ \A e \in Daemons : e # d /\ ~(R[e] # None /\ R[e].port = p) => Q[e] = R[e]
  BY DEF Reserve
<1>6. Q \in [Daemons -> Reservation \cup {None}]
  <2>1. Q = [e \in Daemons |-> Q[e]]
    BY DEF Reserve
  <2>2. ASSUME NEW e \in Daemons PROVE Q[e] \in Reservation \cup {None}
    <3>1. CASE e = d
      BY <1>2, <1>5, <3>1
    <3>2. CASE e # d /\ R[e] # None /\ R[e].port = p
      BY <1>3, <1>4, <1>5, <3>2
    <3>3. CASE e # d /\ ~(R[e] # None /\ R[e].port = p)
      BY <1>3, <1>5, <3>3
    <3> QED BY <3>1, <3>2, <3>3
  <2> QED BY <2>1, <2>2
<1> HIDE DEF Q
<1>7. \A e \in Daemons : e # d =>
        /\ R[e] # None <=> Q[e] # None
        /\ R[e] # None => Q[e].port = R[e].port /\ Q[e].old = R[e].old
        /\ Q[e] # None /\ Q[e].port = p => ~Q[e].first
        /\ Q[e] # None /\ Q[e].port # p => Q[e] = R[e]
  <2> TAKE e \in Daemons
  <2>1. CASE e # d /\ R[e] # None /\ R[e].port = p
    <3>1. Q[e] = [R[e] EXCEPT !.first = FALSE] /\ R[e] \in Reservation
      BY <1>3, <1>5, <2>1
    <3>2. Q[e] \in Reservation /\ Q[e].port = R[e].port /\ Q[e].old = R[e].old /\ ~Q[e].first
      BY <1>4, <3>1
    <3>3. Q[e] # None
      BY <3>2, NoneIsNoRecord
    <3> QED BY <2>1, <3>2, <3>3
  <2>2. CASE e # d /\ ~(R[e] # None /\ R[e].port = p)
    BY <1>5, <2>2
  <2> QED BY <2>1, <2>2
<1>8. Tidy(Q, U \cup {p}, outlived)
  <2>1. U \cup {p} \subseteq Ports
    BY DEF Tidy
  <2>2. \A q \in U \cup {p} : \E e \in Daemons : Q[e] # None /\ Q[e].port = q
    <3> SUFFICES ASSUME NEW q \in U, q # p
                 PROVE  \E e \in Daemons : Q[e] # None /\ Q[e].port = q
      BY <1>2, <1>5
    <3>1. PICK e \in Daemons : R[e] # None /\ R[e].port = q
      BY DEF Tidy
    <3> QED BY <1>7, <3>1
  <2>3. \A e \in Daemons : Q[e] # None => Q[e].port \in (U \cup {p}) \cup outlived
    BY <1>2, <1>5, <1>7 DEF Tidy
  <2>4. \A e, f \in Daemons :
          e # f /\ Q[e] # None /\ Q[f] # None /\ Q[e].port \notin outlived => Q[e].port # Q[f].port
    <3> SUFFICES ASSUME NEW e \in Daemons, NEW f \in Daemons, e # f, Q[e] # None, Q[f] # None,
                        Q[e].port \notin outlived, Q[e].port = Q[f].port
                 PROVE  FALSE
      OBVIOUS
    <3>1. CASE e # d /\ f # d
      BY <1>7, <3>1 DEF Tidy
    <3>2. CASE e = d \/ f = d
      BY <1>2, <1>5, <1>7, <3>2
    <3> QED BY <3>1, <3>2
  <2>5. \A e \in Daemons : Q[e] # None /\ Q[e].port \notin outlived => Q[e].first
    <3> SUFFICES ASSUME NEW e \in Daemons, Q[e] # None, Q[e].port \notin outlived
                 PROVE  Q[e].first
      OBVIOUS
    <3>1. CASE e = d
      BY <1>2, <1>5, <3>1
    <3>2. CASE e # d
      <4>1. R[e] # None /\ R[e].port = Q[e].port
        BY <1>7, <3>2
      <4>2. Q[e] = R[e]
        BY <1>7, <3>2, <4>1
      <4> QED BY <4>1, <4>2 DEF Tidy
    <3> QED BY <3>1, <3>2
  <2>6. FirstsUnique(Q)
    <3> SUFFICES ASSUME NEW e \in Daemons, NEW f \in Daemons, e # f, Q[e] # None, Q[f] # None,
                        Q[e].port = Q[f].port, Q[e].first, Q[f].first
                 PROVE  FALSE
      BY DEF FirstsUnique
    <3>1. CASE Q[e].port = p
      BY <1>7, <3>1
    <3>2. CASE Q[e].port # p
      <4>1. e # d /\ f # d
        BY <1>2, <1>5, <3>2
      <4>2. Q[e] = R[e] /\ Q[f] = R[f]
        BY <1>7, <3>2, <4>1
      <4> QED BY <4>2 DEF Tidy, FirstsUnique
    <3> QED BY <3>1, <3>2
  <2> QED BY <1>6, <2>1, <2>2, <2>3, <2>4, <2>5, <2>6 DEF Tidy
<1>9. resv' = Q /\ used' = U \cup {p} /\ outlived' = outlived
  BY <1>1 DEF Q
<1>10. (disk' = Q /\ saved' = TRUE) \/ (disk' \in {disk, NoReservations} /\ saved' = FALSE)
  BY <1>1 DEF Save, Q
<1>11. NoReservations \in [Daemons -> Reservation \cup {None}] /\ FirstsUnique(NoReservations)
  BY DEF NoReservations, FirstsUnique
<1>12. FirstsUnique(Q)
  BY <1>8 DEF Tidy
<1>13. disk' \in [Daemons -> Reservation \cup {None}] /\ saved' \in BOOLEAN /\ FirstsUnique(disk')
  BY <1>6, <1>10, <1>11, <1>12
<1>14. FileKeeps'
  <2> SUFFICES ASSUME disk' = Q, NEW e \in Daemons, Valid(Q, e), Q[e].port \notin outlived
               PROVE  Loaded'[e] = Q[e]
    BY <1>9, <1>10 DEF FileKeeps, Valid
  <2>1. Q[e] # None /\ Q[e].first
    BY <1>8 DEF Tidy, Valid
  <2> QED BY <2>1 DEF Loaded, Valid
<1>15. Valid(Q, d) /\ Q[d].port = p
  BY <1>2, <1>5 DEF Valid
<1>16. Tidy(resv', used', outlived')
  BY <1>8, <1>9
<1> QED BY <1>7, <1>9, <1>13, <1>14, <1>15, <1>16

LEMMA SetPortEffect ==
    ASSUME TablesTyped, NEW d \in Daemons, NEW p \in Ports \cup {None}, SetPort(d, p)
    PROVE  /\ daemons' \in [Daemons -> DaemonConn \cup {None}]
           /\ \A e \in Daemons : e # d => daemons'[e] = daemons[e]
           /\ daemons'[d] # None => daemons'[d].port = p
<1>1. CASE daemons[d] = None
  BY <1>1 DEF SetPort, TablesTyped
<1>2. CASE daemons[d] # None
  <2>1. daemons' = [daemons EXCEPT ![d] = [daemons[d] EXCEPT !.port = p]]
    BY <1>2 DEF SetPort
  <2>2. daemons[d] \in DaemonConn
    BY <1>2 DEF TablesTyped
  <2>3. [daemons[d] EXCEPT !.port = p] \in DaemonConn /\ [daemons[d] EXCEPT !.port = p].port = p
    BY <2>2 DEF DaemonConn
  <2> QED BY <2>1, <2>3 DEF TablesTyped
<1> QED BY <1>1, <1>2

(* Steps that leave the tables of the registry and the bridge alone. *)
LEMMA ResvUnchanged ==
    ASSUME IInv, UNCHANGED <<resv, used, files, outlived>>
    PROVE  /\ Tidy(resv', used', outlived') /\ FirstsUnique(disk') /\ FileKeeps'
           /\ disk' \in [Daemons -> Reservation \cup {None}] /\ saved' \in BOOLEAN
           /\ outlived' \subseteq Ports /\ Kept
<1>1. resv' = resv /\ used' = used /\ disk' = disk /\ saved' = saved /\ outlived' = outlived
  BY DEF files
<1>2. TablesTyped /\ PortsInv
  BY IInvTables
<1>3. FileKeeps'
  BY <1>1, <1>2 DEF PortsInv, FileKeeps, Loaded, Valid
<1>4. Kept
  BY <1>1 DEF Kept, Valid
<1> QED BY <1>1, <1>2, <1>3, <1>4 DEF TablesTyped, PortsInv

LEMMA ServedUnchanged ==
    ASSUME IInv, UNCHANGED <<listener, resv, outlived>>
    PROVE  ServedIsReserved'
BY DEF IInv, ServedIsReserved, Valid

LEMMA TablesUnchanged ==
    ASSUME IInv, UNCHANGED <<daemons, listener, resv, used, files, outlived>>
    PROVE  TablesTyped' /\ PortsInv' /\ Kept
<1>1. AdvertisedIsServed'
  BY DEF IInv, AdvertisedIsServed
<1>2. daemons' \in [Daemons -> DaemonConn \cup {None}] /\ listener' \in [Daemons -> Ports \cup {None}]
  BY DEF IInv, TypeOK
<1> QED BY <1>1, <1>2, ResvUnchanged, ServedUnchanged DEF TablesTyped, PortsInv

LEMMA EnabledPorts ==
    ASSUME IInv, NEW d \in Daemons, OnSshEnabled(d), outlived' = outlived
    PROVE  TablesTyped' /\ PortsInv' /\ Kept
<1> DEFINE a == AllocatePort(d)
<1>0. TablesTyped /\ PortsInv
  BY IInvTables
<1>1. CASE listener[d] # None
  <2>1. SetPort(d, listener[d]) /\ UNCHANGED <<listener, resv, used, files>>
    BY <1>1 DEF OnSshEnabled
  <2>2. /\ daemons' \in [Daemons -> DaemonConn \cup {None}]
        /\ \A e \in Daemons : e # d => daemons'[e] = daemons[e]
        /\ daemons'[d] # None => daemons'[d].port = listener[d]
    BY <1>0, <2>1, SetPortEffect DEF TablesTyped
  <2>3. AdvertisedIsServed'
    BY <1>0, <2>1, <2>2 DEF AdvertisedIsServed, PortsInv
  <2>4. ServedIsReserved'
    BY <2>1, ServedUnchanged
  <2> QED BY <1>0, <2>1, <2>2, <2>3, <2>4, ResvUnchanged DEF TablesTyped, PortsInv
<1>2. /\ Tidy(a.resv, a.used, outlived)
      /\ \A e \in Daemons : a.resv[e] \in {resv[e], None}
      /\ \A e \in Daemons : e # d /\ Valid(resv, e) => a.resv[e] = resv[e]
      /\ a.port \in Ports \cup {None}
      /\ a.port # None /\ a.port \notin outlived =>
           \A e \in Daemons : e # d /\ a.resv[e] # None => a.resv[e].port # a.port
      /\ a.port # None /\ a.resv[d] # None => a.resv[d].port = a.port
      /\ Valid(resv, d) => a.port # None /\ a.port = resv[d].port
  BY Allocated
<1>3. ASSUME NEW e \in Daemons, e # d, listener[e] # None,
             NEW r, r # None <=> a.resv[e] # None,
             r # None => r.port = a.resv[e].port /\ r.old = a.resv[e].old
      PROVE  /\ r # None => r.port = listener[e]
             /\ listener[e] \in outlived \/ (r # None /\ ~r.old)
  <2>1. /\ resv[e] # None => resv[e].port = listener[e]
        /\ listener[e] \in outlived \/ Valid(resv, e)
    BY <1>0, <1>3 DEF PortsInv, ServedIsReserved
  <2> HIDE DEF a
  <2> QED BY <1>2, <1>3, <2>1 DEF Valid
<1>4. CASE listener[d] = None /\ a.port = None
  <2>1. /\ resv' = a.resv /\ used' = a.used
        /\ \/ UNCHANGED files
           \/ disk' = a.resv /\ saved' = TRUE
           \/ disk' \in {disk, NoReservations} /\ saved' = FALSE
        /\ UNCHANGED <<daemons, listener>>
    BY <1>4 DEF OnSshEnabled, Save
  <2> HIDE DEF a
  <2>2. \A e \in Daemons : Valid(resv', e) => resv'[e] = resv[e] /\ Valid(resv, e)
    BY <1>2, <2>1 DEF Valid
  <2>3. FirstsUnique(a.resv) /\ a.resv \in [Daemons -> Reservation \cup {None}]
    BY <1>2 DEF Tidy
  <2>4. NoReservations \in [Daemons -> Reservation \cup {None}] /\ FirstsUnique(NoReservations)
    BY DEF NoReservations, FirstsUnique
  <2>5. /\ disk' \in [Daemons -> Reservation \cup {None}] /\ saved' \in BOOLEAN
        /\ FirstsUnique(disk')
    <3>1. CASE UNCHANGED files
      BY <1>0, <3>1 DEF TablesTyped, PortsInv, files
    <3>2. CASE disk' = a.resv /\ saved' = TRUE
      BY <2>3, <3>2
    <3>3. CASE disk' \in {disk, NoReservations} /\ saved' = FALSE
      BY <1>0, <2>4, <3>3 DEF TablesTyped, PortsInv
    <3> QED BY <2>1, <3>1, <3>2, <3>3
  <2>6. FileKeeps'
    <3> SUFFICES ASSUME saved', NEW e \in Daemons, Valid(resv', e), resv'[e].port \notin outlived
                 PROVE  Loaded'[e] = resv'[e]
      BY DEF FileKeeps, Valid
    <3>1. CASE UNCHANGED files
      <4>1. saved /\ Loaded' = Loaded
        BY <3>1 DEF files, Loaded, Valid
      <4> QED BY <1>0, <2>2, <4>1 DEF PortsInv, FileKeeps
    <3>2. CASE disk' = a.resv
      <4>1. a.resv[e] # None /\ ~a.resv[e].old /\ a.resv[e].first
        BY <1>2, <2>1 DEF Tidy, Valid
      <4> QED BY <2>1, <3>2, <4>1 DEF Loaded, Valid
    <3> QED BY <2>1, <3>1, <3>2
  <2>7. ServedIsReserved'
    <3> SUFFICES ASSUME NEW e \in Daemons, listener'[e] # None
                 PROVE  /\ resv'[e] # None => resv'[e].port = listener'[e]
                        /\ listener'[e] \in outlived' \/ Valid(resv', e)
      BY DEF ServedIsReserved, Valid
    <3>1. e # d /\ listener[e] # None /\ listener'[e] = listener[e] /\ resv'[e] = a.resv[e]
      BY <1>4, <2>1
    <3> QED BY <1>3, <3>1 DEF Valid
  <2>8. AdvertisedIsServed'
    BY <1>0, <2>1 DEF PortsInv, AdvertisedIsServed
  <2>9. Kept
    BY <1>2, <1>4, <2>1 DEF Kept, Valid
  <2> QED BY <1>0, <1>2, <2>1, <2>5, <2>6, <2>7, <2>8, <2>9 DEF TablesTyped, PortsInv
<1>5. CASE listener[d] = None /\ a.port # None
  <2>1. /\ SetPort(d, a.port)
        /\ ReservePort(d, a.port, a.resv, a.used)
        /\ listener' = [listener EXCEPT ![d] = a.port]
    BY <1>5 DEF OnSshEnabled, SpawnListener
  <2> HIDE DEF a
  <2>2. a.port \in Ports
    BY <1>2, <1>5
  <2>3. /\ daemons' \in [Daemons -> DaemonConn \cup {None}]
        /\ \A e \in Daemons : e # d => daemons'[e] = daemons[e]
        /\ daemons'[d] # None => daemons'[d].port = a.port
    BY <1>0, <2>1, <2>2, SetPortEffect
  <2>4. disk \in [Daemons -> Reservation \cup {None}] /\ FirstsUnique(disk)
    BY <1>0 DEF TablesTyped, PortsInv
  <2>5. /\ Tidy(resv', used', outlived')
        /\ disk' \in [Daemons -> Reservation \cup {None}] /\ saved' \in BOOLEAN
        /\ FirstsUnique(disk') /\ FileKeeps'
        /\ Valid(resv', d) /\ resv'[d].port = a.port
        /\ \A e \in Daemons : e # d =>
             /\ a.resv[e] # None <=> resv'[e] # None
             /\ a.resv[e] # None => resv'[e].port = a.resv[e].port /\ resv'[e].old = a.resv[e].old
    BY <1>2, <1>5, <2>1, <2>2, <2>4, Reserved
  <2>6. /\ listener' \in [Daemons -> Ports \cup {None}]
        /\ listener'[d] = a.port
        /\ \A e \in Daemons : e # d => listener'[e] = listener[e]
    BY <1>0, <2>1, <2>2 DEF TablesTyped
  <2>7. ServedIsReserved'
    <3> SUFFICES ASSUME NEW e \in Daemons, listener'[e] # None
                 PROVE  /\ resv'[e] # None => resv'[e].port = listener'[e]
                        /\ listener'[e] \in outlived' \/ Valid(resv', e)
      BY DEF ServedIsReserved, Valid
    <3>1. CASE e = d
      BY <2>5, <2>6, <3>1
    <3>2. CASE e # d
      <4>1. listener[e] # None /\ listener'[e] = listener[e]
        BY <2>6, <3>2
      <4>2. /\ resv'[e] # None <=> a.resv[e] # None
            /\ resv'[e] # None => resv'[e].port = a.resv[e].port /\ resv'[e].old = a.resv[e].old
        BY <2>5, <3>2
      <4>3. /\ resv'[e] # None => resv'[e].port = listener[e]
            /\ listener[e] \in outlived \/ (resv'[e] # None /\ ~resv'[e].old)
        BY <1>3, <3>2, <4>1, <4>2
      <4> QED BY <4>1, <4>3 DEF Valid
    <3> QED BY <3>1, <3>2
  <2>8. AdvertisedIsServed'
    BY <1>0, <2>3, <2>6 DEF PortsInv, AdvertisedIsServed
  <2>9. Kept
    <3> SUFFICES ASSUME NEW e \in Daemons, Valid(resv, e)
                 PROVE  resv'[e] # None /\ resv'[e].port = resv[e].port
      BY DEF Kept
    <3>1. CASE e = d
      BY <1>2, <2>5, <3>1 DEF Valid
    <3>2. CASE e # d
      BY <1>2, <2>5, <3>2 DEF Valid
    <3> QED BY <3>1, <3>2
  <2> QED BY <1>0, <2>3, <2>5, <2>6, <2>7, <2>8, <2>9 DEF TablesTyped, PortsInv
<1> QED BY <1>1, <1>4, <1>5

(* A port that is served is reserved again for its daemon, by on_ssh_disabled, *)
(* on_daemon_disconnect and unregister alike.                                  *)
LEMMA ReservedAgain ==
    ASSUME IInv, NEW d \in Daemons, listener[d] # None, outlived' = outlived,
           ReservePort(d, listener[d], resv, used)
    PROVE  /\ Tidy(resv', used', outlived')
           /\ disk' \in [Daemons -> Reservation \cup {None}] /\ saved' \in BOOLEAN
           /\ FirstsUnique(disk') /\ FileKeeps'
           /\ Valid(resv', d) /\ resv'[d].port = listener[d]
           /\ \A e \in Daemons : e # d =>
                /\ resv[e] # None <=> resv'[e] # None
                /\ resv[e] # None => resv'[e].port = resv[e].port /\ resv'[e].old = resv[e].old
           /\ Kept
<1> DEFINE p == listener[d]
<1>0. TablesTyped /\ PortsInv
  BY IInvTables
<1>1. p \in Ports /\ (resv[d] # None => resv[d].port = p)
  BY <1>0 DEF TablesTyped, PortsInv, ServedIsReserved
<1>2. p \notin outlived => \A e \in Daemons : e # d /\ resv[e] # None => resv[e].port # p
  <2> SUFFICES ASSUME p \notin outlived
               PROVE  \A e \in Daemons : e # d /\ resv[e] # None => resv[e].port # p
    OBVIOUS
  <2>1. resv[d] # None /\ resv[d].port = p
    BY <1>0 DEF PortsInv, ServedIsReserved, Valid
  <2> QED BY <1>0, <2>1 DEF PortsInv, Tidy
<1>3. /\ Tidy(resv, used, outlived) /\ FirstsUnique(disk)
      /\ disk \in [Daemons -> Reservation \cup {None}]
  BY <1>0 DEF TablesTyped, PortsInv
<1>4. ReservePort(d, p, resv, used)
  OBVIOUS
<1> HIDE DEF p
<1>5. /\ Tidy(resv', used', outlived')
      /\ disk' \in [Daemons -> Reservation \cup {None}] /\ saved' \in BOOLEAN
      /\ FirstsUnique(disk') /\ FileKeeps'
      /\ Valid(resv', d) /\ resv'[d].port = p
      /\ \A e \in Daemons : e # d =>
           /\ resv[e] # None <=> resv'[e] # None
           /\ resv[e] # None => resv'[e].port = resv[e].port /\ resv'[e].old = resv[e].old
  BY <1>1, <1>2, <1>3, <1>4, Reserved
<1>6. Kept
  BY <1>1, <1>5 DEF Kept, Valid
<1> QED BY <1>5, <1>6 DEF p

LEMMA ServedAgain ==
    ASSUME IInv, NEW d \in Daemons, listener[d] # None, outlived' = outlived,
           ReservePort(d, listener[d], resv, used),
           \A e \in Daemons : listener'[e] = listener[e] \/ listener'[e] = None
    PROVE  ServedIsReserved'
<1> SUFFICES ASSUME NEW e \in Daemons, listener'[e] # None
             PROVE  /\ resv'[e] # None => resv'[e].port = listener'[e]
                    /\ listener'[e] \in outlived' \/ Valid(resv', e)
  BY DEF ServedIsReserved, Valid
<1>1. listener'[e] = listener[e] /\ listener[e] # None
  OBVIOUS
<1>2. /\ resv[e] # None => resv[e].port = listener[e]
      /\ listener[e] \in outlived \/ Valid(resv, e)
  BY <1>1 DEF IInv, ServedIsReserved
<1>3. CASE e = d
  BY <1>1, <1>3, ReservedAgain
<1>4. CASE e # d
  <2>1. /\ resv[e] # None <=> resv'[e] # None
        /\ resv[e] # None => resv'[e].port = resv[e].port /\ resv'[e].old = resv[e].old
    BY <1>4, ReservedAgain
  <2> QED BY <1>1, <1>2, <2>1 DEF Valid
<1> QED BY <1>3, <1>4

LEMMA RemovedPorts ==
    ASSUME IInv, NEW d \in Daemons, RemoveListener(d), outlived' = outlived
    PROVE  TablesTyped' /\ PortsInv' /\ Kept
<1>0. TablesTyped /\ PortsInv
  BY IInvTables
<1>1. CASE listener[d] = None
  BY <1>1, TablesUnchanged DEF RemoveListener
<1>2. CASE listener[d] # None
  <2>1. /\ listener' = [listener EXCEPT ![d] = None]
        /\ ReservePort(d, listener[d], resv, used)
        /\ SetPort(d, None)
    BY <1>2 DEF RemoveListener, AbortListener
  <2>2. /\ Tidy(resv', used', outlived')
        /\ disk' \in [Daemons -> Reservation \cup {None}] /\ saved' \in BOOLEAN
        /\ FirstsUnique(disk') /\ FileKeeps' /\ Kept
    BY <1>2, <2>1, ReservedAgain
  <2>3. /\ daemons' \in [Daemons -> DaemonConn \cup {None}]
        /\ \A e \in Daemons : e # d => daemons'[e] = daemons[e]
        /\ daemons'[d] # None => daemons'[d].port = None
    BY <1>0, <2>1, SetPortEffect
  <2>4. /\ listener' \in [Daemons -> Ports \cup {None}]
        /\ listener'[d] = None
        /\ \A e \in Daemons : e # d => listener'[e] = listener[e]
    BY <1>0, <2>1 DEF TablesTyped
  <2>5. ServedIsReserved'
    BY <1>2, <2>1, <2>4, ServedAgain
  <2>6. AdvertisedIsServed'
    BY <1>0, <2>3, <2>4 DEF PortsInv, AdvertisedIsServed
  <2> QED BY <1>0, <2>2, <2>3, <2>4, <2>5, <2>6 DEF TablesTyped, PortsInv
<1> QED BY <1>1, <1>2

LEMMA CommittedPorts ==
    ASSUME IInv, NEW s \in Streams, conn[s].d \in Daemons, RegisterCommit(s)
    PROVE  TablesTyped' /\ PortsInv' /\ Kept
<1> DEFINE d == conn[s].d
           new == [stream |-> s, ssh |-> conn[s].ssh, port |-> None]
<1>0. TablesTyped /\ PortsInv
  BY IInvTables
<1>1. daemons' = [daemons EXCEPT ![d] = new] /\ UNCHANGED <<listener, resv, used, files, outlived>>
  BY DEF RegisterCommit
<1>2. new \in DaemonConn /\ new.port = None
  BY DEF IInv, TypeOK, Handler, DaemonConn
<1> HIDE DEF new
<1>3. daemons' \in [Daemons -> DaemonConn \cup {None}]
  BY <1>0, <1>1, <1>2 DEF TablesTyped
<1>4. AdvertisedIsServed'
  BY <1>0, <1>1, <1>2 DEF TablesTyped, PortsInv, AdvertisedIsServed
<1> QED BY <1>0, <1>1, <1>3, <1>4, ResvUnchanged, ServedUnchanged DEF TablesTyped, PortsInv

LEMMA AdvertisedPorts ==
    ASSUME IInv, NEW s \in Streams, conn[s].d \in Daemons, Advertise(s)
    PROVE  TablesTyped' /\ PortsInv' /\ Kept
<1> DEFINE d == conn[s].d
<1>0. TablesTyped /\ PortsInv
  BY IInvTables
<1>1. UNCHANGED <<listener, resv, used, files, outlived>>
  BY DEF Advertise
<1>2. CASE daemons[d] = None
  <2>1. UNCHANGED daemons
    BY <1>2 DEF Advertise
  <2> QED BY <1>1, <2>1, TablesUnchanged
<1>3. CASE daemons[d] # None
  <2> DEFINE new == [daemons[d] EXCEPT !.ssh = allowed[d]]
  <2>1. daemons' = [daemons EXCEPT ![d] = new]
    BY <1>3 DEF Advertise
  <2>2. daemons[d] \in DaemonConn /\ allowed[d] \in BOOLEAN
    BY <1>3 DEF IInv, TypeOK
  <2>3. new \in DaemonConn /\ new.port = daemons[d].port
    BY <2>2 DEF DaemonConn
  <2> HIDE DEF new
  <2>4. daemons' \in [Daemons -> DaemonConn \cup {None}]
    BY <1>0, <2>1, <2>3 DEF TablesTyped
  <2>5. \A e \in Daemons : daemons'[e] = IF e = d THEN new ELSE daemons[e]
    BY <1>0, <2>1 DEF TablesTyped
  <2>6. AdvertisedIsServed'
    BY <1>0, <1>1, <1>3, <2>3, <2>5 DEF PortsInv, AdvertisedIsServed
  <2> QED BY <1>0, <1>1, <2>4, <2>6, ResvUnchanged, ServedUnchanged DEF TablesTyped, PortsInv
<1> QED BY <1>2, <1>3

LEMMA ClosedPorts ==
    ASSUME IInv, NEW s \in Streams, conn[s].d \in Daemons, Close(s)
    PROVE  TablesTyped' /\ PortsInv' /\ Kept
<1> DEFINE d == conn[s].d
           mine == conn[s].reg /\ daemons[d] # None /\ daemons[d].stream = s
           port == IF mine THEN daemons[d].port ELSE None
<1>0. TablesTyped /\ PortsInv
  BY IInvTables
<1>1. /\ daemons' = IF mine THEN [daemons EXCEPT ![d] = None] ELSE daemons
      /\ UNCHANGED <<listener, outlived>>
  BY DEF Close
<1>2. /\ daemons' \in [Daemons -> DaemonConn \cup {None}]
      /\ \A e \in Daemons : daemons'[e] \in {daemons[e], None}
  BY <1>0, <1>1 DEF TablesTyped
<1>3. AdvertisedIsServed'
  BY <1>0, <1>1, <1>2 DEF PortsInv, AdvertisedIsServed
<1>4. CASE port = None
  <2>1. UNCHANGED <<resv, used, files>>
    BY <1>4 DEF Close
  <2> QED BY <1>0, <1>1, <1>2, <1>3, <2>1, ResvUnchanged, ServedUnchanged DEF TablesTyped, PortsInv
<1>5. CASE port # None
  <2>1. ReservePort(d, port, resv, used)
    BY <1>5 DEF Close
  <2>2. mine /\ port = daemons[d].port
    BY <1>5
  <2>3. listener[d] = port
    BY <1>0, <1>5, <2>2 DEF PortsInv, AdvertisedIsServed
  <2>4. listener[d] # None /\ ReservePort(d, listener[d], resv, used)
    BY <1>5, <2>1, <2>3
  <2> HIDE DEF port, mine, d
  <2>5. /\ Tidy(resv', used', outlived')
        /\ disk' \in [Daemons -> Reservation \cup {None}] /\ saved' \in BOOLEAN
        /\ FirstsUnique(disk') /\ FileKeeps' /\ Kept
    BY <1>1, <2>4, ReservedAgain DEF d
  <2>6. ServedIsReserved'
    BY <1>1, <2>4, ServedAgain DEF d
  <2> QED BY <1>0, <1>1, <1>2, <1>3, <2>5, <2>6 DEF TablesTyped, PortsInv
<1> QED BY <1>4, <1>5

(* Time passes for the reservations R. *)
LEMMA AgedTable ==
    ASSUME NEW R \in [Daemons -> Reservation \cup {None}], NEW d \in Daemons
    PROVE  /\ Aged(R, d) \in [Daemons -> Reservation \cup {None}]
           /\ \A e \in Daemons :
                /\ Aged(R, d)[e] # None <=> R[e] # None
                /\ R[e] # None => /\ Aged(R, d)[e].port = R[e].port
                                  /\ Aged(R, d)[e].first = R[e].first
                /\ Valid(Aged(R, d), e) => Valid(R, e) /\ Aged(R, d)[e] = R[e]
                /\ Valid(R, e) /\ ~Valid(Aged(R, d), e) => e \in NotNewer(R, d)
                /\ e \in NotNewer(R, d) => ~Valid(Aged(R, d), e)
<1>1. ASSUME NEW r \in Reservation
      PROVE  /\ [r EXCEPT !.old = TRUE] \in Reservation
             /\ [r EXCEPT !.old = TRUE].port = r.port
             /\ [r EXCEPT !.old = TRUE].first = r.first
             /\ [r EXCEPT !.old = TRUE].old
  BY Zenon DEF Reservation
<1>2. \A e \in NotNewer(R, d) : e \in Daemons /\ R[e] # None /\ R[e] \in Reservation
  BY DEF NotNewer
<1>3. \A e \in Daemons : Aged(R, d)[e] = IF e \in NotNewer(R, d) THEN [R[e] EXCEPT !.old = TRUE]
                                                                ELSE R[e]
  BY DEF Aged
<1>4. \A e \in Daemons : Aged(R, d)[e] \in Reservation \cup {None}
  BY <1>1, <1>2, <1>3
<1>5. Aged(R, d) \in [Daemons -> Reservation \cup {None}]
  <2>1. Aged(R, d) = [e \in Daemons |-> Aged(R, d)[e]]
    BY DEF Aged
  <2> QED BY <1>4, <2>1
<1>6. ASSUME NEW e \in Daemons
      PROVE  /\ Aged(R, d)[e] # None <=> R[e] # None
             /\ R[e] # None => /\ Aged(R, d)[e].port = R[e].port
                               /\ Aged(R, d)[e].first = R[e].first
             /\ Valid(Aged(R, d), e) => Valid(R, e) /\ Aged(R, d)[e] = R[e]
             /\ Valid(R, e) /\ ~Valid(Aged(R, d), e) => e \in NotNewer(R, d)
             /\ e \in NotNewer(R, d) => ~Valid(Aged(R, d), e)
  <2>1. CASE e \in NotNewer(R, d)
    <3>1. Aged(R, d)[e] = [R[e] EXCEPT !.old = TRUE] /\ R[e] \in Reservation /\ R[e] # None
      BY <1>2, <1>3, <2>1
    <3>2. /\ Aged(R, d)[e] \in Reservation /\ Aged(R, d)[e].port = R[e].port
          /\ Aged(R, d)[e].first = R[e].first /\ Aged(R, d)[e].old
      BY <1>1, <3>1
    <3>3. Aged(R, d)[e] # None
      BY <3>2, NoneIsNoRecord
    <3> QED BY <2>1, <3>1, <3>2, <3>3 DEF Valid
  <2>2. CASE e \notin NotNewer(R, d)
    BY <1>3, <2>2 DEF Valid
  <2> QED BY <2>1, <2>2
<1> QED BY <1>5, <1>6

LEMMA AgedPorts ==
    ASSUME IInv, NEW d \in Daemons, NEW both \in BOOLEAN, Age(d, both)
    PROVE  TablesTyped' /\ PortsInv' /\ Kept
<1> DEFINE out == {listener[e] : e \in NotNewer(resv, d)} \ {None}
<1>0. TablesTyped /\ PortsInv /\ Tidy(resv, used, outlived)
  BY IInvTables DEF PortsInv
<1>1. /\ UNCHANGED <<daemons, listener, used, saved>> /\ disk' = Aged(disk, d)
      /\ both => resv' = Aged(resv, d) /\ outlived' = outlived \cup out
      /\ ~both => resv' = resv /\ outlived' = outlived /\ ~saved
  BY DEF Age
<1>2. resv \in [Daemons -> Reservation \cup {None}] /\ disk \in [Daemons -> Reservation \cup {None}]
  BY <1>0 DEF Tidy, TablesTyped
<1>3. /\ disk' \in [Daemons -> Reservation \cup {None}]
      /\ \A e \in Daemons :
           /\ disk'[e] # None <=> disk[e] # None
           /\ disk[e] # None => disk'[e].port = disk[e].port /\ disk'[e].first = disk[e].first
           /\ Valid(disk', e) => Valid(disk, e) /\ disk'[e] = disk[e]
           /\ Valid(disk, e) /\ ~Valid(disk', e) => e \in NotNewer(disk, d)
  BY <1>1, <1>2, AgedTable
<1>4. /\ resv' \in [Daemons -> Reservation \cup {None}]
      /\ \A e \in Daemons :
           /\ resv'[e] # None <=> resv[e] # None
           /\ resv[e] # None => resv'[e].port = resv[e].port /\ resv'[e].first = resv[e].first
           /\ Valid(resv', e) => Valid(resv, e) /\ resv'[e] = resv[e]
           /\ both /\ Valid(resv, e) /\ ~Valid(resv', e) => e \in NotNewer(resv, d)
           /\ both /\ e \in NotNewer(resv, d) => ~Valid(resv', e)
  <2>1. CASE both
    BY <1>1, <1>2, <2>1, AgedTable
  <2>2. CASE ~both
    BY <1>1, <1>2, <2>2
  <2> QED BY <2>1, <2>2
<1>5. outlived \subseteq outlived' /\ outlived' \subseteq Ports
  <2>1. out \subseteq Ports
    BY <1>0 DEF TablesTyped, NotNewer
  <2> HIDE DEF out
  <2> QED BY <1>0, <1>1, <2>1 DEF TablesTyped
<1>6. Tidy(resv', used', outlived')
  <2>1. FirstsUnique(resv')
    BY <1>0, <1>4 DEF Tidy, FirstsUnique
  <2>2. \A p \in used' : \E e \in Daemons : resv'[e] # None /\ resv'[e].port = p
    BY <1>0, <1>1, <1>4 DEF Tidy
  <2>3. /\ \A e \in Daemons : resv'[e] # None => resv'[e].port \in used' \cup outlived'
        /\ \A e, f \in Daemons : e # f /\ resv'[e] # None /\ resv'[f] # None
                                  /\ resv'[e].port \notin outlived' => resv'[e].port # resv'[f].port
        /\ \A e \in Daemons : resv'[e] # None /\ resv'[e].port \notin outlived' => resv'[e].first
    BY <1>0, <1>1, <1>4, <1>5 DEF Tidy
  <2> QED BY <1>0, <1>1, <1>4, <2>1, <2>2, <2>3 DEF Tidy
<1>7. FirstsUnique(disk')
  BY <1>0, <1>3 DEF PortsInv, FirstsUnique
<1>8. ServedIsReserved'
  <2> SUFFICES ASSUME NEW e \in Daemons, listener[e] # None
               PROVE  /\ resv'[e] # None => resv'[e].port = listener[e]
                      /\ listener[e] \in outlived' \/ Valid(resv', e)
    BY <1>1 DEF ServedIsReserved, Valid
  <2>1. /\ resv[e] # None => resv[e].port = listener[e]
        /\ listener[e] \in outlived \/ Valid(resv, e)
    BY <1>0 DEF PortsInv, ServedIsReserved
  <2>2. CASE both /\ e \in NotNewer(resv, d)
    <3>1. listener[e] \in out
      BY <2>2
    <3> HIDE DEF out
    <3> QED BY <1>1, <1>4, <2>1, <2>2, <3>1
  <2>3. CASE ~(both /\ e \in NotNewer(resv, d))
    <3>1. Valid(resv, e) => Valid(resv', e)
      BY <1>1, <1>4, <2>3
    <3> QED BY <1>4, <1>5, <2>1, <3>1
  <2> QED BY <2>2, <2>3
<1>9. FileKeeps'
  <2> SUFFICES ASSUME saved, NEW e \in Daemons, Valid(resv', e), resv'[e].port \notin outlived'
               PROVE  Loaded'[e] = resv'[e]
    BY <1>1 DEF FileKeeps, Valid
  <2>1. both /\ Valid(resv, e) /\ resv'[e] = resv[e] /\ resv[e].port \notin outlived
        /\ e \notin NotNewer(resv, d)
    BY <1>1, <1>4, <1>5
  <2>2. Loaded[e] = resv[e] /\ resv[e] # None
    BY <1>0, <2>1 DEF PortsInv, FileKeeps, Valid
  <2>3. Valid(disk, e) /\ disk[e].first /\ disk[e] = resv[e]
    BY <2>2 DEF Loaded
  <2>4. e \notin NotNewer(disk, d)
    <3> SUFFICES ASSUME e \in NotNewer(disk, d), e # d
                 PROVE  FALSE
      BY <2>1, <2>2 DEF NotNewer
    <3>1. disk[d] # None /\ disk[d].first /\ disk[e].port = disk[d].port
      BY DEF NotNewer
    <3> QED BY <1>0, <2>2, <2>3, <3>1 DEF PortsInv, FirstsUnique
  <2>5. Valid(disk', e) /\ disk'[e] = disk[e]
    BY <1>3, <2>3, <2>4
  <2> QED BY <2>1, <2>3, <2>5 DEF Loaded, Valid
<1>10. AdvertisedIsServed'
  BY <1>0, <1>1 DEF PortsInv, AdvertisedIsServed
<1>11. Kept
  BY <1>4 DEF Kept, Valid
<1> HIDE DEF out
<1> QED BY <1>0, <1>1, <1>3, <1>5, <1>6, <1>7, <1>8, <1>9, <1>10, <1>11 DEF TablesTyped, PortsInv

(* DaemonRegistry::new: at most one instance keeps a port, whatever the file. *)
LEMMA LoadedTidy ==
    ASSUME disk \in [Daemons -> Reservation \cup {None}], FirstsUnique(disk)
    PROVE  Tidy(Loaded, PortsOf(Loaded, Daemons), {})
<1>1. \A d \in Daemons : Loaded[d] = IF Valid(disk, d) /\ disk[d].first THEN disk[d] ELSE None
  BY DEF Loaded
<1>2. Loaded \in [Daemons -> Reservation \cup {None}]
  BY DEF Loaded
<1>3. \A p : p \in PortsOf(Loaded, Daemons) <=> \E d \in Daemons : Loaded[d] # None /\ Loaded[d].port = p
  BY DEF PortsOf
<1>4. PortsOf(Loaded, Daemons) \subseteq Ports
  BY <1>2, <1>3 DEF Reservation
<1>5. \A d \in Daemons : Loaded[d] # None => Loaded[d] = disk[d] /\ disk[d].first
  BY <1>1
<1>6. \A d, e \in Daemons :
        d # e /\ Loaded[d] # None /\ Loaded[e] # None => Loaded[d].port # Loaded[e].port
  BY <1>5 DEF FirstsUnique
<1>7. FirstsUnique(Loaded)
  BY <1>6 DEF FirstsUnique
<1> HIDE DEF Loaded
<1> QED BY <1>2, <1>3, <1>4, <1>5, <1>6, <1>7 DEF Tidy

LEMMA FreshTables ==
    ASSUME disk \in [Daemons -> Reservation \cup {None}], FirstsUnique(disk),
           resv = Loaded, used = PortsOf(Loaded, Daemons), saved = TRUE, outlived = {},
           daemons = [d \in Daemons |-> None], listener = [d \in Daemons |-> None]
    PROVE  TablesTyped /\ PortsInv
<1>1. Tidy(resv, used, outlived)
  BY LoadedTidy
<1>2. ServedIsReserved /\ AdvertisedIsServed
  BY DEF ServedIsReserved, AdvertisedIsServed
<1>3. FileKeeps
  BY DEF FileKeeps
<1> QED BY <1>1, <1>2, <1>3 DEF TablesTyped, PortsInv

LEMMA RestartedPorts ==
    ASSUME IInv, Restart
    PROVE  TablesTyped' /\ PortsInv'
<1>0. TablesTyped /\ PortsInv
  BY IInvTables
<1>1. /\ resv' = Loaded /\ used' = PortsOf(Loaded, Daemons)
      /\ daemons' = [d \in Daemons |-> None] /\ listener' = [d \in Daemons |-> None]
      /\ disk' = disk /\ saved' = TRUE /\ outlived' = {}
  BY DEF Restart
<1>2. Tidy(Loaded, PortsOf(Loaded, Daemons), {})
  BY <1>0, LoadedTidy DEF TablesTyped, PortsInv
<1>3. TablesTyped'
  BY <1>0, <1>1 DEF TablesTyped
<1>4. Tidy(resv', used', outlived')
  BY <1>1, <1>2
<1>5. FirstsUnique(disk')
  BY <1>0, <1>1 DEF PortsInv
<1>6. ServedIsReserved' /\ AdvertisedIsServed'
  BY <1>1 DEF ServedIsReserved, AdvertisedIsServed
<1>7. FileKeeps'
  <2>1. Loaded' = Loaded
    BY <1>1 DEF Loaded, Valid
  <2> QED BY <1>1, <2>1 DEF FileKeeps
<1> QED BY <1>3, <1>4, <1>5, <1>6, <1>7 DEF PortsInv

(* What a restart keeps: every reservation of a completed save. *)
LEMMA RestartKeeps ==
    ASSUME IInv, Restart, saved, NEW d \in Daemons, Valid(resv, d), resv[d].port \notin outlived
    PROVE  resv'[d] # None /\ resv'[d].port = resv[d].port
<1>1. resv' = Loaded /\ Loaded[d] = resv[d] /\ resv[d] # None
  BY DEF Restart, IInv, FileKeeps, Valid
<1> QED BY <1>1

-----------------------------------------------------------------------------
(* Handlers. *)

HandlersOK == conn \in [Streams -> Handler] /\ HandlersOwned

RestTyped ==
    /\ rpc \in [Daemons -> Streams \cup {None}] /\ allowed \in [Daemons -> BOOLEAN]
    /\ task \in [Daemons -> {"none", "starting", "bound", "dead"}]
    /\ lingering \subseteq Ports /\ bridge \in BOOLEAN

(* A handler in use keeps its daemon. *)
LEMMA HandlerSet ==
    ASSUME IInv, NEW s \in Streams, NEW h \in Handler,
           h.pc = "free" \/ h.d \in Daemons,
           conn' = [conn EXCEPT ![s] = h]
    PROVE  HandlersOK'
<1>1. conn' \in [Streams -> Handler]
  BY DEF IInv, TypeOK
<1>2. \A q \in Streams : conn'[q] = IF q = s THEN h ELSE conn[q]
  BY DEF IInv, TypeOK
<1>3. HandlersOwned'
  BY <1>2 DEF IInv, HandlersOwned
<1> QED BY <1>1, <1>3 DEF HandlersOK

LEMMA NoHandlerTyped == NoHandler \in Handler /\ NoHandler.pc = "free"
<1>1. NoHandler.pc = "free"
  BY DEF NoHandler
<1>2. NoHandler \in Handler
  BY DEF NoHandler, Handler
<1> QED BY <1>1, <1>2

(* A step of a handler in use that moves it on, and may note its register. *)
LEMMA HandlerMoves ==
    ASSUME IInv, NEW s \in Streams, conn[s].pc # "free",
           NEW pc \in {"serving", "validating", "enable", "advert", "advEnable",
                       "advDisable", "unbridge", "cleanup"},
           NEW ssh \in BOOLEAN, NEW reg \in BOOLEAN,
           conn' = [conn EXCEPT ![s] = [conn[s] EXCEPT !.pc = pc, !.ssh = ssh, !.reg = reg]]
    PROVE  HandlersOK'
<1> DEFINE h == [conn[s] EXCEPT !.pc = pc, !.ssh = ssh, !.reg = reg]
<1>1. conn[s] \in Handler /\ conn[s].d \in Daemons
  BY DEF IInv, TypeOK, HandlersOwned
<1>2. h \in Handler /\ h.d = conn[s].d
  BY <1>1 DEF Handler
<1> HIDE DEF h
<1> QED BY <1>1, <1>2, HandlerSet DEF h

LEMMA StreamHandlers ==
    ASSUME IInv, NEW s \in Streams,
           \/ \E d \in Daemons : Open(s, d)
           \/ Drop(s) \/ Register(s) \/ RegisterRejected(s)
    PROVE  HandlersOK' /\ RestTyped' /\ TablesTyped' /\ PortsInv' /\ Kept
<1>0. UNCHANGED <<daemons, listener, resv, used, files, outlived>>
  BY DEF Open, Drop, Register, RegisterRejected
<1>1. conn[s] \in Handler
  BY DEF IInv, TypeOK
<1>2. RestTyped'
  <2>1. UNCHANGED <<tasks, bridge, allowed>>
    BY DEF Open, Drop, Register, RegisterRejected
  <2>2. rpc' \in [Daemons -> Streams \cup {None}]
    BY DEF Open, Drop, Register, RegisterRejected, IInv, TypeOK
  <2> QED BY <2>1, <2>2 DEF RestTyped, IInv, TypeOK, tasks
<1>3. ASSUME NEW d \in Daemons, Open(s, d) PROVE HandlersOK'
  <2> DEFINE h == [NoHandler EXCEPT !.pc = "serving", !.d = d, !.live = TRUE, !.bridge = bridge]
  <2>1. h \in Handler /\ h.d = d
    BY DEF NoHandler, Handler, IInv, TypeOK
  <2>2. conn' = [conn EXCEPT ![s] = h]
    BY <1>3 DEF Open
  <2> HIDE DEF h
  <2> QED BY <2>1, <2>2, HandlerSet
<1>4. ASSUME Drop(s) PROVE HandlersOK'
  <2> DEFINE h == [conn[s] EXCEPT !.live = FALSE]
  <2>1. h \in Handler /\ h.d = conn[s].d /\ h.pc = conn[s].pc
    BY <1>1 DEF Handler
  <2>2. conn' = [conn EXCEPT ![s] = h]
    BY <1>4 DEF Drop
  <2>3. h.pc = "free" \/ h.d \in Daemons
    BY <2>1 DEF IInv, HandlersOwned
  <2> HIDE DEF h
  <2> QED BY <2>1, <2>2, <2>3, HandlerSet
<1>5. ASSUME Register(s) PROVE HandlersOK'
  <2>1. conn[s].pc # "free"
    BY <1>5 DEF Register
  <2>2. allowed[conn[s].d] \in BOOLEAN /\ conn[s].reg \in BOOLEAN
    BY <1>1, <2>1 DEF IInv, TypeOK, HandlersOwned, Handler
  <2>3. conn' = [conn EXCEPT ![s] = [conn[s] EXCEPT !.pc = "validating",
                                        !.ssh = allowed[conn[s].d], !.reg = conn[s].reg]]
    BY <1>1, <1>5 DEF Register, Handler, IInv, TypeOK
  <2> QED BY <2>1, <2>2, <2>3, HandlerMoves
<1>6. ASSUME RegisterRejected(s) PROVE HandlersOK'
  <2>1. conn[s].pc # "free"
    BY <1>6 DEF RegisterRejected
  <2>2. conn[s].ssh \in BOOLEAN /\ conn[s].reg \in BOOLEAN
    BY <1>1 DEF Handler
  <2>3. conn' = [conn EXCEPT ![s] = [conn[s] EXCEPT !.pc = "serving",
                                        !.ssh = conn[s].ssh, !.reg = conn[s].reg]]
    BY <1>1, <1>6 DEF RegisterRejected, Handler, IInv, TypeOK
  <2> QED BY <2>1, <2>2, <2>3, HandlerMoves
<1> QED BY <1>0, <1>2, <1>3, <1>4, <1>5, <1>6, TablesUnchanged

LEMMA HandlerStepKeeps ==
    ASSUME IInv, NEW s \in Streams, HandlerStep(s)
    PROVE  HandlersOK' /\ RestTyped' /\ TablesTyped' /\ PortsInv' /\ Kept
<1>0. conn[s] \in Handler /\ conn[s].pc # "free"
  BY DEF IInv, TypeOK, HandlerStep, RegisterCommit, Enable, Advertise, Disable, Close,
         Unbridge, Cleanup
<1>1. conn[s].d \in Daemons /\ conn[s].ssh \in BOOLEAN /\ conn[s].reg \in BOOLEAN
  BY <1>0 DEF IInv, HandlersOwned, Handler
<1>2. RestTyped'
  <2>0. RestTyped
    BY DEF IInv, TypeOK, RestTyped
  <2>1. ASSUME NoBridge(s) \/ OnSshEnabled(conn[s].d) \/ RemoveListener(conn[s].d)
        PROVE  /\ task' \in [Daemons -> {"none", "starting", "bound", "dead"}]
               /\ lingering' \subseteq Ports
    <3>1. CASE UNCHANGED tasks
      BY <2>0, <3>1 DEF tasks, RestTyped
    <3>2. ASSUME NEW p, SpawnListener(conn[s].d, p)
          PROVE  /\ task' \in [Daemons -> {"none", "starting", "bound", "dead"}]
                 /\ lingering' \subseteq Ports
      BY <2>0, <3>2 DEF SpawnListener, RestTyped
    <3>3. CASE listener[conn[s].d] # None /\ AbortListener(conn[s].d)
      <4>1. listener[conn[s].d] \in Ports
        BY <1>1, <3>3 DEF IInv, TypeOK
      <4> QED BY <2>0, <3>3, <4>1 DEF AbortListener, RestTyped
    <3>4. CASE NoBridge(s)
      BY <3>1, <3>4 DEF NoBridge
    <3>5. CASE OnSshEnabled(conn[s].d)
      BY <3>1, <3>2, <3>5 DEF OnSshEnabled
    <3>6. CASE RemoveListener(conn[s].d)
      BY <3>1, <3>3, <3>6 DEF RemoveListener
    <3> QED BY <2>1, <3>4, <3>5, <3>6
  <2>2. CASE Enable(s) \/ Disable(s) \/ Unbridge(s)
    <3>1. UNCHANGED <<bridge, rpc, allowed>>
      BY <2>2 DEF Enable, Disable, Unbridge
    <3>2. NoBridge(s) \/ OnSshEnabled(conn[s].d) \/ RemoveListener(conn[s].d)
      BY <2>2 DEF Enable, Disable, Unbridge
    <3> QED BY <2>0, <2>1, <3>1, <3>2 DEF RestTyped
  <2>3. CASE RegisterCommit(s) \/ Advertise(s) \/ Close(s) \/ Cleanup(s)
    <3>1. UNCHANGED <<tasks, bridge, allowed>>
      BY <2>3 DEF RegisterCommit, Advertise, Close, Cleanup
    <3>2. rpc' \in [Daemons -> Streams \cup {None}]
      BY <2>0, <2>3 DEF RegisterCommit, Advertise, Close, Cleanup, RestTyped
    <3> QED BY <2>0, <3>1, <3>2 DEF RestTyped, tasks
  <2> QED BY <2>2, <2>3 DEF HandlerStep
<1>3. TablesTyped' /\ PortsInv' /\ Kept
  <2>1. ASSUME Cleanup(s) PROVE TablesTyped' /\ PortsInv' /\ Kept
    BY <2>1, TablesUnchanged DEF Cleanup
  <2>2. ASSUME Enable(s) PROVE TablesTyped' /\ PortsInv' /\ Kept
    <3>1. outlived' = outlived /\ (NoBridge(s) \/ OnSshEnabled(conn[s].d))
      BY <2>2 DEF Enable
    <3>2. CASE NoBridge(s)
      BY <3>1, <3>2, TablesUnchanged DEF NoBridge
    <3> QED BY <1>1, <3>1, <3>2, EnabledPorts
  <2>3. ASSUME Disable(s) \/ Unbridge(s) PROVE TablesTyped' /\ PortsInv' /\ Kept
    <3>1. outlived' = outlived /\ (NoBridge(s) \/ RemoveListener(conn[s].d))
      BY <2>3 DEF Disable, Unbridge
    <3>2. CASE NoBridge(s)
      BY <3>1, <3>2, TablesUnchanged DEF NoBridge
    <3> QED BY <1>1, <3>1, <3>2, RemovedPorts
  <2> QED BY <1>1, <2>1, <2>2, <2>3, CommittedPorts, AdvertisedPorts, ClosedPorts DEF HandlerStep
<1> DEFINE Moved(pc, reg) ==
             conn' = [conn EXCEPT ![s] = [conn[s] EXCEPT !.pc = pc, !.ssh = conn[s].ssh, !.reg = reg]]
<1>4. ASSUME NEW pc \in {"serving", "validating", "enable", "advert", "advEnable",
                         "advDisable", "unbridge", "cleanup"},
             NEW reg \in BOOLEAN, Moved(pc, reg)
      PROVE  HandlersOK'
  BY <1>0, <1>1, <1>4, HandlerMoves
<1>5. ASSUME NEW pc, conn' = [conn EXCEPT ![s].pc = pc] PROVE Moved(pc, conn[s].reg)
  BY <1>0, <1>5 DEF Handler, IInv, TypeOK
<1>6. HandlersOK'
  <2>1. ASSUME RegisterCommit(s) PROVE HandlersOK'
    <3>1. Moved(IF conn[s].ssh THEN "enable" ELSE "advert", TRUE)
      BY <1>0, <2>1 DEF RegisterCommit, Handler, IInv, TypeOK
    <3> HIDE DEF Moved
    <3> QED BY <3>1, <1>4
  <2>2. ASSUME Enable(s) PROVE HandlersOK'
    <3>1. conn' = [conn EXCEPT ![s].pc = IF conn[s].pc = "enable" THEN "advert" ELSE "serving"]
      BY <2>2 DEF Enable, IInv, TypeOK
    <3> HIDE DEF Moved
    <3> QED BY <1>1, <1>4, <1>5, <3>1
  <2>3. ASSUME Advertise(s) PROVE HandlersOK'
    <3>1. PICK pc \in {"advEnable", "advDisable", "serving"} : conn' = [conn EXCEPT ![s].pc = pc]
      BY <2>3 DEF Advertise
    <3> HIDE DEF Moved
    <3> QED BY <1>1, <1>4, <1>5, <3>1
  <2>4. ASSUME Disable(s) PROVE HandlersOK'
    <3>1. conn' = [conn EXCEPT ![s].pc = "serving"]
      BY <2>4 DEF Disable
    <3> HIDE DEF Moved
    <3> QED BY <1>1, <1>4, <1>5, <3>1
  <2>5. ASSUME Close(s) PROVE HandlersOK'
    <3>1. PICK pc \in {"cleanup", "unbridge"} : conn' = [conn EXCEPT ![s].pc = pc]
      BY <2>5 DEF Close
    <3> HIDE DEF Moved
    <3> QED BY <1>1, <1>4, <1>5, <3>1
  <2>6. ASSUME Unbridge(s) PROVE HandlersOK'
    <3>1. conn' = [conn EXCEPT ![s].pc = "cleanup"]
      BY <2>6 DEF Unbridge
    <3> HIDE DEF Moved
    <3> QED BY <1>1, <1>4, <1>5, <3>1
  <2>7. ASSUME Cleanup(s) PROVE HandlersOK'
    BY <2>7, NoHandlerTyped, HandlerSet DEF Cleanup
  <2> QED BY <2>1, <2>2, <2>3, <2>4, <2>5, <2>6, <2>7 DEF HandlerStep
<1> QED BY <1>2, <1>3, <1>6

LEMMA HandlersUnchanged ==
    ASSUME IInv, UNCHANGED conn
    PROVE  HandlersOK'
BY DEF IInv, TypeOK, HandlersOK, HandlersOwned

-----------------------------------------------------------------------------
(* The invariant. *)

LEMMA PartsAreIInv == HandlersOK /\ RestTyped /\ TablesTyped /\ PortsInv => IInv
BY TidyParts DEF HandlersOK, RestTyped, TablesTyped, PortsInv, IInv, TypeOK

LEMMA RelayInit ==
    ASSUME Init
    PROVE  IInv
<1>1. HandlersOK
  BY NoHandlerTyped DEF Init, HandlersOK, HandlersOwned
<1>2. RestTyped
  BY DEF Init, RestTyped
<1>3. TablesTyped /\ PortsInv
  <2>1. disk \in [Daemons -> Reservation \cup {None}] /\ FirstsUnique(disk)
    BY DEF Init, AnyFile
  <2> QED BY <2>1, FreshTables DEF Init
<1> QED BY <1>1, <1>2, <1>3, PartsAreIInv

(* Every step keeps the invariant, and every step but a restart every port    *)
(* whose reservation has not expired.                                         *)
LEMMA RelayStep ==
    ASSUME IInv, [Next]_vars
    PROVE  IInv' /\ (Kept \/ Restart)
<1> DEFINE Parts == HandlersOK' /\ RestTyped' /\ TablesTyped' /\ PortsInv'
<1>1. ASSUME NEW s \in Streams,
             \/ \E d \in Daemons : Open(s, d)
             \/ Drop(s) \/ Register(s) \/ RegisterRejected(s)
      PROVE  Parts /\ Kept
  BY <1>1, StreamHandlers
<1>2. ASSUME NEW s \in Streams, HandlerStep(s) PROVE Parts /\ Kept
  BY <1>2, HandlerStepKeeps
<1>3. ASSUME UNCHANGED conn, UNCHANGED <<daemons, listener, resv, used, files, outlived>>, RestTyped'
      PROVE  Parts /\ Kept
  BY <1>3, TablesUnchanged, HandlersUnchanged
<1>4. RestTyped
  BY DEF IInv, TypeOK, RestTyped
<1>5. ASSUME NEW d \in Daemons, Toggle(d) PROVE Parts /\ Kept
  <2>1. RestTyped'
    BY <1>4, <1>5 DEF Toggle, RestTyped, tasks
  <2> QED BY <1>3, <1>5, <2>1 DEF Toggle
<1>6. ASSUME NEW d \in Daemons, NEW ok \in BOOLEAN, Bind(d, ok) PROVE Parts /\ Kept
  <2>1. RestTyped'
    BY <1>4, <1>6 DEF Bind, RestTyped
  <2> QED BY <1>3, <1>6, <2>1 DEF Bind
<1>7. ASSUME NEW p \in Ports, Released(p) PROVE Parts /\ Kept
  <2>1. RestTyped'
    BY <1>4, <1>7 DEF Released, RestTyped
  <2> QED BY <1>3, <1>7, <2>1 DEF Released
<1>8. ASSUME SetBridge PROVE Parts /\ Kept
  <2>1. RestTyped'
    BY <1>4, <1>8 DEF SetBridge, RestTyped, tasks
  <2> QED BY <1>3, <1>8, <2>1 DEF SetBridge
<1>9. ASSUME NEW d \in Daemons, NEW both \in BOOLEAN, Age(d, both) PROVE Parts /\ Kept
  <2>1. RestTyped'
    BY <1>4, <1>9 DEF Age, RestTyped, tasks
  <2>2. UNCHANGED conn
    BY <1>9 DEF Age
  <2> QED BY <1>9, <2>1, <2>2, AgedPorts, HandlersUnchanged
<1>10. ASSUME Restart PROVE Parts
  <2>1. RestTyped'
    BY <1>4, <1>10 DEF Restart, RestTyped
  <2>2. HandlersOK'
    BY <1>10, NoHandlerTyped DEF Restart, HandlersOK, HandlersOwned
  <2> QED BY <1>10, <2>1, <2>2, RestartedPorts
<1>11. ASSUME UNCHANGED vars PROVE Parts /\ Kept
  <2>1. RestTyped'
    BY <1>4, <1>11 DEF vars, RestTyped, tasks
  <2> QED BY <1>3, <1>11, <2>1 DEF vars
<1> HIDE DEF Parts
<1>12. Parts /\ (Kept \/ Restart)
  BY <1>1, <1>2, <1>5, <1>6, <1>7, <1>8, <1>9, <1>10, <1>11 DEF Next
<1>13. IInv'
  BY <1>12, TidyPartsNext DEF Parts, HandlersOK, RestTyped, TablesTyped, PortsInv, IInv, TypeOK
<1> QED BY <1>12, <1>13

(* Registry, reservations, listeners and handlers keep the inductive         *)
(* invariant, through reconnects that overlap, failed and torn saves, expiry *)
(* under a running listener, a full range and restarts from any file, for    *)
(* any daemons and ports.                                                    *)
THEOREM RelayInvariant == Spec => []IInv
<1>1. Init => IInv
  BY RelayInit
<1>2. IInv /\ [Next]_vars => IInv'
  BY RelayStep
<1> QED BY <1>1, <1>2, PTL DEF Spec

(* A port leads to one machine (DaemonRegistry::allocate_port), unless a      *)
(* listener on it outlived its reservation.                                   *)
THEOREM RelayPorts == Spec => []PortsDisjoint
<1>1. IInv => PortsDisjoint
  <2> SUFFICES ASSUME IInv, NEW d \in Daemons, NEW e \in Daemons, d # e
               PROVE  /\ listener[d] # None /\ listener[d] \notin outlived =>
                           /\ listener[d] # listener[e]
                           /\ resv[e] # None => listener[d] # resv[e].port
                      /\ resv[d] # None /\ resv[d].port \notin outlived /\ resv[e] # None =>
                           resv[d].port # resv[e].port
    BY DEF PortsDisjoint
  <2>1. resv[d] # None /\ resv[d].port \notin outlived /\ resv[e] # None => resv[d].port # resv[e].port
    BY DEF IInv, ReservationsDisjoint
  <2>2. \A f \in {d, e} : listener[f] # None /\ listener[f] \notin outlived
                            => resv[f] # None /\ resv[f].port = listener[f]
    BY DEF IInv, ServedIsReserved, Valid
  <2> QED BY <2>1, <2>2
<1> QED BY <1>1, RelayInvariant, PTL

(* No port is lost to the allocator, and none that is reserved is free        *)
(* (used_ports against reservations).                                         *)
THEOREM RelayUsed == Spec => []UsedAreReserved
<1>1. IInv => UsedAreReserved
  BY DEF IInv
<1> QED BY <1>1, RelayInvariant, PTL

(* The port the registry tells is the port of the bridge's entry.            *)
THEOREM RelayAdvertised == Spec => []AdvertisedIsServed
<1>1. IInv => AdvertisedIsServed
  BY DEF IInv
<1> QED BY <1>1, RelayInvariant, PTL

(* "Port reservations persist across daemon reconnects": no reconnect, expiry *)
(* of another entry, full range or restart (allocate_port, reserve_port,      *)
(* DaemonRegistry::new) moves a daemon whose reservation has not expired to    *)
(* another port, except a restart after a save that failed or was cut short,   *)
(* or of a port that was outlived.                                            *)
THEOREM RelayStable == Spec => PortStable
<1> DEFINE Stable ==
      \A d \in Daemons :
          Valid(resv, d) =>
              \/ resv'[d] # None /\ resv'[d].port = resv[d].port
              \/ Restart /\ (~saved \/ resv[d].port \in outlived)
<1>1. IInv /\ [Next]_vars => [Stable]_vars
  <2> SUFFICES ASSUME IInv, [Next]_vars, NEW d \in Daemons, Valid(resv, d)
               PROVE  \/ resv'[d] # None /\ resv'[d].port = resv[d].port
                      \/ Restart /\ (~saved \/ resv[d].port \in outlived)
    BY DEF Stable
  <2>1. CASE Kept
    BY <2>1 DEF Kept
  <2>2. CASE Restart
    BY <2>2, RestartKeeps
  <2> QED BY <2>1, <2>2, RelayStep
<1> QED BY <1>1, RelayInvariant, PTL DEF Spec, PortStable

-----------------------------------------------------------------------------
(* The gossip topics of the clusters behind the streams (RelayGossip). *)

(* Copies of m in the sequence s.                                            *)
Spots(s, m) == {i \in 1 .. Len(s) : s[i] = m}

LEMMA SpotsFinite ==
    ASSUME NEW S, NEW s \in Seq(S), NEW m
    PROVE  IsFiniteSet(Spots(s, m)) /\ Cardinality(Spots(s, m)) \in Nat
<1>1. IsFiniteSet(1 .. Len(s))
    BY FS_Interval
<1> QED BY <1>1, FS_Subset, FS_CardinalityType DEF Spots

LEMMA SpotsAppend ==
    ASSUME NEW S, NEW s \in Seq(S), NEW m, NEW x \in S
    PROVE  Cardinality(Spots(Append(s, x), m)) =
             Cardinality(Spots(s, m)) + (IF x = m THEN 1 ELSE 0)
<1> DEFINE n == Len(s) + 1
           t == Append(s, x)
<1>1. Len(t) = n /\ n \in Nat /\ t[n] = x /\ \A i \in 1 .. Len(s) : t[i] = s[i]
    OBVIOUS
<1>2. n \notin Spots(s, m)
    BY <1>1 DEF Spots
<1> HIDE DEF t
<1>3. CASE x = m
    <2>1. Spots(t, m) = Spots(s, m) \cup {n}
        BY <1>1, <1>3 DEF Spots
    <2> QED BY <1>2, <1>3, <2>1, SpotsFinite, FS_AddElement DEF t
<1>4. CASE x # m
    <2>1. Spots(t, m) = Spots(s, m)
        BY <1>1, <1>4 DEF Spots
    <2> QED BY <1>4, <2>1, SpotsFinite DEF t
<1> QED BY <1>3, <1>4

LEMMA SpotsTail ==
    ASSUME NEW S, NEW s \in Seq(S), s # <<>>, NEW m
    PROVE  Cardinality(Spots(Tail(s), m)) =
             Cardinality(Spots(s, m)) - (IF Head(s) = m THEN 1 ELSE 0)
<1> DEFINE t == Tail(s)
           rest == Spots(s, m) \ {1}
           shift == [i \in Spots(t, m) |-> i + 1]
<1>1. /\ t \in Seq(S) /\ Len(s) \in Nat /\ Len(s) >= 1 /\ Len(t) = Len(s) - 1
      /\ Head(s) = s[1] /\ \A i \in 1 .. Len(t) : t[i] = s[i + 1]
    OBVIOUS
<1>2. 1 \in Spots(s, m) <=> Head(s) = m
    BY <1>1 DEF Spots
<1>3. Cardinality(rest) = Cardinality(Spots(s, m)) - (IF Head(s) = m THEN 1 ELSE 0)
    <2>1. IsFiniteSet(Spots(s, m))
        BY SpotsFinite
    <2>2. Cardinality(rest) = IF 1 \in Spots(s, m) THEN Cardinality(Spots(s, m)) - 1
                                                  ELSE Cardinality(Spots(s, m))
        BY <2>1, FS_RemoveElement
    <2>3. Cardinality(Spots(s, m)) \in Nat
        BY SpotsFinite
    <2> HIDE DEF rest
    <2> QED BY <1>2, <2>2, <2>3
<1> HIDE DEF t
<1>4. \A i \in Spots(t, m) : i \in Nat /\ i >= 1 /\ i + 1 \in rest
    BY <1>1 DEF Spots
<1>5. \A j \in rest : j \in Nat /\ j - 1 \in Spots(t, m) /\ (j - 1) + 1 = j
    <2> TAKE j \in rest
    <2>1. j \in 1 .. Len(s) /\ s[j] = m /\ j # 1
        BY DEF Spots
    <2>2. j - 1 \in 1 .. Len(t) /\ (j - 1) + 1 = j
        BY <1>1, <2>1
    <2>3. t[j - 1] = m
        BY <1>1, <2>1, <2>2
    <2> QED BY <2>1, <2>2, <2>3 DEF Spots
<1> HIDE DEF rest
<1>6. shift \in [Spots(t, m) -> rest]
    BY <1>4
<1>7. \A i, j \in Spots(t, m) : shift[i] = shift[j] => i = j
    BY <1>4
<1>8. \A j \in rest : \E i \in Spots(t, m) : shift[i] = j
    BY <1>5
<1> HIDE DEF shift
<1>9. shift \in Bijection(Spots(t, m), rest)
    BY <1>6, <1>7, <1>8 DEF Bijection, Injection, Surjection, IsInjective
<1>10. ExistsBijection(Spots(t, m), rest)
    BY <1>9 DEF ExistsBijection
<1>11. IsFiniteSet(Spots(t, m))
    BY <1>1, SpotsFinite
<1>12. Cardinality(rest) = Cardinality(Spots(t, m))
    BY <1>10, <1>11, FS_Bijection
<1> QED BY <1>3, <1>12 DEF t

Command(op, c) == [op |-> op, c |-> c]

LEMMA CommandsDiffer ==
    ASSUME NEW op \in {"subscribe", "unsubscribe"}, NEW c \in Clusters
    PROVE  /\ Command(op, c) \in Commands
           /\ \A q \in {"subscribe", "unsubscribe"}, d \in Clusters :
                Command(op, c) = Command(q, d) <=> op = q /\ c = d
<1>1. \A q, d : Command(q, d).op = q /\ Command(q, d).c = d
    BY DEF Command
<1>2. Command(op, c) \in Commands
    BY DEF Command, Commands
<1> QED BY <1>1, <1>2

(* The inductive invariant in terms of Spots.                                *)
Enough(c) ==
    /\ topic[c] = "left" <=> count[c] = 0
    /\ count[c] + Cardinality(Spots(channel, Command("subscribe", c))) <= MaxCount
    /\ Cardinality(Spots(channel, Command("unsubscribe", c))) + Cardinality(Members(c))
         <= count[c] + Cardinality(Spots(channel, Command("subscribe", c)))

LEMMA PendingSpots ==
    ASSUME NEW op, NEW c
    PROVE  /\ Pending(op, c) = Cardinality(Spots(channel, Command(op, c)))
           /\ Pending(op, c)' = Cardinality(Spots(channel', Command(op, c)))
<1>1. {i \in 1 .. Len(channel) : channel[i] = [op |-> op, c |-> c]}
        = Spots(channel, Command(op, c))
    BY DEF Spots, Command
<1>2. {i \in 1 .. Len(channel') : channel'[i] = [op |-> op, c |-> c]}
        = Spots(channel', Command(op, c))
    BY DEF Spots, Command
<1> QED BY <1>1, <1>2 DEF Pending

LEMMA EnoughIsInvariant ==
    /\ GossipIInv <=> GossipTypeOK /\ \A c \in Clusters : Enough(c)
    /\ GossipIInv' <=> GossipTypeOK' /\ \A c \in Clusters : Enough(c)'
BY PendingSpots DEF GossipIInv, Enough

LEMMA GossipNumbers ==
    ASSUME GossipTypeOK, NEW c \in Clusters
    PROVE  /\ count[c] \in Nat /\ MaxCount \in Nat
           /\ Cardinality(Spots(channel, Command("subscribe", c))) \in Nat
           /\ Cardinality(Spots(channel, Command("unsubscribe", c))) \in Nat
           /\ IsFiniteSet(Members(c)) /\ Cardinality(Members(c)) \in Nat
<1>1. channel \in Seq(Commands) /\ count[c] \in Nat
    BY DEF GossipTypeOK
<1>2. IsFiniteSet(Members(c))
    <2>1. Members(c) \in SUBSET Handlers /\ IsFiniteSet(Handlers)
        BY GossipAssumption DEF Members
    <2> QED BY <2>1, FS_Subset
<1> QED BY <1>1, <1>2, SpotsFinite, FS_CardinalityType, GossipAssumption

(* What sending a command changes.                                           *)
LEMMA GossipSend ==
    ASSUME GossipTypeOK, NEW op \in {"subscribe", "unsubscribe"},
           NEW c \in Clusters, Send(op, c)
    PROVE  /\ channel' \in Seq(Commands) /\ Len(channel') <= ChannelCap
           /\ \A q \in {"subscribe", "unsubscribe"}, d \in Clusters :
                Cardinality(Spots(channel', Command(q, d))) =
                  Cardinality(Spots(channel, Command(q, d)))
                    + (IF op = q /\ c = d THEN 1 ELSE 0)
<1>1. channel' = Append(channel, Command(op, c)) /\ Len(channel) < ChannelCap
    BY DEF Send, Command
<1>2. Command(op, c) \in Commands /\ channel \in Seq(Commands)
    BY CommandsDiffer DEF GossipTypeOK
<1>3. channel' \in Seq(Commands) /\ Len(channel') <= ChannelCap
    BY <1>1, <1>2, GossipAssumption
<1>4. ASSUME NEW q \in {"subscribe", "unsubscribe"}, NEW d \in Clusters
      PROVE  Cardinality(Spots(channel', Command(q, d))) =
               Cardinality(Spots(channel, Command(q, d)))
                 + (IF op = q /\ c = d THEN 1 ELSE 0)
    <2>1. Cardinality(Spots(channel', Command(q, d))) =
            Cardinality(Spots(channel, Command(q, d)))
              + (IF Command(op, c) = Command(q, d) THEN 1 ELSE 0)
        BY <1>1, <1>2, SpotsAppend
    <2>2. Command(op, c) = Command(q, d) <=> op = q /\ c = d
        BY CommandsDiffer
    <2> QED BY <2>1, <2>2
<1> QED BY <1>3, <1>4

LEMMA SubscribeEnough ==
    ASSUME GossipIInv, NEW s \in Handlers, NEW c \in Clusters,
           Subscribe(s, c)
    PROVE  GossipIInv'
<1>1. /\ GossipTypeOK /\ cluster[s] \in {NoCluster, c} /\ Send("subscribe", c)
      /\ cluster' = [cluster EXCEPT ![s] = c] /\ count' = count /\ topic' = topic
      /\ count[c] + Cardinality(Spots(channel, Command("subscribe", c))) < MaxCount
    BY PendingSpots DEF GossipIInv, Subscribe
<1>2. GossipTypeOK'
    <2>1. channel' \in Seq(Commands) /\ Len(channel') <= ChannelCap
        BY <1>1, GossipSend
    <2> QED BY <1>1, <2>1 DEF GossipTypeOK
<1>3. ASSUME NEW d \in Clusters
      PROVE  Enough(d)'
    <2>1. Enough(d)
        BY EnoughIsInvariant
    <2>2. /\ Cardinality(Spots(channel', Command("unsubscribe", d))) =
               Cardinality(Spots(channel, Command("unsubscribe", d)))
          /\ Cardinality(Spots(channel', Command("subscribe", d))) =
               Cardinality(Spots(channel, Command("subscribe", d)))
                 + (IF c = d THEN 1 ELSE 0)
        BY <1>1, GossipSend, GossipNumbers
    <2>3. CASE d = c
        <3>1. Members(d)' = Members(d) \cup {s}
            BY <1>1, <2>3 DEF Members, GossipTypeOK
        <3>2. IsFiniteSet(Members(d)) /\ Cardinality(Members(d)) \in Nat
            BY <1>1, GossipNumbers
        <3>3. /\ Cardinality(Members(d)') <= Cardinality(Members(d)) + 1
              /\ Cardinality(Members(d)') \in Nat
            <4>1. Cardinality(Members(d) \cup {s}) =
                    IF s \in Members(d) THEN Cardinality(Members(d))
                                        ELSE Cardinality(Members(d)) + 1
                BY <3>2, FS_AddElement
            <4> QED BY <3>1, <3>2, <4>1
        <3> QED BY <1>1, <2>1, <2>2, <2>3, <3>3, GossipNumbers DEF Enough
    <2>4. CASE d # c
        <3>1. Members(d)' = Members(d)
            BY <1>1, <2>4, GossipAssumption DEF Members, GossipTypeOK
        <3> QED BY <1>1, <2>1, <2>2, <2>4, <3>1, GossipNumbers DEF Enough
    <2> QED BY <2>3, <2>4
<1> QED BY <1>2, <1>3, EnoughIsInvariant

LEMMA UnsubscribeEnough ==
    ASSUME GossipIInv, NEW s \in Handlers, Unsubscribe(s)
    PROVE  GossipIInv'
<1> DEFINE c == cluster[s]
<1>1. /\ GossipTypeOK /\ c # NoCluster /\ Send("unsubscribe", c)
      /\ cluster' = [cluster EXCEPT ![s] = NoCluster] /\ count' = count /\ topic' = topic
    BY DEF GossipIInv, Unsubscribe
<1>2. c \in Clusters
    BY <1>1 DEF GossipTypeOK
<1>3. GossipTypeOK'
    <2>1. channel' \in Seq(Commands) /\ Len(channel') <= ChannelCap
        BY <1>1, <1>2, GossipSend
    <2> QED BY <1>1, <2>1 DEF GossipTypeOK
<1>4. ASSUME NEW d \in Clusters
      PROVE  Enough(d)'
    <2>1. Enough(d)
        BY EnoughIsInvariant
    <2>2. /\ Cardinality(Spots(channel', Command("unsubscribe", d))) =
               Cardinality(Spots(channel, Command("unsubscribe", d)))
                 + (IF c = d THEN 1 ELSE 0)
          /\ Cardinality(Spots(channel', Command("subscribe", d))) =
               Cardinality(Spots(channel, Command("subscribe", d)))
        BY <1>1, <1>2, GossipSend, GossipNumbers
    <2>3. CASE d = c
        <3>1. Members(d)' = Members(d) \ {s} /\ s \in Members(d)
            BY <1>1, <1>2, <2>3, GossipAssumption DEF Members, GossipTypeOK
        <3>2. IsFiniteSet(Members(d)) /\ Cardinality(Members(d)) \in Nat
            BY <1>1, GossipNumbers
        <3>3. Cardinality(Members(d)') = Cardinality(Members(d)) - 1
            BY <3>1, <3>2, FS_RemoveElement
        <3> QED BY <1>1, <2>1, <2>2, <2>3, <3>3, GossipNumbers DEF Enough
    <2>4. CASE d # c
        <3>1. Members(d)' = Members(d)
            BY <1>1, <2>4, GossipAssumption DEF Members, GossipTypeOK
        <3> QED BY <1>1, <2>1, <2>2, <2>4, <3>1, GossipNumbers DEF Enough
    <2> QED BY <2>3, <2>4
<1> QED BY <1>3, <1>4, EnoughIsInvariant

LEMMA TakeEnough ==
    ASSUME GossipIInv, NEW ok \in BOOLEAN, Take(ok)
    PROVE  GossipIInv'
<1> DEFINE m == Head(channel)
<1>1. /\ GossipTypeOK /\ channel # <<>> /\ channel' = Tail(channel) /\ cluster' = cluster
      /\ count' = [count EXCEPT ![m.c] = IF m.op = "subscribe" THEN @ + 1
                                         ELSE IF @ > 0 THEN @ - 1 ELSE 0]
    BY DEF GossipIInv, Take, GossipTypeOK
<1>0. PICK t \in {"left", "joined", "refused"} :
          /\ topic' = [topic EXCEPT ![m.c] = t]
          /\ m.c \in Clusters => (t = "left" <=> count'[m.c] = 0)
    <2>1. m.c \in Clusters => count[m.c] \in Nat /\ topic[m.c] \in {"left", "joined", "refused"}
                              /\ (topic[m.c] = "left" <=> count[m.c] = 0)
        BY <1>1 DEF GossipIInv, GossipTypeOK
    <2>2. m \in Commands
        BY <1>1 DEF GossipTypeOK
    <2>3. m.c \in Clusters
        BY <2>2 DEF Commands
    <2>4. CASE m.op = "subscribe"
        <3>1. topic' = [topic EXCEPT ![m.c] = IF count[m.c] # 0 THEN topic[m.c]
                                              ELSE IF ok THEN "joined" ELSE "refused"]
            BY <2>4 DEF Take
        <3>2. count'[m.c] = count[m.c] + 1
            BY <1>1, <2>3, <2>4 DEF GossipTypeOK
        <3> DEFINE t == IF count[m.c] # 0 THEN topic[m.c] ELSE IF ok THEN "joined" ELSE "refused"
        <3>3. /\ topic' = [topic EXCEPT ![m.c] = t]
              /\ t \in {"left", "joined", "refused"} /\ (t = "left" <=> count'[m.c] = 0)
            BY <2>1, <2>3, <3>1, <3>2
        <3> HIDE DEF m, t
        <3> QED BY <3>3
    <2>5. CASE m.op # "subscribe"
        <3>1. topic' = [topic EXCEPT ![m.c] = IF count[m.c] > 1 THEN topic[m.c] ELSE "left"]
            BY <2>5 DEF Take
        <3>2. count'[m.c] = IF count[m.c] > 0 THEN count[m.c] - 1 ELSE 0
            BY <1>1, <2>3, <2>5 DEF GossipTypeOK
        <3> DEFINE t == IF count[m.c] > 1 THEN topic[m.c] ELSE "left"
        <3>3. /\ topic' = [topic EXCEPT ![m.c] = t]
              /\ t \in {"left", "joined", "refused"} /\ (t = "left" <=> count'[m.c] = 0)
            BY <2>1, <2>3, <3>1, <3>2
        <3> HIDE DEF m, t
        <3> QED BY <3>3
    <2> QED BY <2>4, <2>5
<1>2. m \in Commands /\ channel \in Seq(Commands)
    BY <1>1 DEF GossipTypeOK
<1>3. m.op \in {"subscribe", "unsubscribe"} /\ m.c \in Clusters /\ m = Command(m.op, m.c)
    BY <1>2 DEF Commands, Command
<1>4. channel' \in Seq(Commands) /\ Len(channel') <= ChannelCap
    BY <1>1, GossipAssumption DEF GossipTypeOK
<1>5. ASSUME NEW q \in {"subscribe", "unsubscribe"}, NEW d \in Clusters
      PROVE  Cardinality(Spots(channel', Command(q, d))) =
               Cardinality(Spots(channel, Command(q, d)))
                 - (IF m.op = q /\ m.c = d THEN 1 ELSE 0)
    <2>1. Cardinality(Spots(channel', Command(q, d))) =
            Cardinality(Spots(channel, Command(q, d)))
              - (IF m = Command(q, d) THEN 1 ELSE 0)
        BY <1>1, <1>2, SpotsTail
    <2>2. m = Command(q, d) <=> m.op = q /\ m.c = d
        BY <1>3, CommandsDiffer
    <2> QED BY <2>1, <2>2
<1>6. channel' \in Seq(Commands)
    BY <1>4
<1> HIDE DEF m
<1>7. ASSUME NEW d \in Clusters
      PROVE  count'[d] \in 0 .. MaxCount /\ Enough(d)'
    <2> DEFINE sub == Cardinality(Spots(channel, Command("subscribe", d)))
               uns == Cardinality(Spots(channel, Command("unsubscribe", d)))
               sub1 == Cardinality(Spots(channel', Command("subscribe", d)))
               uns1 == Cardinality(Spots(channel', Command("unsubscribe", d)))
               mem == Cardinality(Members(d))
    <2>1. /\ count[d] + sub <= MaxCount /\ uns + mem <= count[d] + sub
          /\ count[d] \in Nat /\ sub \in Nat /\ uns \in Nat /\ mem \in Nat /\ MaxCount \in Nat
        BY <1>1, EnoughIsInvariant, GossipNumbers DEF Enough
    <2>2. sub1 \in Nat /\ uns1 \in Nat
        BY <1>6, SpotsFinite
    <2>3. /\ sub1 = sub - (IF m.op = "subscribe" /\ m.c = d THEN 1 ELSE 0)
          /\ uns1 = uns - (IF m.op = "unsubscribe" /\ m.c = d THEN 1 ELSE 0)
        BY <1>5
    <2>4. Members(d)' = Members(d)
        BY <1>1 DEF Members
    <2>5. Enough(d)' <=> /\ topic'[d] = "left" <=> count'[d] = 0
                         /\ count'[d] + sub1 <= MaxCount /\ uns1 + mem <= count'[d] + sub1
        BY <2>4 DEF Enough
    <2>7. topic'[d] = "left" <=> count'[d] = 0
        <3>1. topic[d] = "left" <=> count[d] = 0
            BY <1>1 DEF GossipIInv
        <3>2. CASE d = m.c
            BY <1>0, <1>1, <3>2 DEF GossipTypeOK
        <3>3. CASE d # m.c
            BY <1>0, <1>1, <3>1, <3>3 DEF GossipTypeOK
        <3> QED BY <3>2, <3>3
    <2>6. count'[d] = IF m.c # d THEN count[d]
                      ELSE IF m.op = "subscribe" THEN count[d] + 1
                      ELSE IF count[d] > 0 THEN count[d] - 1 ELSE 0
        BY <1>1 DEF GossipTypeOK
    <2> HIDE DEF sub, uns, sub1, uns1, mem
    <2> QED BY <1>3, <2>1, <2>2, <2>3, <2>5, <2>6, <2>7
<1>8. count' \in [Clusters -> 0 .. MaxCount]
    BY <1>1, <1>7 DEF GossipTypeOK
<1>9. GossipTypeOK'
    BY <1>0, <1>1, <1>4, <1>8 DEF GossipTypeOK
<1> QED BY <1>7, <1>9, EnoughIsInvariant

LEMMA GossipStarts ==
    ASSUME GossipInit
    PROVE  GossipIInv
<1>1. GossipTypeOK
    BY GossipAssumption DEF GossipInit, GossipTypeOK
<1>2. ASSUME NEW c \in Clusters
      PROVE  Enough(c)
    <2>1. \A m : Spots(channel, m) = {}
        BY DEF GossipInit, Spots
    <2>2. Members(c) = {}
        BY GossipAssumption DEF GossipInit, Members
    <2>3. count[c] = 0 /\ topic[c] = "left" /\ MaxCount \in Nat
        BY GossipAssumption DEF GossipInit
    <2> QED BY <2>1, <2>2, <2>3, FS_EmptySet DEF Enough
<1> QED BY <1>1, <1>2, EnoughIsInvariant

(* The inductive invariant of the gossip counters, through any interleaving of *)
(* streams that register again and again, streams that close and the event     *)
(* loop, for any number of streams and clusters and any channel capacity.      *)
THEOREM GossipInvariant == GossipSpec => []GossipIInv
<1>1. GossipInit => GossipIInv
    BY GossipStarts
<1>2. GossipIInv /\ [GossipNext]_gossipVars => GossipIInv'
    <2> SUFFICES ASSUME GossipIInv, [GossipNext]_gossipVars
                 PROVE  GossipIInv'
        OBVIOUS
    <2>1. ASSUME NEW s \in Handlers, Unsubscribe(s)
          PROVE  GossipIInv'
        BY <2>1, UnsubscribeEnough
    <2>2. ASSUME NEW s \in Handlers, NEW c \in Clusters, Subscribe(s, c)
          PROVE  GossipIInv'
        BY <2>2, SubscribeEnough
    <2>3. ASSUME NEW ok \in BOOLEAN, Take(ok)
          PROVE  GossipIInv'
        BY <2>3, TakeEnough
    <2>4. CASE UNCHANGED gossipVars
        BY <2>4 DEF gossipVars, GossipIInv, GossipTypeOK, Pending, Members
    <2> QED BY <2>1, <2>2, <2>3, <2>4 DEF GossipNext
<1> QED BY <1>1, <1>2, PTL DEF GossipSpec

(* The gossip model's types: the channel stays within its capacity and every    *)
(* counter within its bound.                                                  *)
THEOREM GossipTypes == GossipSpec => []GossipTypeOK
<1>1. GossipIInv => GossipTypeOK
    BY DEF GossipIInv
<1> QED BY <1>1, GossipInvariant, PTL

(* The relay never leaves the topic of a cluster that has a daemon connected   *)
(* (relay_event_loop in p2p.rs), once the commands sent are taken.            *)
THEOREM GossipSubscribed == GossipSpec => []SubscribedWhileConnected
<1>1. GossipIInv => SubscribedWhileConnected
    <2> SUFFICES ASSUME GossipIInv, NEW c \in Clusters, channel = <<>>,
                        NEW s \in Handlers, cluster[s] = c
                 PROVE  topic[c] # "left"
        BY DEF SubscribedWhileConnected, Connected
    <2>1. GossipTypeOK /\ Enough(c)
        BY EnoughIsInvariant
    <2>2. \A m : Spots(channel, m) = {}
        BY DEF Spots
    <2>3. s \in Members(c)
        BY DEF Members
    <2>4. IsFiniteSet(Members(c)) /\ Cardinality(Members(c)) \in Nat
        BY <2>1, GossipNumbers
    <2>5. Cardinality(Members(c)) # 0
        BY <2>3, <2>4, FS_EmptySet
    <2>6. /\ Cardinality(Spots(channel, Command("subscribe", c))) = 0
          /\ Cardinality(Spots(channel, Command("unsubscribe", c))) = 0
        BY <2>2, FS_EmptySet
    <2>7. count[c] \in Nat
        BY <2>1, GossipNumbers
    <2> QED BY <2>1, <2>4, <2>5, <2>6, <2>7 DEF Enough
<1> QED BY <1>1, GossipInvariant, PTL
=============================================================================
