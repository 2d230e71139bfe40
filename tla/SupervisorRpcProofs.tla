------------------------ MODULE SupervisorRpcProofs ------------------------
(***************************************************************************)
(* The RPC between daemon and supervisor, for any capacities, kinds of     *)
(* request and number of calls: answers come back once and in order, and a *)
(* call is given the answer of the call made as many calls before it as    *)
(* were given up.                                                          *)
(***************************************************************************)
EXTENDS SupervisorRpc, Integers, TLAPS

USE RpcAssumption, NoMessageAssumption

Packet == RequestMsg \cup Message

LEMMA PacketIds ==
    /\ \A m \in RequestMsg \cup ResponseMsg : m.id \in Ids /\ ~IsNotif(m) /\ m # Notif
    /\ IsNotif(Notif) /\ Notif.id = 0
    /\ \A m \in Packet : m.id \in Nat /\ m # None
    /\ Ids \subseteq Nat \ {0}
<1>1. Ids \subseteq Nat \ {0}
    BY DEF Ids
<1>2. \A m \in RequestMsg \cup ResponseMsg : m.id \in Ids
    BY DEF RequestMsg, ResponseMsg
<1>3. Notif.id = 0
    BY DEF Notif
<1>4. \A m \in RequestMsg \cup ResponseMsg : m.id # 0 /\ m # Notif
    BY <1>1, <1>2, <1>3
<1>5. ASSUME NEW m \in Packet
      PROVE  m.id \in Nat
    <2>1. m \in RequestMsg \cup ResponseMsg \/ m = Notif
        BY DEF Packet, Message
    <2>2. CASE m \in RequestMsg \cup ResponseMsg
        BY <1>1, <1>2, <2>2
    <2>3. CASE m = Notif
        BY <1>3, <2>3
    <2> QED BY <2>1, <2>2, <2>3
<1>6. \A m \in Packet : m # None
    BY NoMessageAssumption DEF Packet
<1> QED BY <1>1, <1>2, <1>3, <1>4, <1>5, <1>6 DEF IsNotif

-----------------------------------------------------------------------------
(* Runs of answers. *)

LEMMA SpansEmpty ==
    ASSUME NEW a \in Int
    PROVE  Spans(<<>>, a, a)
BY DEF Spans, AnswersIn

LEMMA SpansAnswer ==
    ASSUME NEW m \in RequestMsg \cup ResponseMsg
    PROVE  Spans(<<m>>, m.id - 1, m.id)
<1>1. m.id \in Nat /\ ~IsNotif(m)
    BY PacketIds
<1>2. AnswersIn(<<m>>) = {1}
    BY <1>1 DEF AnswersIn
<1> QED BY <1>1, <1>2 DEF Spans

LEMMA SpansNotif ==
    ASSUME NEW a \in Int
    PROVE  Spans(<<Notif>>, a, a)
<1>1. AnswersIn(<<Notif>>) = {}
    BY PacketIds DEF AnswersIn
<1> QED BY <1>1 DEF Spans

LEMMA SpansConcat ==
    ASSUME NEW s \in Seq(Packet), NEW t \in Seq(Packet),
           NEW a \in Int, NEW b \in Int, NEW c \in Int,
           Spans(s, a, b), Spans(t, b, c)
    PROVE  Spans(s \o t, a, c) /\ s \o t \in Seq(Packet)
<1> DEFINE n == Len(s)
           u == s \o t
<1>1. /\ u \in Seq(Packet) /\ Len(u) = n + Len(t) /\ n \in Nat /\ Len(t) \in Nat
      /\ \A i \in 1 .. n : u[i] = s[i]
      /\ \A i \in 1 .. Len(t) : u[n + i] = t[i]
    OBVIOUS
<1>2. \A i \in AnswersIn(u) :
        \/ i \in AnswersIn(s) /\ u[i] = s[i]
        \/ i > n /\ i - n \in AnswersIn(t) /\ u[i] = t[i - n]
    <2> SUFFICES ASSUME NEW i \in AnswersIn(u)
                 PROVE  \/ i \in AnswersIn(s) /\ u[i] = s[i]
                        \/ i > n /\ i - n \in AnswersIn(t) /\ u[i] = t[i - n]
        OBVIOUS
    <2>1. i \in 1 .. Len(u) /\ ~IsNotif(u[i])
        BY DEF AnswersIn
    <2>2. CASE i <= n
        BY <1>1, <2>1, <2>2 DEF AnswersIn
    <2>3. CASE i > n
        <3>1. i - n \in 1 .. Len(t) /\ n + (i - n) = i
            BY <1>1, <2>1, <2>3
        <3>2. u[i] = t[i - n]
            BY <1>1, <3>1
        <3> QED BY <2>1, <2>3, <3>1, <3>2 DEF AnswersIn
    <2> QED BY <1>1, <2>1, <2>2, <2>3
<1>3. \A i \in AnswersIn(s) : i \in AnswersIn(u) /\ u[i] = s[i] /\ i <= n
    BY <1>1 DEF AnswersIn
<1>4. \A i \in AnswersIn(t) : n + i \in AnswersIn(u) /\ u[n + i] = t[i]
    BY <1>1 DEF AnswersIn
<1>5. \A i \in AnswersIn(s) : s[i].id \in a + 1 .. b
    BY DEF Spans
<1>6. \A i \in AnswersIn(t) : t[i].id \in b + 1 .. c
    BY DEF Spans
<1>7. ASSUME NEW i \in AnswersIn(u), NEW j \in AnswersIn(u), i < j
      PROVE  u[i].id < u[j].id
    <2>0. i \in Nat /\ j \in Nat
        BY <1>1 DEF AnswersIn
    <2> HIDE DEF u, n
    <2>1. CASE j \in AnswersIn(s) /\ u[j] = s[j]
        <3>1. i \in AnswersIn(s) /\ u[i] = s[i]
            BY <1>1, <1>2, <1>3, <1>7, <2>0, <2>1
        <3> QED BY <2>1, <3>1, <1>7 DEF Spans
    <2>2. CASE j > n /\ j - n \in AnswersIn(t) /\ u[j] = t[j - n]
        <3>1. CASE i \in AnswersIn(s) /\ u[i] = s[i]
            BY <1>5, <1>6, <2>2, <3>1
        <3>2. CASE i > n /\ i - n \in AnswersIn(t) /\ u[i] = t[i - n]
            <4>1. i - n < j - n
                BY <1>1, <1>7, <2>0
            <4> QED BY <2>2, <3>2, <4>1 DEF Spans
        <3> QED BY <1>2, <3>1, <3>2
    <2> QED BY <1>2, <2>1, <2>2
<1>8. {u[i].id : i \in AnswersIn(u)} = a + 1 .. c
    <2> HIDE DEF u, n
    <2>1. a <= b /\ b <= c
        BY DEF Spans
    <2>2. \A i \in AnswersIn(u) : u[i].id \in a + 1 .. c
        BY <1>2, <1>5, <1>6, <2>1
    <2>3. \A x \in a + 1 .. c : \E i \in AnswersIn(u) : u[i].id = x
        <3> TAKE x \in a + 1 .. c
        <3>1. CASE x <= b
            <4>1. {s[i].id : i \in AnswersIn(s)} = a + 1 .. b /\ x \in a + 1 .. b
                BY <3>1 DEF Spans
            <4>2. PICK i \in AnswersIn(s) : s[i].id = x
                BY <4>1
            <4> QED BY <1>3, <4>2
        <3>2. CASE x > b
            <4>1. {t[i].id : i \in AnswersIn(t)} = b + 1 .. c /\ x \in b + 1 .. c
                BY <3>2 DEF Spans
            <4>2. PICK i \in AnswersIn(t) : t[i].id = x
                BY <4>1
            <4> QED BY <1>4, <4>2
        <3> QED BY <3>1, <3>2
    <2> QED BY <2>2, <2>3
<1>9. a <= c
    BY DEF Spans
<1> HIDE DEF u
<1>10. Spans(u, a, c)
    BY <1>7, <1>8, <1>9 DEF Spans
<1> QED BY <1>1, <1>10 DEF u

(* The first message of a run is a notification or its first answer.          *)
LEMMA SpansTail ==
    ASSUME NEW s \in Seq(Packet), s # <<>>, NEW a \in Int, NEW b \in Int, Spans(s, a, b)
    PROVE  /\ Head(s) \in Packet /\ Tail(s) \in Seq(Packet)
           /\ IsNotif(Head(s)) => Spans(Tail(s), a, b)
           /\ ~IsNotif(Head(s)) => Head(s).id = a + 1 /\ Spans(Tail(s), a + 1, b)
<1> DEFINE t == Tail(s)
<1>1. /\ t \in Seq(Packet) /\ Head(s) \in Packet /\ Head(s) = s[1]
      /\ Len(s) \in Nat /\ Len(s) >= 1 /\ Len(t) = Len(s) - 1
      /\ \A i \in 1 .. Len(t) : t[i] = s[i + 1]
    OBVIOUS
<1>2. \A i \in AnswersIn(t) : i \in Nat /\ i >= 1 /\ i + 1 \in AnswersIn(s) /\ t[i] = s[i + 1]
    BY <1>1 DEF AnswersIn
<1>3. \A i \in AnswersIn(s) : i \in Nat /\ (i = 1 \/ (i > 1 /\ i - 1 \in AnswersIn(t) /\ t[i - 1] = s[i]))
    <2> SUFFICES ASSUME NEW i \in AnswersIn(s), i # 1
                 PROVE  i \in Nat /\ i > 1 /\ i - 1 \in AnswersIn(t) /\ t[i - 1] = s[i]
        BY DEF AnswersIn
    <2>1. i \in 1 .. Len(s) /\ ~IsNotif(s[i])
        BY DEF AnswersIn
    <2>2. i - 1 \in 1 .. Len(t) /\ (i - 1) + 1 = i
        BY <1>1, <2>1
    <2>3. t[i - 1] = s[i]
        BY <1>1, <2>2
    <2> QED BY <2>1, <2>2, <2>3 DEF AnswersIn
<1> HIDE DEF t
<1>4. \A i, j \in AnswersIn(t) : i < j => t[i].id < t[j].id
    BY <1>2 DEF Spans
<1>5. a <= b /\ \A i \in AnswersIn(s) : s[i].id \in a + 1 .. b
    BY DEF Spans
<1>6. CASE IsNotif(Head(s))
    <2>1. 1 \notin AnswersIn(s)
        BY <1>1, <1>6 DEF AnswersIn
    <2>2. {t[i].id : i \in AnswersIn(t)} = {s[i].id : i \in AnswersIn(s)}
        BY <1>2, <1>3, <2>1
    <2> QED BY <1>1, <1>4, <1>5, <1>6, <2>2 DEF Spans, t
<1>7. CASE ~IsNotif(Head(s))
    <2>1. 1 \in AnswersIn(s)
        BY <1>1, <1>7 DEF AnswersIn
    <2>2. s[1].id \in a + 1 .. b
        BY <1>5, <2>1
    <2>3. \A i \in AnswersIn(s) : i # 1 => s[1].id < s[i].id
        BY <1>3, <2>1 DEF Spans
    <2>4. s[1].id = a + 1
        <3>1. a + 1 \in {s[i].id : i \in AnswersIn(s)}
            BY <2>2, SMTT(30) DEF Spans
        <3>2. PICK i \in AnswersIn(s) : s[i].id = a + 1
            BY <3>1
        <3> QED BY <2>2, <2>3, <3>2
    <2>5. \A i \in AnswersIn(t) : t[i].id \in (a + 1) + 1 .. b
        BY <1>2, <1>5, <2>3, <2>4
    <2>6. \A x \in (a + 1) + 1 .. b : \E i \in AnswersIn(t) : t[i].id = x
        <3> TAKE x \in (a + 1) + 1 .. b
        <3>1. {s[i].id : i \in AnswersIn(s)} = a + 1 .. b /\ x \in a + 1 .. b
            BY DEF Spans
        <3>2. PICK i \in AnswersIn(s) : s[i].id = x
            BY <3>1
        <3>3. i # 1
            BY <2>4, <3>2
        <3> QED BY <1>3, <3>2, <3>3
    <2>7. {t[i].id : i \in AnswersIn(t)} = (a + 1) + 1 .. b
        BY <2>5, <2>6
    <2>8. a + 1 <= b
        BY <2>2
    <2> QED BY <1>1, <1>4, <1>7, <2>4, <2>7, <2>8 DEF Spans, t
<1> QED BY <1>1, <1>6, <1>7 DEF t

LEMMA SpansOne ==
    ASSUME NEW m \in RequestMsg \cup ResponseMsg, NEW a \in Int, NEW b \in Int,
           Spans(<<m>>, a, b)
    PROVE  m.id = b /\ b = a + 1
<1>1. m.id \in Nat /\ ~IsNotif(m)
    BY PacketIds
<1>2. AnswersIn(<<m>>) = {1}
    BY <1>1 DEF AnswersIn
<1>3. {<<m>>[i].id : i \in AnswersIn(<<m>>)} = {m.id}
    BY <1>2
<1>4. {m.id} = a + 1 .. b
    BY <1>3 DEF Spans
<1>5. m.id \in a + 1 .. b
    BY <1>4
<1>6. a + 1 \in a + 1 .. b /\ b \in a + 1 .. b
    BY <1>5
<1> QED BY <1>4, <1>6

LEMMA SpansAppend ==
    ASSUME NEW s \in Seq(Packet), NEW m \in Packet, NEW a \in Int, NEW b \in Nat,
           Spans(s, a, b)
    PROVE  /\ m.id = b + 1 => Spans(Append(s, m), a, b + 1)
           /\ m = Notif => Spans(Append(s, m), a, b)
<1>1. Append(s, m) = s \o <<m>> /\ <<m>> \in Seq(Packet)
    OBVIOUS
<1>2. ASSUME m.id = b + 1
      PROVE  Spans(Append(s, m), a, b + 1)
    <2>1. CASE m \in RequestMsg \cup ResponseMsg
        <3>1. m.id - 1 = b
            BY <1>2
        <3>2. Spans(<<m>>, b, b + 1)
            BY <1>2, <2>1, <3>1, SpansAnswer
        <3>3. b \in Int /\ b + 1 \in Int
            OBVIOUS
        <3>4. Spans(s \o <<m>>, a, b + 1)
            BY <1>1, <3>2, <3>3, SpansConcat
        <3> QED BY <1>1, <3>4
    <2>2. CASE m = Notif
        BY <1>2, <2>2, PacketIds
    <2> QED BY <2>1, <2>2 DEF Packet, Message
<1>3. ASSUME m = Notif
      PROVE  Spans(Append(s, m), a, b)
    <2>1. Spans(<<m>>, b, b)
        BY <1>3, SpansNotif
    <2>2. b \in Int
        OBVIOUS
    <2>3. Spans(s \o <<m>>, a, b)
        BY <1>1, <2>1, <2>2, SpansConcat
    <2> QED BY <1>1, <2>3
<1> QED BY <1>2, <1>3

-----------------------------------------------------------------------------
(* The invariant, action by action. *)

LEMMA Sizes ==
    ASSUME IInv
    PROVE  /\ calls \in Nat /\ abandoned \in Nat /\ Outstanding \in Nat
           /\ Returned \in Nat /\ Channelled \in Nat /\ Sorted \in Nat
           /\ Answered \in Nat /\ Asked \in Nat
           /\ Len(respRx) \in Nat /\ Len(requests) \in Nat
           /\ respRx \in Seq(Packet) /\ replies \in Seq(Packet) /\ requests \in Seq(Packet)
           /\ One(held) \in Seq(Packet) /\ One(serving) \in Seq(Packet)
<1>1. calls \in Nat /\ abandoned \in Nat /\ Len(respRx) \in Nat /\ Len(requests) \in Nat
    BY DEF IInv, TypeOK
<1>2. Outstanding \in Nat /\ Returned \in Nat
    BY <1>1 DEF IInv, Outstanding, Returned
<1>3. Channelled \in Nat /\ Sorted \in Nat
    BY <1>1, <1>2 DEF Channelled, Sorted
<1>4. Asked \in Int /\ Answered \in Int
    BY <1>1 DEF Asked, Answered
<1>5. Sorted <= Answered /\ Answered <= Asked
    BY DEF IInv, Spans
<1>6. respRx \in Seq(Packet) /\ replies \in Seq(Packet) /\ requests \in Seq(Packet)
    BY DEF IInv, TypeOK, Packet, Message
<1>7. \A x \in Packet : <<x>> \in Seq(Packet)
    OBVIOUS
<1>8. held \in Packet \cup {None} /\ serving \in Packet \cup {None} /\ <<>> \in Seq(Packet)
    BY DEF IInv, TypeOK, Packet, Message
<1>9. One(held) \in Seq(Packet) /\ One(serving) \in Seq(Packet)
    BY <1>7, <1>8 DEF One
<1> QED BY <1>1, <1>2, <1>3, <1>4, <1>5, <1>6, <1>9

LEMMA WrittenKeeps ==
    ASSUME IInv, Written
    PROVE  IInv'
<1> DEFINE k == out
           m == [id |-> calls + 1, kind |-> k]
<1>0. /\ calls \in Nat /\ abandoned \in Nat /\ Len(requests) \in Nat
      /\ calls' = calls + 1 /\ call = None /\ call' = k /\ calls < MaxCalls
      /\ out' = None /\ requests' = Append(requests, m)
      /\ UNCHANGED <<abandoned, serving, held, respRx, replies, notifRx, last>>
    BY Sizes DEF Written, IInv, Writing
<1>1. k # None /\ k \in Kinds /\ calls + 1 \in Ids /\ calls + 1 \in 0 .. MaxCalls
    BY <1>0, SMTT(30) DEF Ids, Written, IInv, TypeOK
<1> HIDE DEF k
<1>2. m \in RequestMsg /\ m \in Packet /\ m.id = calls + 1
    BY <1>1 DEF RequestMsg, Packet
<1>3. /\ requests' = Append(requests, m) /\ requests' \in Seq(RequestMsg)
      /\ Len(requests') = Len(requests) + 1
    BY <1>0, <1>2 DEF IInv, TypeOK
<1>4. TypeOK'
    BY <1>0, <1>1, <1>3 DEF IInv, TypeOK
<1>5. Outstanding' = Outstanding + 1 /\ Returned' = Returned
    BY <1>0, <1>1 DEF Outstanding, Returned
<1>6. Channelled' = Channelled /\ Sorted' = Sorted
    BY <1>0, <1>5, Sizes DEF Channelled, Sorted
<1>7. Asked' = Asked /\ Answered' = Answered
    <2> HIDE DEF m
    <2> QED BY <1>0, <1>3 DEF Asked, Answered
<1>8. Spans(requests, Asked, calls)
    BY DEF IInv
<1>9. Spans(requests', Asked, calls + 1)
    BY <1>2, <1>3, <1>8, Sizes, SpansAppend, SMTT(30)
<1>10. LagsByTimeouts' /\ Outstanding' <= calls'
    BY <1>0, <1>1, <1>5, Sizes, SMTT(30) DEF IInv, LagsByTimeouts
<1>11. (last # None => last.id <= calls /\ (call # None => last.id < calls))'
    <2>1. last # None => last.id \in Nat /\ last.id <= calls
        BY DEF IInv, TypeOK, Ids
    <2> QED BY <1>0, <1>1, <2>1
<1> HIDE DEF m
<1>12. Spans(respRx, Returned, Channelled)' /\ Spans(One(held), Channelled, Sorted)'
    BY <1>0, <1>5, <1>6 DEF IInv, One
<1>13. Spans(replies, Sorted, Answered)' /\ Spans(One(serving), Answered, Asked)'
    BY <1>0, <1>6, <1>7 DEF IInv, One
<1>14. Spans(requests, Asked, calls)'
    BY <1>0, <1>7, <1>9
<1>15. Writing'
    BY <1>0 DEF Writing
<1> QED BY <1>4, <1>10, <1>11, <1>12, <1>13, <1>14, <1>15 DEF IInv

(* A call's answer is the next one due: the channel begins with it.            *)
LEMMA ReturnKeeps ==
    ASSUME IInv, Return
    PROVE  IInv'
<1> DEFINE m == Head(respRx)
<1>0. /\ calls \in Nat /\ abandoned \in Nat /\ Len(respRx) \in Nat
      /\ call # None /\ call' = None /\ respRx # <<>> /\ respRx' = Tail(respRx)
      /\ last' = [id |-> calls, kind |-> call, answer |-> m]
      /\ UNCHANGED <<out, calls, abandoned, requests, serving, held, replies, notifRx>>
    BY Sizes DEF Return
<1>1. /\ m \in ResponseMsg /\ Len(respRx') = Len(respRx) - 1
      /\ respRx' \in Seq(ResponseMsg) /\ Len(respRx') <= RespCap
    BY <1>0 DEF IInv, TypeOK
<1>2. Outstanding = abandoned + 1 /\ Outstanding' = abandoned /\ Outstanding <= calls
    BY <1>0 DEF IInv, Outstanding
<1>3. Returned' = Returned + 1 /\ Returned = calls - abandoned - 1
    BY <1>0, <1>2 DEF Returned
<1>4. Channelled' = Channelled /\ Sorted' = Sorted
    BY <1>0, <1>1, <1>3, Sizes DEF Channelled, Sorted
<1>5. Asked' = Asked /\ Answered' = Answered
    BY <1>0 DEF Asked, Answered
<1>6. ~IsNotif(m) /\ m.id \in Nat
    BY <1>1, PacketIds
<1>7. Spans(respRx, Returned, Channelled)
    BY DEF IInv
<1>8. m.id = Returned + 1 /\ Spans(respRx', Returned + 1, Channelled)
    BY <1>0, <1>6, <1>7, Sizes, SpansTail, SMTT(30)
<1>9. calls \in Ids /\ call \in Kinds
    BY <1>0, <1>2 DEF IInv, TypeOK, Ids
<1>10. last' \in [id: Ids, kind: Kinds, answer: ResponseMsg] /\ last'.id = calls
    BY <1>0, <1>1, <1>9
<1>11. TypeOK'
    BY <1>0, <1>1, <1>10 DEF IInv, TypeOK
<1>12. LagsByTimeouts'
    BY <1>0, <1>3, <1>8 DEF LagsByTimeouts
<1>13. (last # None => last.id <= calls /\ (call # None => last.id < calls))'
    BY <1>0, <1>10
<1> HIDE DEF m
<1>14. Outstanding' <= calls'
    BY <1>0, <1>2
<1>15. Spans(respRx, Returned, Channelled)' /\ Spans(One(held), Channelled, Sorted)'
    BY <1>0, <1>3, <1>4, <1>8 DEF IInv, One
<1>16. /\ Spans(replies, Sorted, Answered)' /\ Spans(One(serving), Answered, Asked)'
       /\ Spans(requests, Asked, calls)'
    BY <1>0, <1>4, <1>5 DEF IInv, One
<1>17. Writing'
    BY <1>0 DEF IInv, Writing
<1> QED BY <1>11, <1>12, <1>13, <1>14, <1>15, <1>16, <1>17 DEF IInv

LEMMA TimeoutKeeps ==
    ASSUME IInv, Timeout
    PROVE  IInv'
<1>0. /\ calls \in Nat /\ abandoned \in Nat
      /\ call # None /\ call' = None /\ abandoned' = abandoned + 1
      /\ UNCHANGED <<out, calls, requests, serving, replies, held, respRx, notifRx, last>>
    BY Sizes DEF Timeout
<1>1. Outstanding = abandoned + 1 /\ Outstanding' = Outstanding /\ Outstanding <= calls
    BY <1>0 DEF IInv, Outstanding
<1>2. calls \in 0 .. MaxCalls
    BY DEF IInv, TypeOK
<1>3. TypeOK'
    BY <1>0, <1>1, <1>2 DEF IInv, TypeOK
<1>4. Returned' = Returned
    BY <1>0, <1>1 DEF Returned
<1>5. Channelled' = Channelled /\ Sorted' = Sorted
    BY <1>0, <1>4 DEF Channelled, Sorted
<1>6. Asked' = Asked /\ Answered' = Answered
    BY <1>0 DEF Asked, Answered
<1>7. last # None => last.id \in Nat /\ last.id < calls
    BY <1>0 DEF IInv, TypeOK, Ids
<1>8. LagsByTimeouts'
    BY <1>0, <1>7 DEF LagsByTimeouts
<1>9. (last # None => last.id <= calls /\ (call # None => last.id < calls))'
    BY <1>0, <1>7
<1>10. Spans(respRx, Returned, Channelled)' /\ Spans(One(held), Channelled, Sorted)'
    BY <1>0, <1>4, <1>5 DEF IInv, One
<1>11. /\ Spans(replies, Sorted, Answered)' /\ Spans(One(serving), Answered, Asked)'
       /\ Spans(requests, Asked, calls)'
    BY <1>0, <1>5, <1>6 DEF IInv, One
<1>12. Outstanding' <= calls'
    BY <1>0, <1>1
<1>13. Writing'
    BY <1>0 DEF IInv, Writing
<1> QED BY <1>3, <1>8, <1>9, <1>10, <1>11, <1>12, <1>13 DEF IInv

(* What leaves everything but the notifications and a request not yet written  *)
(* alone.                                                                      *)
LEMMA NotificationsKeep ==
    ASSUME IInv, TypeOK', Writing',
           UNCHANGED <<calls, call, abandoned, requests, serving, replies, held,
                       respRx, last>>
    PROVE  IInv'
<1>1. Outstanding' = Outstanding /\ Returned' = Returned /\ LagsByTimeouts'
    BY DEF IInv, Outstanding, Returned, LagsByTimeouts
<1>2. Channelled' = Channelled /\ Sorted' = Sorted /\ Asked' = Asked /\ Answered' = Answered
    BY <1>1 DEF Channelled, Sorted, Asked, Answered
<1> QED BY <1>1, <1>2 DEF IInv, One

LEMMA TakeNotificationKeeps ==
    ASSUME IInv, TakeNotification
    PROVE  IInv'
<1>1. notifRx' \in Seq({Notif}) /\ Len(notifRx') <= NotifCap
    BY DEF IInv, TypeOK, TakeNotification
<1>2. TypeOK'
    BY <1>1 DEF IInv, TypeOK, TakeNotification
<1> QED BY <1>2, NotificationsKeep DEF TakeNotification, IInv, Writing

(* A request is being written or given up before it is.                        *)
LEMMA SendKeeps ==
    ASSUME IInv, (\E k \in Kinds : Send(k)) \/ WriteDropped
    PROVE  IInv'
<1>1. TypeOK' /\ Writing'
    BY DEF IInv, TypeOK, Writing, Send, WriteDropped
<1> QED BY <1>1, NotificationsKeep DEF Send, WriteDropped

(* What moves messages through the pipeline concerns neither the calls that    *)
(* have returned nor those still to be answered.                              *)
LEMMA CallsKeep ==
    ASSUME IInv, TypeOK', UNCHANGED <<out, calls, call, abandoned, last>>
    PROVE  /\ TypeOK' /\ Writing' /\ LagsByTimeouts' /\ Outstanding' <= calls'
           /\ (last # None => last.id <= calls /\ (call # None => last.id < calls))'
           /\ Returned' = Returned
BY DEF IInv, Writing, LagsByTimeouts, Outstanding, Returned

LEMMA ReadLineKeeps ==
    ASSUME IInv, ReadLine
    PROVE  IInv'
<1>0. /\ held = None /\ replies # <<>> /\ held' = Head(replies) /\ replies' = Tail(replies)
      /\ UNCHANGED <<out, calls, call, abandoned, requests, serving, respRx, notifRx, last>>
    BY DEF ReadLine
<1>1. held' \in Message /\ replies' \in Seq(Message)
    BY <1>0 DEF IInv, TypeOK
<1>2. TypeOK'
    BY <1>0, <1>1 DEF IInv, TypeOK
<1>3. Channelled' = Channelled /\ Asked' = Asked /\ Answered' = Answered
    BY <1>0, <1>2, CallsKeep DEF Channelled, Asked, Answered
<1>4. Sorted = Channelled
    BY <1>0, Sizes DEF Sorted
<1>5. held' # None /\ held' \in Packet
    BY <1>1, PacketIds DEF Packet
<1>6. Spans(replies, Channelled, Answered)
    BY <1>4 DEF IInv
<1>7. Spans(One(held), Channelled, Sorted)' /\ Spans(replies, Sorted, Answered)'
    <2>1. CASE held' = Notif
        <3>1. IsNotif(held') /\ Sorted' = Channelled
            BY <1>3, <2>1, PacketIds, Sizes DEF Sorted
        <3>2. Spans(replies', Channelled, Answered)
            BY <1>0, <1>6, <3>1, Sizes, SpansTail, SMTT(30)
        <3>3. Spans(<<held'>>, Channelled, Channelled)
            BY <2>1, Sizes, SpansNotif, SMTT(30)
        <3> QED BY <1>3, <1>5, <3>1, <3>2, <3>3 DEF One
    <2>2. CASE held' \in ResponseMsg
        <3>1. ~IsNotif(held') /\ held' # Notif
            BY <2>2, PacketIds
        <3>2. Sorted' = Channelled + 1
            BY <1>3, <1>5, <3>1 DEF Sorted
        <3>3. held'.id = Channelled + 1 /\ Spans(replies', Channelled + 1, Answered)
            BY <1>0, <1>6, <3>1, Sizes, SpansTail, SMTT(30)
        <3>4. held'.id - 1 = Channelled
            BY <3>3, Sizes
        <3>5. Spans(<<held'>>, Channelled, Channelled + 1)
            BY <2>2, <3>3, <3>4, SpansAnswer
        <3> QED BY <1>3, <1>5, <3>2, <3>3, <3>5 DEF One
    <2> QED BY <1>1, <2>1, <2>2 DEF Message
<1>8. Spans(respRx, Returned, Channelled)'
    BY <1>0, <1>2, <1>3, CallsKeep DEF IInv
<1>9. Spans(One(serving), Answered, Asked)' /\ Spans(requests, Asked, calls)'
    BY <1>0, <1>3 DEF IInv, One
<1> QED BY <1>0, <1>2, <1>7, <1>8, <1>9, CallsKeep DEF IInv

LEMMA ForwardKeeps ==
    ASSUME IInv, Forward
    PROVE  IInv'
<1>0. /\ held # None /\ held' = None
      /\ UNCHANGED <<out, calls, call, abandoned, requests, serving, replies, last>>
    BY DEF Forward
<1>1. held \in Message
    BY <1>0 DEF IInv, TypeOK
<1>2. Asked' = Asked /\ Answered' = Answered
    BY <1>0 DEF Asked, Answered
<1>3. One(held') = <<>>
    BY <1>0 DEF One
<1>4. Spans(One(serving), Answered, Asked)' /\ Spans(requests, Asked, calls)'
    BY <1>0, <1>2 DEF IInv, One
<1>5. CASE held = Notif
    <2>1. /\ notifRx' = Append(notifRx, held) /\ Len(notifRx) < NotifCap
          /\ UNCHANGED respRx
        BY <1>5, PacketIds DEF Forward
    <2>2. notifRx' \in Seq({Notif}) /\ Len(notifRx') <= NotifCap
        BY <1>5, <2>1 DEF IInv, TypeOK
    <2>3. TypeOK'
        BY <1>0, <2>1, <2>2 DEF IInv, TypeOK
    <2>4. Channelled' = Channelled /\ Sorted' = Channelled /\ Sorted = Channelled
        BY <1>0, <1>5, <2>1, <2>3, Sizes, CallsKeep DEF Channelled, Sorted
    <2>5. Spans(<<>>, Channelled, Channelled)
        BY Sizes, SpansEmpty
    <2>6. Spans(respRx, Returned, Channelled)'
        BY <1>0, <2>1, <2>3, <2>4, CallsKeep DEF IInv
    <2>7. Spans(One(held), Channelled, Sorted)' /\ Spans(replies, Sorted, Answered)'
        BY <1>0, <1>2, <1>3, <2>4, <2>5 DEF IInv
    <2> QED BY <1>0, <1>4, <2>3, <2>6, <2>7, CallsKeep DEF IInv
<1>6. CASE held \in ResponseMsg
    <2>1. ~IsNotif(held) /\ held # Notif /\ held \in Packet
        BY <1>1, <1>6, PacketIds DEF Packet
    <2>2. /\ respRx' = Append(respRx, held) /\ Len(respRx) < RespCap
          /\ UNCHANGED notifRx
        BY <2>1 DEF Forward
    <2>3. /\ respRx' \in Seq(ResponseMsg) /\ Len(respRx') = Len(respRx) + 1
          /\ Len(respRx') <= RespCap
        BY <1>6, <2>2 DEF IInv, TypeOK
    <2>4. TypeOK'
        BY <1>0, <2>2, <2>3 DEF IInv, TypeOK
    <2>5. Channelled' = Channelled + 1 /\ Sorted' = Channelled' /\ Sorted = Channelled + 1
        BY <1>0, <2>1, <2>3, <2>4, Sizes, CallsKeep, SMTT(30) DEF Channelled, Sorted
    <2>6. Spans(<<held>>, Channelled, Sorted)
        BY <1>0 DEF IInv, One
    <2>7. held.id = Channelled + 1
        BY <1>6, <2>5, <2>6, Sizes, SpansOne, SMTT(30)
    <2>8. Spans(respRx, Returned, Channelled)
        BY DEF IInv
    <2>9. Spans(respRx', Returned, Channelled + 1)
        BY <2>1, <2>2, <2>7, <2>8, Sizes, SpansAppend, SMTT(30)
    <2>10. Spans(respRx, Returned, Channelled)'
        BY <1>0, <2>4, <2>5, <2>9, CallsKeep
    <2>11. Spans(<<>>, Channelled + 1, Channelled + 1)
        BY Sizes, SpansEmpty
    <2>12. Spans(One(held), Channelled, Sorted)'
        BY <1>3, <2>5, <2>11
    <2>13. Spans(replies, Sorted, Answered)'
        BY <1>0, <1>2, <2>5 DEF IInv
    <2> QED BY <1>0, <1>4, <2>4, <2>10, <2>12, <2>13, CallsKeep DEF IInv
<1> QED BY <1>1, <1>5, <1>6 DEF Message

LEMMA TakeKeeps ==
    ASSUME IInv, Take
    PROVE  IInv'
<1>0. /\ serving = None /\ requests # <<>>
      /\ serving' = Head(requests) /\ requests' = Tail(requests)
      /\ UNCHANGED <<out, calls, call, abandoned, replies, held, respRx, notifRx, last>>
    BY DEF Take
<1>1. /\ serving' \in RequestMsg /\ requests' \in Seq(RequestMsg)
      /\ Len(requests') = Len(requests) - 1
    BY <1>0 DEF IInv, TypeOK
<1>2. TypeOK'
    BY <1>0, <1>1 DEF IInv, TypeOK
<1>3. Channelled' = Channelled /\ Sorted' = Sorted
    BY <1>0, <1>2, CallsKeep DEF Channelled, Sorted
<1>4. serving' \notin {None, Notif} /\ ~IsNotif(serving') /\ serving' \in Packet
    BY <1>1, PacketIds DEF Packet
<1>5. Answered = Asked /\ Asked' = Asked + 1 /\ Answered' = Asked
    BY <1>0, <1>1, <1>4, Sizes DEF Asked, Answered
<1>6. Spans(requests, Asked, calls)
    BY DEF IInv
<1>7. serving'.id = Asked + 1 /\ Spans(requests', Asked + 1, calls)
    BY <1>0, <1>4, <1>6, Sizes, SpansTail, SMTT(30)
<1>8. serving'.id - 1 = Asked
    BY <1>7, Sizes
<1>9. Spans(<<serving'>>, Asked, Asked + 1)
    BY <1>1, <1>7, <1>8, SpansAnswer
<1>10. Spans(One(serving), Answered, Asked)' /\ Spans(requests, Asked, calls)'
    BY <1>0, <1>4, <1>5, <1>7, <1>9 DEF One
<1>11. /\ Spans(respRx, Returned, Channelled)' /\ Spans(One(held), Channelled, Sorted)'
       /\ Spans(replies, Sorted, Answered)'
    BY <1>0, <1>2, <1>3, <1>5, CallsKeep DEF IInv, One
<1> QED BY <1>0, <1>2, <1>10, <1>11, CallsKeep DEF IInv

LEMMA AnswerKeeps ==
    ASSUME IInv, Answer, serving # Notif
    PROVE  IInv'
<1>0. /\ serving # None /\ serving' = None
      /\ UNCHANGED <<out, calls, call, abandoned, requests, held, respRx, notifRx, last>>
    BY DEF Answer
<1>2. serving \in RequestMsg /\ serving.kind \in Kinds /\ serving.id \in Ids
    BY <1>0 DEF IInv, TypeOK, RequestMsg
<1>1. PICK v \in Answers[serving.kind] :
        replies' = Append(replies, [id |-> serving.id, value |-> v])
    BY <1>2, PacketIds DEF Answer
<1> DEFINE m == [id |-> serving.id, value |-> v]
<1>3. m \in ResponseMsg /\ m \in Message /\ m \in Packet /\ m.id = serving.id
    BY <1>2 DEF ResponseMsg, Message, Packet, Values
<1>4. replies' = Append(replies, m)
    BY <1>1
<1> HIDE DEF m
<1>5. replies' \in Seq(Message)
    BY <1>3, <1>4 DEF IInv, TypeOK
<1>6. TypeOK'
    BY <1>0, <1>5 DEF IInv, TypeOK
<1>7. Channelled' = Channelled /\ Sorted' = Sorted
    BY <1>0, <1>6, CallsKeep DEF Channelled, Sorted
<1>8. Asked' = Asked /\ Answered' = Asked /\ Asked = Answered + 1
    BY <1>0, Sizes, SMTT(30) DEF Asked, Answered
<1>9. Spans(<<serving>>, Answered, Asked)
    BY <1>0 DEF IInv, One
<1>10. serving.id = Answered + 1
    BY <1>2, <1>8, <1>9, Sizes, SpansOne, SMTT(30)
<1>11. Spans(replies, Sorted, Answered)
    BY DEF IInv
<1>12. Spans(replies', Sorted, Answered + 1)
    BY <1>3, <1>4, <1>10, <1>11, Sizes, SpansAppend, SMTT(30)
<1>13. Spans(replies, Sorted, Answered)'
    BY <1>7, <1>8, <1>12
<1>14. Spans(<<>>, Asked, Asked)
    BY Sizes, SpansEmpty
<1>15. Spans(One(serving), Answered, Asked)'
    BY <1>0, <1>8, <1>14 DEF One
<1>16. /\ Spans(respRx, Returned, Channelled)' /\ Spans(One(held), Channelled, Sorted)'
       /\ Spans(requests, Asked, calls)'
    BY <1>0, <1>6, <1>7, <1>8, CallsKeep DEF IInv, One
<1> QED BY <1>0, <1>6, <1>13, <1>15, <1>16, CallsKeep DEF IInv

LEMMA NotifiedKeeps ==
    ASSUME IInv, Answer, serving = Notif
    PROVE  IInv'
<1>0. /\ replies' = Append(replies, Notif) /\ serving = Notif /\ serving' = None
      /\ UNCHANGED <<out, calls, call, abandoned, requests, held, respRx, notifRx, last>>
    BY PacketIds DEF Answer
<1>1. Notif \in Message /\ Notif \in Packet
    BY DEF Message, Packet
<1>2. replies' \in Seq(Message)
    BY <1>0, <1>1 DEF IInv, TypeOK
<1>3. TypeOK'
    BY <1>0, <1>2 DEF IInv, TypeOK
<1>4. Channelled' = Channelled /\ Sorted' = Sorted
    BY <1>0, <1>3, CallsKeep DEF Channelled, Sorted
<1>5. Asked' = Asked /\ Answered' = Answered
    BY <1>0, Sizes DEF Asked, Answered
<1>6. Spans(replies, Sorted, Answered)
    BY DEF IInv
<1>7. Spans(replies', Sorted, Answered)
    BY <1>0, <1>1, <1>6, Sizes, SpansAppend, SMTT(30)
<1>8. Spans(replies, Sorted, Answered)'
    BY <1>4, <1>5, <1>7
<1>9. /\ Spans(respRx, Returned, Channelled)' /\ Spans(One(held), Channelled, Sorted)'
      /\ Spans(requests, Asked, calls)'
    BY <1>0, <1>3, <1>4, <1>5, CallsKeep DEF IInv, One
<1>10. Asked = Answered
    BY <1>0, Sizes DEF Asked, Answered
<1>11. Spans(One(serving), Answered, Asked)'
    BY <1>0, <1>5, <1>10, Sizes, SpansEmpty DEF One
<1> QED BY <1>0, <1>3, <1>8, <1>9, <1>11, CallsKeep DEF IInv

(* A notification is taken up: it is no answer.                               *)
LEMMA NotifyKeeps ==
    ASSUME IInv, Notify
    PROVE  IInv'
<1>0. /\ serving = None /\ serving' = Notif
      /\ UNCHANGED <<out, calls, call, abandoned, requests, replies, held, respRx, notifRx, last>>
    BY DEF Notify
<1>1. TypeOK'
    BY <1>0 DEF IInv, TypeOK
<1>2. Channelled' = Channelled /\ Sorted' = Sorted
    BY <1>0, <1>1, CallsKeep DEF Channelled, Sorted
<1>3. Asked' = Asked /\ Answered' = Asked /\ Answered = Asked /\ Notif # None
    BY <1>0, Sizes, PacketIds DEF Asked, Answered, Packet, Message
<1>4. /\ Spans(respRx, Returned, Channelled)' /\ Spans(One(held), Channelled, Sorted)'
      /\ Spans(replies, Sorted, Answered)' /\ Spans(requests, Asked, calls)'
    BY <1>0, <1>1, <1>2, <1>3, CallsKeep DEF IInv, One
<1>5. Spans(One(serving), Answered, Asked)'
    BY <1>0, <1>3, Sizes, SpansNotif DEF One
<1> QED BY <1>0, <1>1, <1>4, <1>5, CallsKeep DEF IInv

(* A fresh connection.                                                        *)
LEMMA Fresh ==
    ASSUME Init
    PROVE  IInv
<1>1. TypeOK
    BY DEF Init, TypeOK
<1>2. Outstanding = 0 /\ Returned = 0 /\ Asked = 0
    <2>1. Len(requests) = 0 /\ calls = 0 /\ abandoned = 0 /\ call = None
        BY DEF Init
    <2> QED BY <2>1 DEF Outstanding, Returned, Asked
<1>3. Channelled = 0 /\ Sorted = 0 /\ Answered = 0
    BY <1>2 DEF Init, Channelled, Sorted, Answered
<1>4. Spans(<<>>, 0, 0)
    BY SpansEmpty
<1>5. One(None) = <<>>
    BY DEF One
<1> QED BY <1>1, <1>2, <1>3, <1>4, <1>5 DEF IInv, Writing, LagsByTimeouts, Init

LEMMA ReconnectKeeps ==
    ASSUME Reconnect
    PROVE  IInv'
<1>1. TypeOK'
    BY DEF Reconnect, TypeOK
<1>2. Outstanding' = 0 /\ Returned' = 0 /\ Asked' = 0
    <2>1. Len(requests') = 0 /\ calls' = 0 /\ abandoned' = 0 /\ call' = None
        BY DEF Reconnect
    <2> QED BY <2>1 DEF Outstanding, Returned, Asked
<1>3. Channelled' = 0 /\ Sorted' = 0 /\ Answered' = 0
    BY <1>2 DEF Reconnect, Channelled, Sorted, Answered
<1>4. Spans(<<>>, 0, 0)
    BY SpansEmpty
<1>5. One(None) = <<>>
    BY DEF One
<1> QED BY <1>1, <1>2, <1>3, <1>4, <1>5 DEF IInv, Writing, LagsByTimeouts, Reconnect, One

(* The inductive invariant: each part of the pipeline, from the response       *)
(* channel of the daemon to the request socket, holds a run of consecutive     *)
(* answers, and the runs follow each other up to the last call made.          *)
THEOREM RpcInvariant == Spec => []IInv
<1>1. Init => IInv
    BY Fresh
<1>2. IInv /\ [Next]_vars => IInv'
    <2> SUFFICES ASSUME IInv, [Next]_vars
                 PROVE  IInv'
        OBVIOUS
    <2>1. CASE (\E k \in Kinds : Send(k)) \/ WriteDropped
        BY <2>1, SendKeeps
    <2>0. CASE Written
        BY <2>0, WrittenKeeps
    <2>2. CASE Return
        BY <2>2, ReturnKeeps
    <2>3. CASE Timeout
        BY <2>3, TimeoutKeeps
    <2>4. CASE TakeNotification
        BY <2>4, TakeNotificationKeeps
    <2>5. CASE ReadLine
        BY <2>5, ReadLineKeeps
    <2>6. CASE Forward
        BY <2>6, ForwardKeeps
    <2>7. CASE Take
        BY <2>7, TakeKeeps
    <2>8. CASE Answer
        BY <2>8, AnswerKeeps, NotifiedKeeps
    <2>9. CASE Notify
        BY <2>9, NotifyKeeps
    <2>10. CASE Reconnect
        BY <2>10, ReconnectKeeps
    <2>11. CASE UNCHANGED vars
        <3>1. TypeOK' /\ Writing'
            BY <2>11 DEF vars, IInv, TypeOK, Writing
        <3> QED BY <2>11, <3>1, NotificationsKeep DEF vars
    <2> QED
        BY <2>0, <2>1, <2>2, <2>3, <2>4, <2>5, <2>6, <2>7, <2>8, <2>9, <2>10, <2>11 DEF Next
<1> QED BY <1>1, <1>2, PTL DEF Spec

(* Types: in particular the channels stay within their capacities and no more  *)
(* calls are given up than were made.                                         *)
THEOREM RpcTypes == Spec => []TypeOK
<1>1. IInv => TypeOK
    BY DEF IInv
<1> QED BY <1>1, RpcInvariant, PTL

(* An answer lags behind its call by the calls given up on the connection      *)
(* (Client::send in client.rs, whose answers carry no request id).            *)
THEOREM RpcLags == Spec => []LagsByTimeouts
<1>1. IInv => LagsByTimeouts
    BY DEF IInv
<1> QED BY <1>1, RpcInvariant, PTL

(* Every request is answered at most once and in order, through both sockets,  *)
(* the reader task and handle_client.                                         *)
THEOREM RpcInOrder == Spec => []PipelineInOrder
<1>1. IInv => PipelineInOrder
    <2> SUFFICES ASSUME IInv
                 PROVE  PipelineInOrder
        OBVIOUS
    <2> DEFINE u1 == respRx \o One(held)
               u2 == u1 \o replies
               u3 == u2 \o One(serving)
    <2>0. /\ Returned \in Int /\ Channelled \in Int /\ Sorted \in Int
          /\ Answered \in Int /\ Asked \in Int /\ calls \in Int
        BY Sizes
    <2>1. Spans(u1, Returned, Sorted) /\ u1 \in Seq(Packet)
        BY <2>0, Sizes, SpansConcat DEF IInv
    <2> HIDE DEF u1
    <2>2. Spans(u2, Returned, Answered) /\ u2 \in Seq(Packet)
        BY <2>0, <2>1, Sizes, SpansConcat DEF IInv
    <2> HIDE DEF u2
    <2>3. Spans(u3, Returned, Asked) /\ u3 \in Seq(Packet)
        BY <2>0, <2>2, Sizes, SpansConcat DEF IInv
    <2> HIDE DEF u3
    <2>4. Spans(u3 \o requests, Returned, calls)
        BY <2>0, <2>3, Sizes, SpansConcat DEF IInv
    <2>5. UnderWay = u3 \o requests
        BY DEF UnderWay, u1, u2, u3
    <2> QED BY <2>4, <2>5 DEF PipelineInOrder, Returned
<1> QED BY <1>1, RpcInvariant, PTL
=============================================================================
