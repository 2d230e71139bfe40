---------------------------- MODULE SupervisorRpc ----------------------------
(***************************************************************************)
(* The RPC between the daemon and its service supervisor: Client           *)
(* (mac-mgmt-services/src/client.rs) sends one request at a time over a    *)
(* local socket and gives up after RPC_TIMEOUT; handle_client (server.rs)  *)
(* passes requests to the main loop one at a time and interleaves their    *)
(* answers with notifications; a reader task in the daemon sorts what      *)
(* arrives into two bounded channels.  Answers carry no request id.        *)
(*                                                                         *)
(* What a request does to the services is Supervisor's subject; here its   *)
(* answer may take any time, since Stop and Unregister wait STOP_GRACE     *)
(* (as long as RPC_TIMEOUT) for a service that ignores SIGTERM.            *)
(***************************************************************************)
EXTENDS Naturals, Sequences

CONSTANTS
    Kinds,       \* kinds of request
    Answers,     \* Answers[k]: the successful responses to a request of kind k
    RespCap,     \* capacity of resp_tx
    NotifCap,    \* capacity of notif_tx
    SocketCap,   \* messages the socket holds in each direction
    MaxCalls,    \* bound on the calls made over one connection
    MayTimeout,  \* whether a call can outlast RPC_TIMEOUT
    None

ASSUME RpcAssumption ==
    /\ RespCap \in Nat \ {0} /\ NotifCap \in Nat \ {0} /\ SocketCap \in Nat \ {0}
    /\ MaxCalls \in Nat
    /\ MayTimeout \in BOOLEAN
    /\ None \notin Kinds

VARIABLES
    out,        \* the kind of the request send() is writing, or None
    calls,      \* requests written to this connection; the id of the last one
    call,       \* the kind of the request whose answer send() awaits, or None
    abandoned,  \* calls given up on this connection
    requests,   \* socket, daemon to supervisor
    serving,    \* what handle_client is busy with: a request or a notification
    replies,    \* socket, supervisor to daemon
    held,       \* the message the reader task is about to forward
    respRx,     \* the response channel
    notifRx,    \* the notification channel
    last        \* the last call that returned, and the answer it was given

vars == <<out, calls, call, abandoned, requests, serving, replies, held,
          respRx, notifRx, last>>

Ids == 1 .. MaxCalls
Values == UNION {Answers[k] : k \in Kinds}
RequestMsg == [id: Ids, kind: Kinds]
ResponseMsg == [id: Ids, value: Values]
Notif == [id |-> 0, value |-> None]
Message == ResponseMsg \cup {Notif}
IsNotif(m) == m.id = 0

ASSUME NoMessageAssumption == None \notin RequestMsg \cup Message

TypeOK ==
    /\ out \in Kinds \cup {None}
    /\ calls \in 0 .. MaxCalls
    /\ call \in Kinds \cup {None}
    /\ abandoned \in 0 .. MaxCalls
    /\ requests \in Seq(RequestMsg)
    /\ serving \in RequestMsg \cup {Notif, None}
    /\ replies \in Seq(Message)
    /\ held \in Message \cup {None}
    /\ respRx \in Seq(ResponseMsg) /\ Len(respRx) <= RespCap
    /\ notifRx \in Seq({Notif}) /\ Len(notifRx) <= NotifCap
    /\ last \in [id: Ids, kind: Kinds, answer: ResponseMsg] \cup {None}

-----------------------------------------------------------------------------
(* Client. *)

\* send: begins to write a request.
Send(k) ==
    /\ out = None /\ call = None
    /\ calls < MaxCalls
    /\ out' = k
    /\ UNCHANGED <<calls, call, abandoned, requests, serving, replies, held,
                   respRx, notifRx, last>>

\* write_all and flush, which RPC_TIMEOUT does not cover: they end once the
\* socket takes the request, and send waits for the next response.
Written ==
    /\ out # None
    /\ Len(requests) < SocketCap
    /\ calls' = calls + 1
    /\ call' = out
    /\ requests' = Append(requests, [id |-> calls + 1, kind |-> out])
    /\ out' = None
    /\ UNCHANGED <<abandoned, serving, replies, held, respRx, notifRx, last>>

\* The health tick's own timeout drops a call that is still being written; a
\* request is written whole or not at all.
WriteDropped ==
    /\ MayTimeout
    /\ out # None
    /\ out' = None
    /\ UNCHANGED <<calls, call, abandoned, requests, serving, replies, held,
                   respRx, notifRx, last>>

\* Mutant: a call takes the newest response and discards the others.
ReturnNewest ==
    /\ call # None
    /\ respRx # <<>>
    /\ last' = [id |-> calls, kind |-> call, answer |-> respRx[Len(respRx)]]
    /\ respRx' = <<>>
    /\ call' = None
    /\ UNCHANGED <<out, calls, abandoned, requests, serving, replies, held, notifRx>>

\* resp_rx.recv() yields: whatever response is first in the channel.
Return ==
    /\ call # None
    /\ respRx # <<>>
    /\ last' = [id |-> calls, kind |-> call, answer |-> Head(respRx)]
    /\ respRx' = Tail(respRx)
    /\ call' = None
    /\ UNCHANGED <<out, calls, abandoned, requests, serving, replies, held, notifRx>>

\* Mutant: calls wait for ever.
TimeoutNever == FALSE /\ UNCHANGED vars

\* RPC_TIMEOUT, or the health tick's own timeout, drops the future; the
\* response it waited for is not withdrawn.
Timeout ==
    /\ MayTimeout
    /\ call # None
    /\ respRx = <<>>
    /\ call' = None
    /\ abandoned' = abandoned + 1
    /\ UNCHANGED <<out, calls, requests, serving, replies, held, respRx, notifRx, last>>

\* try_recv_notification, between calls.
TakeNotification ==
    /\ out = None /\ call = None
    /\ notifRx # <<>>
    /\ notifRx' = Tail(notifRx)
    /\ UNCHANGED <<out, calls, call, abandoned, requests, serving, replies,
                   held, respRx, last>>

\* The reader task: one line at a time, waiting while its channel is full.
ReadLine ==
    /\ held = None
    /\ replies # <<>>
    /\ held' = Head(replies)
    /\ replies' = Tail(replies)
    /\ UNCHANGED <<out, calls, call, abandoned, requests, serving, respRx, notifRx, last>>

\* Mutant: the channels are taken to be unbounded.
ForwardUnbounded ==
    /\ held # None
    /\ IF IsNotif(held)
       THEN notifRx' = Append(notifRx, held) /\ UNCHANGED respRx
       ELSE respRx' = Append(respRx, held) /\ UNCHANGED notifRx
    /\ held' = None
    /\ UNCHANGED <<out, calls, call, abandoned, requests, serving, replies, last>>

Forward ==
    /\ held # None
    /\ IF IsNotif(held)
       THEN /\ Len(notifRx) < NotifCap
            /\ notifRx' = Append(notifRx, held)
            /\ UNCHANGED respRx
       ELSE /\ Len(respRx) < RespCap
            /\ respRx' = Append(respRx, held)
            /\ UNCHANGED notifRx
    /\ held' = None
    /\ UNCHANGED <<out, calls, call, abandoned, requests, serving, replies, last>>

-----------------------------------------------------------------------------
(* handle_client. *)

\* Mutant: the next request is taken while one is being served.
TakeEager ==
    /\ requests # <<>>
    /\ serving' = Head(requests)
    /\ requests' = Tail(requests)
    /\ UNCHANGED <<out, calls, call, abandoned, replies, held, respRx, notifRx, last>>

\* read_line, then the request goes to the main loop.
Take ==
    /\ serving = None
    /\ requests # <<>>
    /\ serving' = Head(requests)
    /\ requests' = Tail(requests)
    /\ UNCHANGED <<out, calls, call, abandoned, replies, held, respRx, notifRx, last>>

\* notif_rx.recv, only while no request is being served.
Notify ==
    /\ serving = None
    /\ serving' = Notif
    /\ UNCHANGED <<out, calls, call, abandoned, requests, replies, held, respRx,
                   notifRx, last>>

\* write_msg: the main loop's answer, or the notification, is written; until the
\* socket has room nothing else is read.
Answer ==
    /\ serving # None
    /\ Len(replies) < SocketCap
    /\ IF IsNotif(serving)
       THEN replies' = Append(replies, Notif)
       ELSE \E v \in Answers[serving.kind] :
              replies' = Append(replies, [id |-> serving.id, value |-> v])
    /\ serving' = None
    /\ UNCHANGED <<out, calls, call, abandoned, requests, held, respRx, notifRx, last>>

\* The connection ends (a re-exec, a crash) and ensure_client makes a new one.
Reconnect ==
    /\ out' = None
    /\ calls' = 0
    /\ call' = None
    /\ abandoned' = 0
    /\ requests' = <<>>
    /\ serving' = None
    /\ replies' = <<>>
    /\ held' = None
    /\ respRx' = <<>>
    /\ notifRx' = <<>>
    /\ last' = None

-----------------------------------------------------------------------------
Init ==
    /\ out = None
    /\ calls = 0
    /\ call = None
    /\ abandoned = 0
    /\ requests = <<>>
    /\ serving = None
    /\ replies = <<>>
    /\ held = None
    /\ respRx = <<>>
    /\ notifRx = <<>>
    /\ last = None

Next ==
    \/ \E k \in Kinds : Send(k)
    \/ Written \/ WriteDropped
    \/ Return \/ Timeout \/ TakeNotification \/ ReadLine \/ Forward
    \/ Take \/ Answer \/ Notify \/ Reconnect

Spec == Init /\ [][Next]_vars

\* Both ends are polled, the supervisor's handlers end, the daemon's loop
\* looks for notifications; nothing obliges anyone to call or to notify.
Fairness ==
    /\ WF_vars(Written) /\ WF_vars(Return) /\ WF_vars(Timeout)
    /\ WF_vars(TakeNotification)
    /\ WF_vars(ReadLine) /\ WF_vars(Forward)
    /\ WF_vars(Take) /\ WF_vars(Answer)

LiveSpec == Spec /\ Fairness

-----------------------------------------------------------------------------
(* Properties. *)

\* A call is given the answer of the call made as many calls before it as were
\* given up on this connection: one timeout shifts all later answers, no two
\* calls are given the same answer and none is given one out of order.
LagsByTimeouts ==
    call = None /\ last # None /\ last.id = calls =>
        last.id - last.answer.id = abandoned

\* What is on its way back to a call or still to be answered, the oldest first.
One(m) == IF m = None THEN <<>> ELSE <<m>>
UnderWay == respRx \o One(held) \o replies \o One(serving) \o requests

\* Calls that were given up or have not returned yet.
Outstanding == abandoned + (IF call = None THEN 0 ELSE 1)

\* The messages of s that are not notifications have the ids lo + 1 .. hi, each
\* once and in this order.
AnswersIn(s) == {i \in 1 .. Len(s) : ~IsNotif(s[i])}
Spans(s, lo, hi) ==
    /\ lo <= hi
    /\ \A i, j \in AnswersIn(s) : i < j => s[i].id < s[j].id
    /\ {s[i].id : i \in AnswersIn(s)} = lo + 1 .. hi

\* Every request is answered at most once and in order: the ids under way,
\* from the response channel back to the request socket, are the last ones, as
\* many as there are calls outstanding.
PipelineInOrder == Spans(UnderWay, calls - Outstanding, calls)

\* The same part by part: how many calls have had an answer, by the end of the
\* response channel, of the reader, of the reply socket and of the handler.
Returned == calls - Outstanding
Channelled == Returned + Len(respRx)
Sorted == Channelled + (IF held = None \/ held = Notif THEN 0 ELSE 1)
Asked == calls - Len(requests)
Answered == Asked - (IF serving = None \/ serving = Notif THEN 0 ELSE 1)

\* While a request is being written no answer is awaited, and the bound leaves
\* room for it.
Writing == out # None => call = None /\ calls < MaxCalls

IInv ==
    /\ TypeOK
    /\ Writing
    /\ LagsByTimeouts
    /\ Outstanding <= calls
    /\ last # None => last.id <= calls /\ (call # None => last.id < calls)
    /\ Spans(respRx, Returned, Channelled)
    /\ Spans(One(held), Channelled, Sorted)
    /\ Spans(replies, Sorted, Answered)
    /\ Spans(One(serving), Answered, Asked)
    /\ Spans(requests, Asked, calls)

\* Everyone waits for everyone: the request cannot be written while the
\* supervisor does not read, which waits for the daemon's reader task, which
\* waits for room in a channel that is emptied by or between calls.
Jammed ==
    /\ out # None /\ Len(requests) = SocketCap
    /\ serving # None /\ Len(replies) = SocketCap
    /\ held # None
    /\ IF IsNotif(held) THEN Len(notifRx) = NotifCap ELSE Len(respRx) = RespCap

\* A call hangs in no other way: once written it returns, whatever the reader
\* task and the supervisor are stuck on, and it is written unless all the four
\* buffers between the two processes are full.
CallReturns == out # None \/ call # None ~> (out = None /\ call = None) \/ Jammed

\* "Returns `true` when the supervisor will re-exec, `false` when its binary is
\* already current" (Client::update_self): a call is given its own answer.
AnswerIsOwn == last # None => last.answer.id = last.id
=============================================================================
