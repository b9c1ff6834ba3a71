---------------------------- MODULE ClientProofs -----------------------------
(***************************************************************************)
(* flexo implements ClientSpec under the mapping ClientView, when no       *)
(* resume offset is past the end of an object (OffsetsFit, spec 8.6).     *)
(* Every reply written to a connected client is an answer of ClientSpec:  *)
(* a bare header, or an object header with the whole body                 *)
(* (serve_from_complete_file) or none of it yet (serve_from_growing_file). *)
(* Every pass of the growing-file loop is a delivery.  Every other step    *)
(* leaves what the clients saw alone.  The proof rests on ReplyInv in both *)
(* states of a step.                                                       *)
(***************************************************************************)
EXTENDS FlexoReplyProofs

USE ConstAssumption

\* What a client sees of one reply.
View(x) ==
    IF x.obj
    THEN [obj |-> TRUE, path |-> x.path, r |-> x.r, cl |-> x.cl, got |-> x.got,
          fin |-> x.fin]
    ELSE [obj |-> FALSE, path |-> AnyPath, r |-> 0, cl |-> 0, got |-> 0, fin |-> TRUE]

LEMMA ViewDef == ClientView = [d \in Clients |-> View(resp[d])]
BY DEF ClientView, View

\* A reply to one client changes that client's view only.
LEMMA ViewExcept ==
    ASSUME NEW c \in Clients, NEW x, resp \in [Clients -> ReplyT],
           resp' = [resp EXCEPT ![c] = x]
    PROVE  ClientView' = [ClientView EXCEPT ![c] = View(x)]
BY DEF ClientView, View

\* A faithful object reply that is finished exactly when its body is
\* complete is a response of ClientSpec.
LEMMA ViewBody ==
    ASSUME NEW x \in ReplyT, x.obj, x.r + x.cl = Size[x.path],
           x.fin <=> x.got = x.cl
    PROVE  View(x) = Client!Body(x.path, x.r, x.got)
<1>1. x.cl = Size[x.path] - x.r
  BY DEF ReplyT
<1>2. x.fin = (x.got = Size[x.path] - x.r)
  BY <1>1, Zenon DEF ReplyT
<1>. QED BY <1>1, <1>2 DEF View, Client!Body

\* A reply written to a connected client: its header, with all of its body
\* or none of it.
LEMMA AnswerView ==
    ASSUME NEW c \in Clients, NEW x \in ReplyT, resp \in [Clients -> ReplyT],
           resp' = [resp EXCEPT ![c] = x],
           x.obj => /\ x.r + x.cl = Size[x.path]
                    /\ x.fin <=> x.got = x.cl
                    /\ x.fin \/ x.got = 0
    PROVE  Client!AnswerBare(c) \/ Client!AnswerObject(c)
<1>1. ClientView' = [ClientView EXCEPT ![c] = View(x)]
  BY ViewExcept
<1>2. CASE ~x.obj
  <2>1. View(x) = Client!NoBody
    BY <1>2 DEF View, Client!NoBody, AnyPath
  <2>. QED BY <1>1, <2>1 DEF Client!AnswerBare
<1>3. CASE x.obj
  <2>1. View(x) = Client!Body(x.path, x.r, x.got)
    BY <1>3, ViewBody
  <2>2. x.path \in Paths /\ x.r \in 0..Size[x.path] /\ x.fin \in BOOLEAN
    BY <1>3 DEF ReplyT
  <2>3. x.got = IF x.fin THEN Size[x.path] - x.r ELSE 0
    BY <1>3 DEF ReplyT
  <2>. QED BY <1>1, <2>1, <2>2, <2>3 DEF Client!AnswerObject
<1>. QED BY <1>2, <1>3

\* A reply header leaves the views alone or answers its client.
LEMMA ReplyView ==
    ASSUME ReplyInv, ReplyInv', NEW c \in Clients, NEW x \in ReplyT,
           NEW hn, NEW sn, Reply(c, x, hn, sn),
           x.obj => (x.got = x.cl => x.fin) /\ (x.fin \/ x.got = 0)
    PROVE  [Client!Next]_ClientView
<1>1. CASE sock[c] = "open"
  <2>1. resp' = [resp EXCEPT ![c] = x]
    BY <1>1 DEF Reply
  <2>2. resp'[c] = x /\ resp \in [Clients -> ReplyT]
    BY <2>1 DEF ReplyInv, TypeOK
  <2>3. x.obj => x.r + x.cl = Size[x.path] /\ (x.fin => x.got = x.cl)
    BY <2>2 DEF ReplyInv, ReplyFaithful
  <2>. QED BY <2>1, <2>2, <2>3, AnswerView DEF Client!Next
<1>2. CASE sock[c] # "open"
  <2>1. resp' = resp
    BY <1>2 DEF Reply, Panic
  <2>. QED BY <2>1 DEF ClientView
<1>. QED BY <1>1, <1>2

\* serve_from_growing_file's header: no byte yet, and the loop does not run
\* exactly when nothing is announced.
LEMMA GrowingHeaderView ==
    ASSUME OffsetsFit, ReplyInv, ReplyInv', NEW c \in Clients, NEW p \in Paths,
           NEW r \in Offsets \cup {NoRange}, NEW cl \in Nat,
           GrowingHeader(c, p, r, cl)
    PROVE  [Client!Next]_ClientView
<1>. DEFINE done == Off(r) >= U64Add(cl, Off(r))
            x == [st |-> OkStatus(r), obj |-> TRUE, path |-> p, r |-> Off(r),
                  cl |-> cl, got |-> 0, fin |-> done]
<1>1. Off(r) \in 0..Size[p] /\ OkStatus(r) \in {200, 206}
  BY OffFits DEF OkStatus
<1>2. x \in ReplyT
  BY <1>1 DEF ReplyT
<1>3. cl = 0 => done
  <2>1. SUFFICES ASSUME cl = 0 PROVE done
    OBVIOUS
  <2>2. Off(r) + 0 \in 0..(Word - 1) /\ Off(r) \in Int
    BY <1>1, ConstAssumption
  <2>3. U64Add(0, Off(r)) = Off(r)
    BY <2>2 DEF U64Add
  <2>. QED BY <2>1, <2>3, <1>1
<1>4. x.obj => (x.got = x.cl => x.fin) /\ (x.fin \/ x.got = 0)
  BY <1>3
<1>. QED BY <1>2, <1>4, ReplyView DEF GrowingHeader

\* File::open before that header: the header, or a panic that leaves every
\* client's last reply as it was.
LEMMA OpenGrowingView ==
    ASSUME OffsetsFit, ReplyInv, ReplyInv', NEW c \in Clients, NEW p \in Paths,
           NEW r \in Offsets \cup {NoRange}, NEW cl \in Nat,
           OpenGrowing(c, p, r, cl)
    PROVE  [Client!Next]_ClientView
<1>1. CASE fexists[p]
  BY <1>1, GrowingHeaderView DEF OpenGrowing
<1>2. CASE ~fexists[p]
  <2>1. resp' = resp
    BY <1>2 DEF OpenGrowing, Panic
  <2>. QED BY <2>1 DEF ClientView
<1>. QED BY <1>1, <1>2

\* serve_from_complete_file sends the whole body with its header.
LEMMA ScheduleCachedView ==
    ASSUME ReplyInv, ReplyInv', NEW c \in Clients, NEW p \in Paths,
           NEW r \in Offsets \cup {NoRange}, ScheduleCached(c, p, r)
    PROVE  [Client!Next]_ClientView
<1>. DEFINE x == [st |-> OkStatus(r), obj |-> TRUE, path |-> p, r |-> Off(r),
                  cl |-> U64Sub(flen[p], Off(r)),
                  got |-> SendPayload(flen[p], Off(r)) - Off(r), fin |-> TRUE]
<1>1. Off(r) \in Nat /\ OkStatus(r) \in {200, 206} /\ flen[p] \in Nat
  BY DEF Off, OkStatus, ReplyInv, TypeOK
<1>2. x \in ReplyT
  <2>1. U64Sub(flen[p], Off(r)) \in Nat /\ SendPayload(flen[p], Off(r)) - Off(r) \in Nat
    BY <1>1 DEF U64Sub, SendPayload
  <2>. QED BY <1>1, <2>1 DEF ReplyT
<1>. QED BY <1>2, ReplyView DEF ScheduleCached

\* A bare header: 400, 403, /status, 301, 404.
LEMMA BareView ==
    ASSUME ReplyInv, ReplyInv', NEW c \in Clients,
           NEW s \in {200, 301, 400, 403, 404}, NEW hn, NEW sn,
           Reply(c, Bare(s), hn, sn)
    PROVE  [Client!Next]_ClientView
<1>1. Bare(s) \in ReplyT /\ ~Bare(s).obj
  <2>1. Bare(s) \in ReplyT
    BY Constants
  <2>2. ~Bare(s).obj
    BY DEF Bare
  <2>. QED BY <2>1, <2>2
<1>. QED BY <1>1, ReplyView

\* A pass of the serve_from_growing_file loop: sendfile sends what the file
\* has beyond what was sent, and the response is finished when that reaches
\* the announced end.  The client sees more bytes of its unfinished response.
LEMMA StreamPassView ==
    ASSUME OffsetsFit, ReplyInv, ReplyInv', NEW c \in Clients, StreamPass(c)
    PROVE  [Client!Next]_ClientView
<1>. DEFINE p == h[c].path
            off == Off(h[c].r)
            fl == flen[p]
            x == resp'[c]
<1>1. /\ p \in Paths /\ h[c].sent \in Nat /\ h[c].cl \in Nat /\ off \in Nat
      /\ fl \in Nat /\ fl <= Size[p] /\ resp[c] \in ReplyT
      /\ resp \in [Clients -> ReplyT] /\ resp' \in [Clients -> ReplyT]
  BY DEF ReplyInv, TypeOK, HandlerT, CacheSound, DiskOK, Off
<1>2. h[c].pc = "stream" /\ fl > h[c].sent
  BY DEF StreamPass
<1>3. SendPayload(fl, h[c].sent) = fl
  BY <1>1, <1>2 DEF SendPayload
<1>4. CASE sock[c] # "open" \/ Panic("stream_error")
  <2>1. resp' = resp
    BY <1>4 DEF StreamPass, Panic
  <2>. QED BY <2>1 DEF ClientView
<1>5. CASE sock[c] = "open" /\ ~Panic("stream_error")
  <2>1. resp' = [resp EXCEPT ![c].got = @ + (fl - h[c].sent),
                             ![c].fin = fl >= Total(c)]
    BY <1>5, <1>3 DEF StreamPass
  <2>2. /\ resp[c].obj /\ ~resp[c].fin /\ resp[c].path = p /\ resp[c].r = off
        /\ resp[c].cl = h[c].cl /\ resp[c].got + off = h[c].sent
        /\ resp[c].r + resp[c].cl = Size[p]
    BY <1>2, <1>5 DEF ReplyInv, StreamLink, ReplyFaithful
  <2>3. Total(c) = Size[p] /\ h[c].cl = Size[p] - off
    <3>1. h[c].cl + off = Size[p] /\ Size[p] \in 0..(Word - 1)
      BY <1>1, <2>2, ConstAssumption
    <3>. QED BY <1>1, <3>1 DEF Total, U64Add
  <2>4. x = [resp[c] EXCEPT !.got = resp[c].got + (fl - h[c].sent),
                            !.fin = (fl >= Total(c))]
    BY <2>1, <1>1
  <2>5. /\ x.obj /\ x.path = p /\ x.r = off /\ x.cl = Size[p] - off
        /\ x.got = fl - off /\ x.fin = (fl >= Size[p])
    BY <2>4, <2>2, <2>3, <1>1 DEF ReplyT
  <2>6. resp' = [resp EXCEPT ![c] = x]
    BY <2>1, <1>1
  <2>7. x \in ReplyT /\ x.r + x.cl = Size[x.path] /\ (x.fin <=> x.got = x.cl)
    <3>1. x \in ReplyT /\ x.r + x.cl = Size[x.path]
      BY <2>5, <1>1
    <3>2. (fl >= Size[p]) <=> (fl - off = Size[p] - off)
      BY <1>1
    <3>3. x.fin <=> x.got = x.cl
      BY <3>2, <2>5, Zenon
    <3>. QED BY <3>1, <3>3
  <2>8. View(x) = Client!Body(p, off, fl - off)
    BY <2>5, <2>7, ViewBody
  <2>9. /\ ClientView[c].obj /\ ~ClientView[c].fin /\ ClientView[c].path = p
        /\ ClientView[c].r = off /\ ClientView[c].got = h[c].sent - off
        /\ ClientView[c].cl = Size[p] - off
    <3>1. ClientView[c] = [obj |-> TRUE, path |-> resp[c].path, r |-> resp[c].r,
                           cl |-> resp[c].cl, got |-> resp[c].got, fin |-> resp[c].fin]
      BY <2>2 DEF ClientView
    <3>2. ClientView[c].fin = resp[c].fin /\ ClientView[c].obj = TRUE
      BY <3>1
    <3>3. ~ClientView[c].fin /\ ClientView[c].obj
      BY <3>2, <2>2, Zenon
    <3>4. /\ ClientView[c].path = p /\ ClientView[c].r = off
          /\ ClientView[c].got = h[c].sent - off /\ ClientView[c].cl = Size[p] - off
      BY <3>1, <2>2, <2>3, <1>1 DEF ReplyT
    <3>. QED BY <3>3, <3>4, Zenon
  <2>10. fl - off \in ClientView[c].got + 1 .. ClientView[c].cl
    BY <2>9, <1>1, <1>2
  <2>11. ClientView' = [ClientView EXCEPT ![c] = Client!Body(ClientView[c].path,
                                                  ClientView[c].r, fl - off)]
    BY <2>6, <2>8, <2>9, <1>1, ViewExcept
  <2>. QED BY <2>9, <2>10, <2>11 DEF Client!Deliver, Client!Next
<1>. QED BY <1>4, <1>5


\* A step that writes no reply leaves every client's view alone.
LEMMA QuietView ==
    ASSUME UNCHANGED resp
    PROVE  [Client!Next]_ClientView
BY DEF ClientView

\* One step of a handler thread, for each branch of serve_client.
LEMMA HandlerView ==
    ASSUME OffsetsFit, ReplyInv, ReplyInv', NEW c \in Clients, Handler(c)
    PROVE  [Client!Next]_ClientView
<1>0. h[c] \in HandlerT /\ sock[c] \in SockT
  BY DEF ReplyInv, TypeOK
<1>1. CASE ReadFails(c) \/ PollMiss(c)
  BY <1>1, QuietView DEF ReadFails, PollMiss
<1>2. CASE ReadBadHeader(c) \/ ServeForbidden(c) \/ ServeStatus(c)
  BY <1>2, BareView DEF ReadBadHeader, ServeForbidden, ServeStatus
<1>3. ASSUME NEW p \in Paths, NEW r \in Offsets \cup {NoRange},
             ScheduleCached(c, p, r)
      PROVE  [Client!Next]_ClientView
  BY <1>3, ScheduleCachedView
<1>4. ASSUME NEW p \in Paths, NEW r \in Offsets \cup {NoRange},
             ScheduleUncacheable(c, p, r)
      PROVE  [Client!Next]_ClientView
  BY <1>4, BareView DEF ScheduleUncacheable
<1>5. ASSUME NEW p \in Paths, NEW r \in Offsets \cup {NoRange},
             ScheduleInProgress(c, p, r) \/ ScheduleNew(c, p, r)
      PROVE  [Client!Next]_ClientView
  BY <1>5, QuietView DEF ScheduleInProgress, ScheduleNew
<1>6. CASE PollFound(c)
  <2>1. h[c].path \in Paths /\ h[c].r \in Offsets \cup {NoRange}
        /\ xattr[h[c].path] \in Nat
    BY <1>6 DEF PollFound, ReplyInv, TypeOK, HandlerT
  <2>2. U64Sub(xattr[h[c].path], Off(h[c].r)) \in Nat
    <3>1. Off(h[c].r) \in Nat
      BY <2>1 DEF Off
    <3>2. U64Sub(xattr[h[c].path], Off(h[c].r)) \in 0..(Word - 1)
      BY <2>1, <3>1 DEF U64Sub
    <3>. QED BY <3>2
  <2>. QED BY <1>6, <2>1, <2>2, OpenGrowingView DEF PollFound
<1>7. CASE PollTimeout(c) \/ RecvUnexpected(c) \/ RecvTimeout(c)
  BY <1>7, QuietView DEF PollTimeout, RecvUnexpected, RecvTimeout, Panic
<1>8. CASE RecvJobSize(c)
  <2>1. h[c].path \in Paths /\ h[c].r \in Offsets \cup {NoRange}
        /\ h[c].msg \in Msgs \cup {NoMsg}
    BY <1>0 DEF HandlerT
  <2>2. h[c].msg.n \in Nat
    BY <2>1 DEF Msgs, NoMsg
  <2>. QED BY <1>8, <2>1, <2>2, OpenGrowingView DEF RecvJobSize
<1>9. CASE RecvUnavailable(c) \/ RecvOrderError(c)
  BY <1>9, BareView DEF RecvUnavailable, RecvOrderError
<1>10. CASE StreamPass(c)
  BY <1>10, StreamPassView
<1>. QED BY <1>1, <1>2, <1>3, <1>4, <1>5, <1>6, <1>7, <1>8, <1>9, <1>10
         DEF Handler

\* Every step of flexo, in a state and to a state where ReplyInv holds, is
\* a step of ClientSpec or leaves the clients' views alone.
LEMMA NextView ==
    ASSUME OffsetsFit, ReplyInv, ReplyInv', [Next]_vars
    PROVE  [Client!Next]_ClientView
<1>1. ASSUME NEW c \in Clients, Handler(c) PROVE [Client!Next]_ClientView
  BY <1>1, HandlerView
<1>2. ASSUME NEW p \in Paths, Worker(p) PROVE [Client!Next]_ClientView
  BY <1>2, QuietView
     DEF Worker, WorkerRespond, WorkerNotFound, WorkerRejected, WorkerRetry,
         WorkerFail, WorkerWrite, WorkerComplete
<1>3. CASE Restart \/ UNCHANGED vars \/ \E c \in Clients : Accept(c) \/ Disconnect(c)
  BY <1>3, QuietView DEF Restart, vars, Accept, Disconnect
<1>. QED BY <1>1, <1>2, <1>3 DEF Next

\* Before any request, every client has seen no response.
LEMMA InitView == Init => Client!Init
BY DEF Init, ClientView, Client!Init, Client!NoBody, NoReply, AnyPath

(* flexo implements ClientSpec when every resume offset is within the      *)
(* object (OffsetsFit): whatever handlers, workers, disconnects, panics    *)
(* and restarts do, each client only ever sees a response whose length is  *)
(* the object's size less its Range offset, whose body arrives whole with *)
(* the header (serve_from_complete_file) or in sendfile passes that add    *)
(* bytes (serve_from_growing_file), that never goes past the announced     *)
(* length and that is finished exactly when it reaches it.                *)
THEOREM ClientRefines ==
    ASSUME OffsetsFit
    PROVE  Spec => ClientRefinement
<1>1. ReplyInv /\ ReplyInv' /\ [Next]_vars => [Client!Next]_ClientView
  BY NextView
<1>2. Spec => []ReplyInv
  BY ReplyInit, ReplyNext, PTL DEF Spec
<1>3. []ReplyInv /\ [][Next]_vars => [][Client!Next]_ClientView
  BY <1>1, PTL
<1>. QED BY <1>2, <1>3, InitView, PTL DEF Spec, ClientRefinement, Client!Spec

=============================================================================
