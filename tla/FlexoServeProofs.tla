-------------------------- MODULE FlexoServeProofs --------------------------
(***************************************************************************)
(* Proofs about FlexoServe for every value of the constants.               *)
(***************************************************************************)
EXTENDS FlexoServe, TLAPS

USE ConstAssumption

\* The inductive invariant behind the type theorem: the arithmetic of the
\* handler (flen - resume_from, content_length - resume_from) stays in Nat
\* only because the attribute, when present, is the object's size.
TypeInv == TypeOK /\ CacheSound

LEMMA Constants ==
    /\ AnyClient \in Clients
    /\ AnyPath \in Paths
    /\ NoAttr \notin Nat
    /\ NoJob \in JobT
    /\ NoMsg \in Msgs \cup {NoMsg}
    /\ Idle \in HandlerT
    /\ Reading \in HandlerT
    /\ NoReply \in ReplyT
    /\ \A s \in {200, 301, 400, 403, 404} : Bare(s) \in ReplyT
    /\ \A r \in Offsets \cup {NoRange} : Off(r) \in Nat /\ OkStatus(r) \in {200, 206}
<1>1. AnyClient \in Clients /\ AnyPath \in Paths
  BY DEF AnyClient, AnyPath
<1>2. \A r \in Offsets \cup {NoRange} : Off(r) \in Nat /\ OkStatus(r) \in {200, 206}
  BY DEF Off, OkStatus
<1>3. \A pc \in {"idle", "read", "poll", "recv", "stream"}, p \in Paths,
         r \in Offsets \cup {NoRange} : Waiting(pc, p, r) \in HandlerT
  BY DEF Waiting, HandlerT, NoMsg
<1>4. NoAttr \notin Nat
  BY DEF NoAttr
<1>5. NoJob \in JobT
  BY <1>1 DEF NoJob, JobT
<1>6. NoMsg \in Msgs \cup {NoMsg}
  OBVIOUS
<1>7. Idle \in HandlerT /\ Reading \in HandlerT
  BY <1>1, <1>3 DEF Idle, Reading
<1>8. NoReply \in ReplyT
  BY <1>1 DEF NoReply, ReplyT
<1>9. \A s \in {200, 301, 400, 403, 404} : Bare(s) \in ReplyT
  BY <1>1 DEF Bare, ReplyT
<1>. QED BY <1>1, <1>2, <1>4, <1>5, <1>6, <1>7, <1>8, <1>9

\* Resume offsets and the arithmetic the handler does with them.
LEMMA OffFits ==
    ASSUME OffsetsFit
    PROVE  \A p \in Paths, r \in Offsets \cup {NoRange} : Off(r) \in 0..Size[p]
BY DEF Off, OffsetsFit

\* u64 arithmetic yields a u64, and is exact on a result that fits.
LEMMA U64Range ==
    ASSUME NEW a \in Int, NEW b \in Int
    PROVE  /\ U64Sub(a, b) \in 0..(Word - 1)
           /\ U64Add(a, b) \in 0..(Word - 1)
BY DEF U64Sub, U64Add

LEMMA U64Exact ==
    ASSUME NEW a \in Int, NEW b \in Int
    PROVE  /\ a - b \in 0..(Word - 1) => U64Sub(a, b) = a - b
           /\ a + b \in 0..(Word - 1) => U64Add(a, b) = a + b
BY DEF U64Sub, U64Add

\* send_payload ends at filesize or, if it started past it, where it started.
LEMMA SendPayloadRange ==
    ASSUME NEW fs \in Nat, NEW b \in Nat
    PROVE  /\ SendPayload(fs, b) \in Nat
           /\ SendPayload(fs, b) - b \in Nat
           /\ b <= fs => SendPayload(fs, b) = fs
BY DEF SendPayload

LEMMA WaitingInHandlerT ==
    ASSUME NEW pc \in {"idle", "read", "poll", "recv", "stream"}, NEW p \in Paths,
           NEW r \in Offsets \cup {NoRange}
    PROVE  Waiting(pc, p, r) \in HandlerT
BY DEF Waiting, HandlerT, NoMsg

\* A panic keeps the disk and empties memory.
LEMMA PanicStep ==
    ASSUME TypeInv, NEW cause \in Causes, Panic(cause)
    PROVE  TypeInv'
<1>1. TypeOK'
  <2>1. job' \in [Paths -> JobT]
    BY Constants DEF Panic
  <2>2. h' \in [Clients -> HandlerT]
    BY Constants DEF Panic
  <2>. QED BY <2>1, <2>2 DEF TypeInv, TypeOK, Panic, Causes, SockT
<1>2. CacheSound'
  BY DEF TypeInv, TypeOK, CacheSound, DiskOK, Panic, NoJob
<1>. QED BY <1>1, <1>2 DEF TypeInv

\* A reply written with well-typed arguments keeps the invariant.
LEMMA ReplyStep ==
    ASSUME TypeInv, NEW c \in Clients, NEW reply \in ReplyT,
           NEW hn \in HandlerT, NEW sn \in SockT,
           Reply(c, reply, hn, sn)
    PROVE  TypeInv'
<1>1. CASE sock[c] = "gone" /\ Panic("client_gone")
  BY <1>1, PanicStep DEF Causes
<1>2. CASE ~(sock[c] = "gone" /\ Panic("client_gone"))
  <2>1. UNCHANGED <<up, crash, job, fexists, flen, xattr>>
    BY <1>2 DEF Reply
  <2>4. wire' \in [Clients -> WireT]
    <3>1. Trail(reply) \in WireT /\ "garbled" \in WireT
      BY DEF Trail, WireT
    <3>. QED BY <1>2, <3>1 DEF Reply, TypeInv, TypeOK
  <2>2. TypeOK'
    BY <1>2, <2>1, <2>4 DEF Reply, TypeInv, TypeOK
  <2>3. CacheSound'
    BY <2>1 DEF TypeInv, CacheSound, DiskOK
  <2>. QED BY <2>2, <2>3 DEF TypeInv
<1>. QED BY <1>1, <1>2

\* The header of serve_from_growing_file, for a size cl in Nat.
LEMMA GrowingHeaderStep ==
    ASSUME TypeInv, NEW c \in Clients, NEW p \in Paths,
           NEW r \in Offsets \cup {NoRange}, NEW cl \in Nat,
           GrowingHeader(c, p, r, cl)
    PROVE  TypeInv'
<1>. DEFINE done == Off(r) >= U64Add(cl, Off(r))
            reply == [st |-> OkStatus(r), obj |-> TRUE, path |-> p, r |-> Off(r),
                      cl |-> cl, got |-> 0, fin |-> done]
            hn == IF done THEN Reading
                  ELSE [pc |-> "stream", path |-> p, r |-> r, cl |-> cl,
                        sent |-> Off(r), polls |-> 0, msg |-> NoMsg]
<1>0. Off(r) \in Nat /\ OkStatus(r) \in {200, 206}
  BY DEF Off, OkStatus
<1>1. reply \in ReplyT
  <2>1. done \in BOOLEAN
    OBVIOUS
  <2>. QED BY <1>0, <2>1 DEF ReplyT
<1>2. hn \in HandlerT
  BY <1>0, Constants DEF HandlerT
<1>3. sock[c] \in SockT
  BY DEF TypeInv, TypeOK
<1>. QED BY <1>1, <1>2, <1>3, ReplyStep DEF GrowingHeader

\* File::open before the growing-file header: the header, or a panic.
LEMMA OpenGrowingStep ==
    ASSUME TypeInv, NEW c \in Clients, NEW p \in Paths,
           NEW r \in Offsets \cup {NoRange}, NEW cl \in Nat,
           OpenGrowing(c, p, r, cl)
    PROVE  TypeInv'
<1>1. CASE fexists[p]
  BY <1>1, GrowingHeaderStep DEF OpenGrowing
<1>2. CASE ~fexists[p]
  BY <1>2, PanicStep DEF OpenGrowing, Causes
<1>. QED BY <1>1, <1>2

\* When offsets fit, the size a complete file or a present attribute gives
\* from a resume offset on does not wrap (main.rs 116 and 432).
LEMMA AttrFromOffset ==
    ASSUME OffsetsFit, TypeInv, NEW p \in Paths, NEW r \in Offsets \cup {NoRange},
           xattr[p] # NoAttr
    PROVE  /\ xattr[p] = Size[p]
           /\ U64Sub(xattr[p], Off(r)) = xattr[p] - Off(r)
           /\ xattr[p] - Off(r) \in Nat
<1>1. xattr[p] = Size[p]
  BY DEF TypeInv, CacheSound, DiskOK
<1>2. Off(r) \in 0..Size[p]
  BY OffFits
<1>3. Size[p] \in 0..(Word - 1)
  BY ConstAssumption
<1>4. xattr[p] - Off(r) \in 0..(Word - 1)
  BY <1>1, <1>2, <1>3
<1>5. xattr[p] \in Int /\ Off(r) \in Int
  BY <1>1, <1>2
<1>6. U64Sub(xattr[p], Off(r)) = xattr[p] - Off(r)
  BY <1>4, <1>5, U64Exact, Zenon
<1>. QED BY <1>1, <1>4, <1>6

\* A serve_client step that answers with a bare header.
LEMMA BareReplyStep ==
    ASSUME TypeInv, NEW c \in Clients, NEW s \in {200, 301, 400, 403, 404},
           NEW hn \in {Idle, Reading}, NEW sn \in SockT,
           Reply(c, Bare(s), hn, sn)
    PROVE  TypeInv'
BY Constants, ReplyStep

LEMMA ScheduleCachedStep ==
    ASSUME TypeInv, NEW c \in Clients, NEW p \in Paths,
           NEW r \in Offsets \cup {NoRange}, ScheduleCached(c, p, r)
    PROVE  TypeInv'
<1>2. OkStatus(r) \in {200, 206} /\ Off(r) \in Nat
  BY DEF OkStatus, Off
<1>1. U64Sub(flen[p], Off(r)) \in Nat /\ SendPayload(flen[p], Off(r)) - Off(r) \in Nat
  <2>1. flen[p] \in Nat
    BY DEF TypeInv, TypeOK
  <2>2. U64Sub(flen[p], Off(r)) \in 0..(Word - 1)
    BY <1>2, <2>1 DEF U64Sub
  <2>3. SendPayload(flen[p], Off(r)) - Off(r) \in Nat
    BY <1>2, <2>1 DEF SendPayload
  <2>. QED BY <2>2, <2>3
<1>3. [st |-> OkStatus(r), obj |-> TRUE, path |-> p, r |-> Off(r),
       cl |-> U64Sub(flen[p], Off(r)),
       got |-> SendPayload(flen[p], Off(r)) - Off(r), fin |-> TRUE] \in ReplyT
  BY <1>1, <1>2 DEF ReplyT
<1>4. sock[c] \in SockT
  BY DEF TypeInv, TypeOK
<1>. QED BY <1>3, <1>4, Constants, ReplyStep DEF ScheduleCached

\* A reply whose payload count grows stays a reply.
LEMMA ReplyProgress ==
    ASSUME NEW x \in ReplyT, NEW g \in Nat, NEW b \in BOOLEAN
    PROVE  [x EXCEPT !.got = g, !.fin = b] \in ReplyT
BY DEF ReplyT

LEMMA StreamPassStep ==
    ASSUME TypeInv, NEW c \in Clients, StreamPass(c)
    PROVE  TypeInv'
<1>. DEFINE p == h[c].path
            received == SendPayload(flen[p], h[c].sent)
<1>1. p \in Paths /\ h[c].sent \in Nat /\ flen[p] \in Nat
  BY DEF TypeInv, TypeOK, HandlerT
<1>2. received \in Nat /\ received - h[c].sent \in Nat
  BY <1>1, SendPayloadRange
<1>3. CASE sock[c] = "open" /\ Panic("stream_error")
  BY <1>3, PanicStep DEF Causes
<1>4. CASE ~(sock[c] = "open" /\ Panic("stream_error"))
  <2>0. \/ /\ resp' = [resp EXCEPT ![c].got = @ + (received - h[c].sent),
                                    ![c].fin = received >= Total(c)]
            /\ h' = [h EXCEPT ![c] = IF received >= Total(c) THEN Reading
                                     ELSE [@ EXCEPT !.sent = received]]
        \/ h' = [h EXCEPT ![c] = Reading] /\ resp' = resp
    BY <1>4 DEF StreamPass
  <2>1. resp' \in [Clients -> ReplyT]
    <3>1. resp[c] \in ReplyT
      BY DEF TypeInv, TypeOK
    <3>2. [resp[c] EXCEPT !.got = @ + (received - h[c].sent),
                          !.fin = received >= Total(c)] \in ReplyT
      <4>1. resp[c].got + (received - h[c].sent) \in Nat
        BY <1>2, <3>1 DEF ReplyT
      <4>2. (received >= Total(c)) \in BOOLEAN
        OBVIOUS
      <4>. QED BY <3>1, <4>1, <4>2, ReplyProgress, Zenon
    <3>. QED BY <2>0, <3>2 DEF TypeInv, TypeOK
  <2>2. h' \in [Clients -> HandlerT]
    <3>1. h[c] \in HandlerT
      BY DEF TypeInv, TypeOK
    <3>2. [h[c] EXCEPT !.sent = received] \in HandlerT
      BY <1>2, <3>1 DEF HandlerT
    <3>3. Reading \in HandlerT
      BY Constants
    <3>. QED BY <2>0, <3>2, <3>3 DEF TypeInv, TypeOK
  <2>3. UNCHANGED <<up, crash, job, fexists, flen, xattr, sock, wire>>
    BY <1>4 DEF StreamPass
  <2>. QED BY <2>1, <2>2, <2>3 DEF TypeInv, TypeOK, CacheSound, DiskOK
<1>. QED BY <1>3, <1>4

LEMMA HandlerStep ==
    ASSUME TypeInv, NEW c \in Clients, Handler(c)
    PROVE  TypeInv'
<1>. USE DEF TypeInv
<1>0. sock[c] \in SockT
  BY DEF TypeOK
<1>1. CASE ReadFails(c)
  BY <1>1, Constants DEF ReadFails, TypeOK, SockT, CacheSound, DiskOK
<1>2. CASE ReadBadHeader(c)
  BY <1>2, BareReplyStep DEF ReadBadHeader, SockT
<1>3. CASE ServeForbidden(c)
  BY <1>3, <1>0, BareReplyStep DEF ServeForbidden
<1>4. CASE ServeStatus(c)
  BY <1>4, <1>0, BareReplyStep DEF ServeStatus
<1>5. ASSUME NEW p \in Paths, NEW r \in Offsets \cup {NoRange},
             ScheduleCached(c, p, r)
      PROVE TypeInv'
  BY <1>5, ScheduleCachedStep
<1>6. ASSUME NEW p \in Paths, NEW r \in Offsets \cup {NoRange},
             ScheduleUncacheable(c, p, r)
      PROVE TypeInv'
  BY <1>6, <1>0, BareReplyStep DEF ScheduleUncacheable
<1>7. ASSUME NEW p \in Paths, NEW r \in Offsets \cup {NoRange},
             ScheduleInProgress(c, p, r)
      PROVE TypeInv'
  <2>1. Waiting("poll", p, r) \in HandlerT
    BY WaitingInHandlerT
  <2>. QED BY <1>7, <2>1 DEF ScheduleInProgress, TypeOK, CacheSound, DiskOK
<1>8. ASSUME NEW p \in Paths, NEW r \in Offsets \cup {NoRange},
             ScheduleNew(c, p, r)
      PROVE TypeInv'
  <2>1. Waiting("recv", p, r) \in HandlerT
    BY WaitingInHandlerT
  <2>2. [st |-> "pending", owner |-> c, r |-> r, tries |-> 0, start |-> 0] \in JobT
    BY DEF JobT
  <2>3. TypeOK'
    BY <1>8, <2>1, <2>2 DEF ScheduleNew, TypeOK
  <2>4. CacheSound'
    BY <1>8 DEF ScheduleNew, TypeOK, CacheSound, DiskOK
  <2>. QED BY <2>3, <2>4
<1>9. CASE PollFound(c)
  <2>1. h[c].path \in Paths /\ h[c].r \in Offsets \cup {NoRange}
    BY DEF TypeOK, HandlerT
  <2>2. U64Sub(xattr[h[c].path], Off(h[c].r)) \in Nat
    <3>1. xattr[h[c].path] \in Nat
      BY <1>9, <2>1 DEF PollFound, TypeOK
    <3>2. Off(h[c].r) \in Nat
      BY <2>1 DEF Off
    <3>3. U64Sub(xattr[h[c].path], Off(h[c].r)) \in 0..(Word - 1)
      BY <3>1, <3>2 DEF U64Sub
    <3>. QED BY <3>3
  <2>. QED BY <1>9, <2>1, <2>2, OpenGrowingStep DEF PollFound
<1>10. CASE PollMiss(c)
  <2>1. h[c].polls + 1 \in 0..PollLimit
    BY <1>10 DEF PollMiss, TypeOK, HandlerT
  <2>2. h' \in [Clients -> HandlerT]
    <3>1. h[c] \in HandlerT
      BY DEF TypeOK
    <3>2. [h[c] EXCEPT !.polls = h[c].polls + 1] \in HandlerT
      BY <2>1, <3>1 DEF HandlerT
    <3>3. h' = [h EXCEPT ![c] = [h[c] EXCEPT !.polls = h[c].polls + 1]]
      BY <1>10 DEF PollMiss
    <3>. QED BY <3>2, <3>3 DEF TypeOK
  <2>3. UNCHANGED <<up, crash, job, fexists, flen, xattr, sock, resp, wire>>
    BY <1>10 DEF PollMiss
  <2>. QED BY <2>2, <2>3 DEF TypeOK, CacheSound, DiskOK
<1>11. CASE PollTimeout(c)
  BY <1>11, PanicStep DEF PollTimeout, Causes
<1>12. CASE RecvJobSize(c)
  <2>1. h[c].path \in Paths /\ h[c].r \in Offsets \cup {NoRange}
        /\ h[c].msg \in Msgs \cup {NoMsg}
    BY DEF TypeOK, HandlerT
  <2>2. h[c].msg.n \in Nat
    BY <2>1 DEF Msgs, NoMsg
  <2>. QED BY <1>12, <2>1, <2>2, OpenGrowingStep DEF RecvJobSize
<1>13. CASE RecvUnavailable(c)
  <2>1. sock[c] \in SockT
    BY DEF TypeOK
  <2>. QED BY <1>13, <2>1, BareReplyStep DEF RecvUnavailable
<1>14. CASE RecvOrderError(c)
  <2>1. sock[c] \in SockT
    BY DEF TypeOK
  <2>. QED BY <1>14, <2>1, BareReplyStep DEF RecvOrderError
<1>15. CASE RecvUnexpected(c)
  BY <1>15, PanicStep DEF RecvUnexpected, Causes
<1>16. CASE RecvTimeout(c)
  BY <1>16, PanicStep DEF RecvTimeout, Causes
<1>17. CASE StreamPass(c)
  BY <1>17, StreamPassStep
<1>. QED BY <1>1, <1>2, <1>3, <1>4, <1>5, <1>6, <1>7, <1>8, <1>9, <1>10,
            <1>11, <1>12, <1>13, <1>14, <1>15, <1>16, <1>17 DEF Handler

LEMMA HandlerMsg ==
    ASSUME NEW x \in HandlerT, NEW m \in Msgs
    PROVE  [x EXCEPT !.msg = m] \in HandlerT
BY DEF HandlerT

\* A send on a job's channel keeps the handlers well typed.
LEMMA DeliverType ==
    ASSUME TypeOK, NEW p \in Paths, NEW m \in Msgs, Deliver(p, m)
    PROVE  h' \in [Clients -> HandlerT]
<1>1. job[p].owner \in Clients
  BY DEF TypeOK, JobT
<1>2. [h[job[p].owner] EXCEPT !.msg = m] \in HandlerT
  <2>1. h[job[p].owner] \in HandlerT
    BY <1>1 DEF TypeOK
  <2>. QED BY <2>1, HandlerMsg
<1>. QED BY <1>1, <1>2 DEF Deliver, TypeOK

\* A worker that gives the job up (NotFound, OrderError, Failed, Completed).
LEMMA RetireStep ==
    ASSUME TypeInv, NEW p \in Paths, NEW m \in Msgs,
           Deliver(p, m), Retire(p),
           UNCHANGED <<up, crash, fexists, flen, xattr, sock, resp, wire>>
    PROVE  TypeInv'
<1>1. h' \in [Clients -> HandlerT]
  BY DeliverType DEF TypeInv
<1>2. job' \in [Paths -> JobT]
  BY Constants DEF Retire, TypeInv, TypeOK
<1>3. \A q \in Paths : job'[q].st = "running" => job[q].st = "running"
  BY DEF Retire, NoJob, TypeInv, TypeOK
<1>. QED BY <1>1, <1>2, <1>3 DEF TypeInv, TypeOK, CacheSound, DiskOK

LEMMA WorkerRespondStep ==
    ASSUME TypeInv, NEW p \in Paths, WorkerRespond(p)
    PROVE  TypeInv'
<1>1. Size[p] - Off(job[p].r) \in Nat
  <2>1. job[p].r \in Offsets \cup {NoRange}
    BY DEF TypeInv, TypeOK, JobT
  <2>2. Off(job[p].r) \in Nat /\ Off(job[p].r) <= Size[p]
    BY <2>1 DEF Off, WorkerRespond
  <2>3. Size[p] \in Nat
    BY ConstAssumption
  <2>. QED BY <2>2, <2>3
<1>2. h' \in [Clients -> HandlerT]
  BY <1>1, DeliverType DEF WorkerRespond, TypeInv, Msgs
<1>3. job' \in [Paths -> JobT]
  <2>1. job[p] \in JobT /\ flen[p] \in Nat
    BY DEF TypeInv, TypeOK
  <2>2. [job[p] EXCEPT !.st = "running", !.start = flen[p]] \in JobT
    BY <2>1 DEF JobT
  <2>3. job' = [job EXCEPT ![p] = [job[p] EXCEPT !.st = "running", !.start = flen[p]]]
    BY DEF WorkerRespond
  <2>. QED BY <2>2, <2>3 DEF TypeInv, TypeOK
<1>4. TypeOK'
  <2>1. Size[p] \in Nat
    BY ConstAssumption
  <2>2. xattr' \in [Paths -> Nat \cup {NoAttr}] /\ fexists' \in [Paths -> BOOLEAN]
    BY <2>1 DEF WorkerRespond, TypeInv, TypeOK
  <2>3. UNCHANGED <<up, crash, flen, sock, resp, wire>>
    BY DEF WorkerRespond
  <2>. QED BY <1>2, <1>3, <2>2, <2>3 DEF TypeInv, TypeOK
<1>5. CacheSound'
  BY Constants DEF WorkerRespond, TypeInv, TypeOK, CacheSound, DiskOK
<1>. QED BY <1>4, <1>5 DEF TypeInv

LEMMA WorkerStep ==
    ASSUME TypeInv, NEW p \in Paths, Worker(p)
    PROVE  TypeInv'
<1>1. CASE WorkerRespond(p)
  BY <1>1, WorkerRespondStep
<1>2. CASE WorkerNotFound(p)
  BY <1>2, RetireStep DEF WorkerNotFound, Msg, Msgs
<1>3. CASE WorkerRejected(p)
  BY <1>3, RetireStep DEF WorkerRejected, Msg, Msgs
<1>4. CASE WorkerRetry(p)
  <2>1. job' \in [Paths -> JobT]
    BY <1>4 DEF WorkerRetry, TypeInv, TypeOK, JobT
  <2>2. job'[p].st = "pending" /\ \A q \in Paths \ {p} : job'[q] = job[q]
    BY <1>4 DEF WorkerRetry, TypeInv, TypeOK
  <2>. QED BY <1>4, <2>1, <2>2 DEF WorkerRetry, TypeInv, TypeOK, CacheSound, DiskOK
<1>5. CASE WorkerFail(p)
  BY <1>5, RetireStep DEF WorkerFail, Msg, Msgs
<1>6. CASE WorkerWrite(p)
  <2>1. job[p].st = "running" /\ flen[p] < Size[p]
    BY <1>6 DEF WorkerWrite
  <2>2. flen' \in [Paths -> Nat]
    BY <1>6 DEF WorkerWrite, TypeInv, TypeOK
  <2>3. TypeOK'
    BY <1>6, <2>2 DEF WorkerWrite, TypeInv, TypeOK
  <2>4. CacheSound'
    BY <1>6, <2>1, Constants DEF WorkerWrite, TypeInv, TypeOK, CacheSound, DiskOK
  <2>. QED BY <2>3, <2>4 DEF TypeInv
<1>7. CASE WorkerComplete(p)
  BY <1>7, RetireStep DEF WorkerComplete, Msg, Msgs
<1>. QED BY <1>1, <1>2, <1>3, <1>4, <1>5, <1>6, <1>7 DEF Worker

LEMMA InitInv == Init => TypeInv
<1>. SUFFICES ASSUME Init PROVE TypeInv
  OBVIOUS
<1>1. flen \in [Paths -> Nat] /\ xattr \in [Paths -> Nat \cup {NoAttr}]
  BY DEF Init
<1>2. TypeOK
  BY <1>1, Constants DEF Init, TypeOK, SockT, WireT
<1>3. CacheSound
  BY DEF Init, CacheSound, NoJob
<1>. QED BY <1>2, <1>3 DEF TypeInv

LEMMA NextInv == TypeInv /\ [Next]_vars => TypeInv'
<1>. SUFFICES ASSUME TypeInv, [Next]_vars PROVE TypeInv'
  OBVIOUS
<1>1. ASSUME NEW c \in Clients, Accept(c) PROVE TypeInv'
  BY <1>1, Constants DEF Accept, TypeInv, TypeOK, SockT, WireT, CacheSound, DiskOK
<1>2. ASSUME NEW c \in Clients, Disconnect(c) PROVE TypeInv'
  BY <1>2 DEF Disconnect, TypeInv, TypeOK, SockT, CacheSound, DiskOK
<1>3. ASSUME NEW c \in Clients, Handler(c) PROVE TypeInv'
  BY <1>3, HandlerStep
<1>4. ASSUME NEW p \in Paths, Worker(p) PROVE TypeInv'
  BY <1>4, WorkerStep
<1>5. CASE Restart
  BY <1>5 DEF Restart, TypeInv, TypeOK, CacheSound, DiskOK
<1>6. CASE UNCHANGED vars
  BY <1>6 DEF vars, TypeInv, TypeOK, CacheSound, DiskOK
<1>. QED BY <1>1, <1>2, <1>3, <1>4, <1>5, <1>6 DEF Next

(* Type correctness of the request path for every set of paths, clients,   *)
(* sizes, offsets and bounds: every count the handler computes from the    *)
(* cache (content_length - resume_from, filesize - resume_from, the bytes  *)
(* send_payload sends) is a natural number, across panics and restarts.    *)
THEOREM TypeCorrect == Spec => []TypeOK
<1>1. Init => TypeInv
  BY InitInv
<1>2. TypeInv /\ [Next]_vars => TypeInv'
  BY NextInv
<1>3. TypeInv => TypeOK
  BY DEF TypeInv
<1>. QED BY <1>1, <1>2, <1>3, PTL DEF Spec



-----------------------------------------------------------------------------
(* The cache file serve_client opens for a growing-file reply exists.      *)

\* The strengthening that carries FileOpens through the channel wait: a
\* JobSize a handler holds was sent after its file was created.
JobSizeFile ==
    \A c \in Clients :
        h[c].pc = "recv" /\ h[c].msg.kind = "JobSize" => fexists[h[c].path]

FileInv == TypeInv /\ FileOpens /\ JobSizeFile

\* No JobSize a handler holds after the step is new (or it is its old one).
HeldBefore ==
    \A c \in Clients :
        h'[c].pc = "recv" /\ h'[c].msg.kind = "JobSize"
            => h[c].pc = "recv" /\ h[c].msg.kind = "JobSize" /\ h'[c].path = h[c].path

\* A step that files never disappear in, that gives no handler a new JobSize
\* and that is no failed open keeps the two conjuncts.
LEMMA FileFrame ==
    ASSUME FileInv, crash' # "no_file", HeldBefore,
           \A p \in Paths : fexists[p] => fexists'[p]
    PROVE  (FileOpens /\ JobSizeFile)'
<1>1. FileOpens'
  BY DEF FileOpens
<1>2. SUFFICES ASSUME NEW c \in Clients, h'[c].pc = "recv", h'[c].msg.kind = "JobSize"
               PROVE  fexists'[h'[c].path]
  BY <1>1 DEF JobSizeFile
<1>3. h[c].pc = "recv" /\ h[c].msg.kind = "JobSize" /\ h'[c].path = h[c].path
  BY <1>2 DEF HeldBefore
<1>4. fexists[h[c].path] /\ h[c].path \in Paths
  BY <1>3 DEF FileInv, JobSizeFile, TypeInv, TypeOK, HandlerT
<1>. QED BY <1>3, <1>4

\* A panic other than a failed open.
LEMMA FilePanic ==
    ASSUME FileInv, NEW cause, cause # "no_file", Panic(cause)
    PROVE  (FileOpens /\ JobSizeFile)'
<1>1. HeldBefore
  BY Constants DEF HeldBefore, Panic, Idle, Waiting
<1>. QED BY <1>1, FileFrame DEF Panic

\* A reply that leaves the handler outside receive_content_length.
LEMMA FileReply ==
    ASSUME FileInv, NEW c \in Clients, NEW reply, NEW hn, NEW sn,
           hn.pc # "recv", Reply(c, reply, hn, sn)
    PROVE  (FileOpens /\ JobSizeFile)'
<1>1. CASE sock[c] = "gone" /\ Panic("client_gone")
  BY <1>1, FilePanic
<1>2. CASE ~(sock[c] = "gone" /\ Panic("client_gone"))
  <2>1. h' = [h EXCEPT ![c] = hn] /\ UNCHANGED <<crash, fexists>>
    BY <1>2 DEF Reply
  <2>2. HeldBefore
    BY <2>1 DEF HeldBefore, FileInv, TypeInv, TypeOK
  <2>. QED BY <2>1, <2>2, FileFrame DEF FileInv, FileOpens
<1>. QED BY <1>1, <1>2


\* The open before a growing-file header never fails where the invariant
\* holds: the attribute is on the file, and a JobSize follows its creation.
LEMMA FileOpen ==
    ASSUME FileInv, NEW c \in Clients, NEW p \in Paths, NEW r, NEW cl,
           fexists[p], OpenGrowing(c, p, r, cl)
    PROVE  (FileOpens /\ JobSizeFile)'
<1>1. GrowingHeader(c, p, r, cl)
  BY DEF OpenGrowing
<1>2. LET done == Off(r) >= U64Add(cl, Off(r)) IN
      (IF done THEN Reading
       ELSE [pc |-> "stream", path |-> p, r |-> r, cl |-> cl,
             sent |-> Off(r), polls |-> 0, msg |-> NoMsg]).pc # "recv"
  BY DEF Reading, Waiting
<1>. QED BY <1>1, <1>2, FileReply DEF GrowingHeader

\* A handler moves between its own states, keeping crash and the files.
LEMMA FileQuiet ==
    ASSUME FileInv, NEW c \in Clients, NEW hn,
           hn.pc # "recv" \/ hn.msg.kind # "JobSize",
           h' = [h EXCEPT ![c] = hn], UNCHANGED <<crash, fexists>>
    PROVE  (FileOpens /\ JobSizeFile)'
<1>1. HeldBefore
  BY DEF HeldBefore, FileInv, TypeInv, TypeOK
<1>. QED BY <1>1, FileFrame DEF FileInv, FileOpens

LEMMA FileHandler ==
    ASSUME FileInv, NEW c \in Clients, Handler(c)
    PROVE  (FileOpens /\ JobSizeFile)'
<1>0. /\ h[c] \in HandlerT /\ \A q \in Paths : DiskOK(q)
      /\ Idle.pc # "recv" /\ Reading.pc # "recv"
  BY DEF FileInv, TypeInv, TypeOK, CacheSound, Idle, Reading, Waiting
<1>1. CASE ReadFails(c)
  BY <1>0, <1>1, FileQuiet DEF ReadFails
<1>2. CASE ReadBadHeader(c) \/ ServeForbidden(c) \/ ServeStatus(c)
  BY <1>0, <1>2, FileReply DEF ReadBadHeader, ServeForbidden, ServeStatus
<1>3. ASSUME NEW p \in Paths, NEW r \in Offsets \cup {NoRange},
             ScheduleCached(c, p, r) \/ ScheduleUncacheable(c, p, r)
      PROVE  (FileOpens /\ JobSizeFile)'
  BY <1>0, <1>3, FileReply DEF ScheduleCached, ScheduleUncacheable
<1>4. ASSUME NEW p \in Paths, NEW r \in Offsets \cup {NoRange},
             ScheduleInProgress(c, p, r) \/ ScheduleNew(c, p, r)
      PROVE  (FileOpens /\ JobSizeFile)'
  <2>1. Waiting("poll", p, r).pc # "recv" /\ Waiting("recv", p, r).msg.kind # "JobSize"
    BY DEF Waiting, NoMsg
  <2>. QED BY <1>4, <2>1, FileQuiet DEF ScheduleInProgress, ScheduleNew
<1>5. CASE PollFound(c)
  <2>1. h[c].path \in Paths /\ xattr[h[c].path] # NoAttr
    BY <1>0, <1>5 DEF HandlerT, PollFound
  <2>2. fexists[h[c].path]
    BY <1>0, <2>1 DEF DiskOK
  <2>. QED BY <1>5, <2>1, <2>2, FileOpen DEF PollFound
<1>6. CASE RecvJobSize(c)
  <2>1. h[c].path \in Paths
    BY <1>0 DEF HandlerT
  <2>2. fexists[h[c].path]
    BY <1>6 DEF RecvJobSize, FileInv, JobSizeFile
  <2>. QED BY <1>6, <2>1, <2>2, FileOpen DEF RecvJobSize
<1>7. CASE PollMiss(c)
  <2>1. h' = [h EXCEPT ![c] = [h[c] EXCEPT !.polls = h[c].polls + 1]]
    BY <1>7 DEF PollMiss
  <2>2. [h[c] EXCEPT !.polls = h[c].polls + 1].pc # "recv"
    BY <1>0, <1>7 DEF PollMiss, HandlerT
  <2>. QED BY <1>7, <2>1, <2>2, FileQuiet DEF PollMiss
<1>8. CASE PollTimeout(c) \/ RecvUnexpected(c) \/ RecvTimeout(c)
  BY <1>8, FilePanic DEF PollTimeout, RecvUnexpected, RecvTimeout
<1>9. CASE RecvUnavailable(c) \/ RecvOrderError(c)
  BY <1>0, <1>9, FileReply DEF RecvUnavailable, RecvOrderError
<1>10. CASE StreamPass(c)
  <2>1. CASE sock[c] = "open" /\ Panic("stream_error")
    BY <2>1, FilePanic
  <2>2. CASE ~(sock[c] = "open" /\ Panic("stream_error"))
    <3>1. h[c].pc = "stream"
      BY <1>10 DEF StreamPass
    <3>2. [h[c] EXCEPT !.sent = SendPayload(flen[h[c].path], h[c].sent)].pc # "recv"
      BY <1>0, <3>1 DEF HandlerT
    <3>3. \/ h' = [h EXCEPT ![c] = Reading]
          \/ h' = [h EXCEPT ![c] = [h[c] EXCEPT
                         !.sent = SendPayload(flen[h[c].path], h[c].sent)]]
      BY <1>10, <2>2 DEF StreamPass
    <3>4. UNCHANGED <<crash, fexists>>
      BY <1>10, <2>2 DEF StreamPass
    <3>. QED BY <1>0, <3>2, <3>3, <3>4, FileQuiet
  <2>. QED BY <2>1, <2>2
<1>. QED BY <1>1, <1>2, <1>3, <1>4, <1>5, <1>6, <1>7, <1>8, <1>9, <1>10 DEF Handler


\* Setting the message a handler holds leaves its other fields.
LEMMA MsgFields ==
    ASSUME NEW x \in HandlerT, NEW m
    PROVE  /\ [x EXCEPT !.msg = m].msg = m
           /\ [x EXCEPT !.msg = m].pc = x.pc
           /\ [x EXCEPT !.msg = m].path = x.path
BY DEF HandlerT

\* A send on p's channel reaches at most its owner, waiting on p.
LEMMA DeliverTo ==
    ASSUME TypeOK, NEW p \in Paths, NEW m, Deliver(p, m), NEW c \in Clients,
           h'[c] # h[c]
    PROVE  /\ h[c].pc = "recv" /\ h[c].path = p
           /\ h'[c].msg = m /\ h'[c].pc = h[c].pc /\ h'[c].path = h[c].path
<1>. DEFINE o == job[p].owner
<1>1. o \in Clients /\ h[c] \in HandlerT
  BY DEF TypeOK, JobT
<1>2. CASE h[o].pc = "recv" /\ h[o].path = p /\ h[o].msg = NoMsg
  <2>1. h' = [h EXCEPT ![o].msg = m]
    BY <1>2 DEF Deliver
  <2>2. c = o
    BY <2>1, <1>1 DEF TypeOK
  <2>3. h'[c] = [h[c] EXCEPT !.msg = m]
    BY <2>1, <2>2 DEF TypeOK
  <2>. QED BY <1>1, <1>2, <2>2, <2>3, MsgFields
<1>3. CASE ~(h[o].pc = "recv" /\ h[o].path = p /\ h[o].msg = NoMsg)
  BY <1>3 DEF Deliver
<1>. QED BY <1>2, <1>3

\* A send of a message other than JobSize gives no handler a JobSize.
LEMMA DeliverOther ==
    ASSUME FileInv, NEW p \in Paths, NEW m, m.kind # "JobSize", Deliver(p, m)
    PROVE  HeldBefore
<1>. SUFFICES ASSUME NEW c \in Clients, h'[c].pc = "recv", h'[c].msg.kind = "JobSize"
              PROVE  h[c].pc = "recv" /\ h[c].msg.kind = "JobSize" /\ h'[c].path = h[c].path
  BY DEF HeldBefore
<1>1. h'[c] = h[c]
  BY DeliverTo DEF FileInv, TypeInv
<1>. QED BY <1>1

LEMMA FileWorker ==
    ASSUME FileInv, NEW p \in Paths, Worker(p)
    PROVE  (FileOpens /\ JobSizeFile)'
<1>1. CASE WorkerRespond(p)
  <2>1. SUFFICES ASSUME NEW c \in Clients, h'[c].pc = "recv",
                        h'[c].msg.kind = "JobSize"
                 PROVE  fexists'[h'[c].path]
    BY <1>1 DEF WorkerRespond, FileOpens, FileInv, JobSizeFile
  <2>2. fexists' = [fexists EXCEPT ![p] = TRUE]
    BY <1>1 DEF WorkerRespond
  <2>3. CASE h'[c] = h[c]
    <3>1. fexists[h[c].path] /\ h[c].path \in Paths
      BY <2>1, <2>3 DEF FileInv, JobSizeFile, TypeInv, TypeOK, HandlerT
    <3>. QED BY <2>2, <2>3, <3>1
  <2>4. CASE h'[c] # h[c]
    <3>1. h'[c].path = p
      BY <1>1, <2>4, DeliverTo DEF WorkerRespond, FileInv, TypeInv
    <3>. QED BY <2>2, <3>1 DEF FileInv, TypeInv, TypeOK
  <2>. QED BY <2>3, <2>4
<1>2. CASE WorkerNotFound(p) \/ WorkerRejected(p) \/ WorkerFail(p) \/ WorkerComplete(p)
  <2>1. HeldBefore
    BY <1>2, DeliverOther DEF WorkerNotFound, WorkerRejected, WorkerFail, WorkerComplete, Msg
  <2>. QED BY <1>2, <2>1, FileFrame
           DEF WorkerNotFound, WorkerRejected, WorkerFail, WorkerComplete, FileInv, FileOpens
<1>3. CASE WorkerRetry(p) \/ WorkerWrite(p)
  <2>1. HeldBefore
    BY <1>3 DEF WorkerRetry, WorkerWrite, HeldBefore
  <2>. QED BY <1>3, <2>1, FileFrame DEF WorkerRetry, WorkerWrite, FileInv, FileOpens
<1>. QED BY <1>1, <1>2, <1>3 DEF Worker


LEMMA FileInit == Init => FileInv
<1>. SUFFICES ASSUME Init PROVE FileInv
  OBVIOUS
<1>1. TypeInv
  BY InitInv
<1>2. FileOpens /\ JobSizeFile
  BY Constants DEF Init, FileOpens, JobSizeFile, Idle, Waiting
<1>. QED BY <1>1, <1>2 DEF FileInv

LEMMA FileNext == FileInv /\ [Next]_vars => FileInv'
<1>. SUFFICES ASSUME FileInv, [Next]_vars PROVE FileInv'
  OBVIOUS
<1>1. TypeInv'
  BY NextInv DEF FileInv
<1>2. ASSUME NEW c \in Clients, Accept(c) PROVE (FileOpens /\ JobSizeFile)'
  <2>1. Reading.pc # "recv"
    BY DEF Reading, Waiting
  <2>. QED BY <1>2, <2>1, FileQuiet DEF Accept
<1>3. ASSUME UNCHANGED <<h, crash, fexists>> PROVE (FileOpens /\ JobSizeFile)'
  <2>1. HeldBefore
    BY <1>3 DEF HeldBefore
  <2>. QED BY <1>3, <2>1, FileFrame DEF FileInv, FileOpens
<1>4. ASSUME NEW c \in Clients, Handler(c) PROVE (FileOpens /\ JobSizeFile)'
  BY <1>4, FileHandler
<1>5. ASSUME NEW p \in Paths, Worker(p) PROVE (FileOpens /\ JobSizeFile)'
  BY <1>5, FileWorker
<1>6. ASSUME NEW c \in Clients, Disconnect(c) PROVE UNCHANGED <<h, crash, fexists>>
  BY <1>6 DEF Disconnect
<1>7. Restart \/ UNCHANGED vars => UNCHANGED <<h, crash, fexists>>
  BY DEF Restart, vars
<1>8. (FileOpens /\ JobSizeFile)'
  BY <1>2, <1>3, <1>4, <1>5, <1>6, <1>7 DEF Next
<1>. QED BY <1>1, <1>8 DEF FileInv

(* The File::open(..).unwrap() of serve_client before a growing-file reply *)
(* (main.rs 117 after the size attribute is polled, 127 after JobSize) never *)
(* panics, for every instance: the attribute lives on the file, the worker  *)
(* creates the file before it announces the size, and files are never      *)
(* removed, across panics and restarts.                                     *)
THEOREM FileOpensInv == Spec => []FileOpens
<1>1. Init => FileInv
  BY FileInit
<1>2. FileInv /\ [Next]_vars => FileInv'
  BY FileNext
<1>3. FileInv => FileOpens
  BY DEF FileInv
<1>. QED BY <1>1, <1>2, <1>3, PTL DEF Spec

=============================================================================
