-------------------------- MODULE FlexoReplyProofs --------------------------
(***************************************************************************)
(* Every object reply is faithful to the object, for every instance: the   *)
(* proof that ReplyInv is inductive, resting on the type proof.            *)
(***************************************************************************)
EXTENDS FlexoServeProofs

USE ConstAssumption

\* The conjuncts of ReplyInv beyond TypeInv.
RestInv == ReplyFaithful /\ JobLink /\ SizeMsg /\ StreamLink

\* What a reply header must satisfy to be faithful.
Faithful(reply) ==
    reply.obj => /\ reply.r + reply.cl = Size[reply.path]
                 /\ reply.got <= reply.cl
                 /\ reply.fin => reply.got = reply.cl

\* What a stream must satisfy towards the reply that opened it.
Opens(reply, hn) ==
    /\ reply.obj
    /\ ~reply.fin
    /\ reply.path = hn.path
    /\ reply.r = Off(hn.r)
    /\ reply.cl = hn.cl
    /\ reply.got + Off(hn.r) = hn.sent
    /\ hn.sent < U64Add(hn.cl, Off(hn.r))

\* A panic leaves no handler waiting or streaming and no job registered.
LEMMA PanicRest ==
    ASSUME ReplyInv, NEW cause, Panic(cause)
    PROVE  RestInv'
<1>1. \A c \in Clients : h'[c].pc = "idle"
  BY Constants DEF Panic, Idle, Waiting
<1>2. \A p \in Paths : job'[p].st = "none"
  BY DEF Panic, NoJob
<1>3. ReplyFaithful'
  BY DEF Panic, ReplyInv, ReplyFaithful
<1>. QED BY <1>1, <1>2, <1>3 DEF RestInv, JobLink, SizeMsg, StreamLink

\* A reply of the handler of c that leaves it out of receive_content_length.
LEMMA ReplyRest ==
    ASSUME ReplyInv, NEW c \in Clients, NEW reply, NEW hn, NEW sn,
           Reply(c, reply, hn, sn),
           Faithful(reply),
           hn.pc # "recv",
           hn.pc = "stream" => sn = sock[c] /\ Opens(reply, hn)
    PROVE  RestInv'
<1>1. CASE sock[c] = "gone" /\ Panic("client_gone")
  BY <1>1, PanicRest
<1>2. CASE ~(sock[c] = "gone" /\ Panic("client_gone"))
  <2>1. /\ h' = [h EXCEPT ![c] = hn]
        /\ sock' = [sock EXCEPT ![c] = sn]
        /\ sock[c] = "open" => resp' = [resp EXCEPT ![c] = reply]
        /\ sock[c] # "open" => resp' = resp
        /\ UNCHANGED <<up, crash, job, fexists, flen, xattr>>
    BY <1>2 DEF Reply
  <2>2. ReplyFaithful'
    BY <2>1 DEF ReplyInv, ReplyFaithful, Faithful, TypeOK
  <2>3. JobLink'
    BY <2>1 DEF ReplyInv, JobLink, TypeOK, JobT
  <2>4. SizeMsg'
    BY <2>1 DEF ReplyInv, SizeMsg, TypeOK
  <2>5. StreamLink'
    <3>1. sock[c] \in SockT
      BY DEF ReplyInv, TypeOK
    <3>2. SUFFICES ASSUME NEW d \in Clients, h'[d].pc = "stream", sock'[d] = "open"
                   PROVE  /\ resp'[d].obj
                          /\ ~resp'[d].fin
                          /\ resp'[d].path = h'[d].path
                          /\ resp'[d].r = Off(h'[d].r)
                          /\ resp'[d].cl = h'[d].cl
                          /\ resp'[d].got + Off(h'[d].r) = h'[d].sent
                          /\ h'[d].sent < Total(d)'
      BY DEF StreamLink
    <3>3. CASE d = c
      <4>1. hn.pc = "stream" /\ sn = sock[c] /\ sock[c] = "open"
        BY <2>1, <3>1, <3>2, <3>3 DEF ReplyInv, TypeOK
      <4>2. resp'[c] = reply /\ h'[c] = hn
        BY <2>1, <4>1 DEF ReplyInv, TypeOK
      <4>. QED BY <3>3, <4>1, <4>2 DEF Opens, Total
    <3>4. CASE d # c
      <4>1. h'[d] = h[d] /\ sock'[d] = sock[d] /\ resp'[d] = resp[d]
        BY <2>1, <3>4 DEF ReplyInv, TypeOK
      <4>. QED BY <3>2, <4>1 DEF ReplyInv, StreamLink, Total
    <3>. QED BY <3>3, <3>4
  <2>. QED BY <2>2, <2>3, <2>4, <2>5 DEF RestInv
<1>. QED BY <1>1, <1>2

\* Bare headers (400, 403, 404, 301, /status) carry no object.
LEMMA BareRest ==
    ASSUME ReplyInv, NEW c \in Clients, NEW s, NEW hn \in {Idle, Reading}, NEW sn,
           Reply(c, Bare(s), hn, sn)
    PROVE  RestInv'
<1>1. Faithful(Bare(s))
  BY DEF Faithful, Bare
<1>2. hn.pc \in {"idle", "read"}
  BY DEF Idle, Reading, Waiting
<1>. QED BY <1>1, <1>2, ReplyRest

\* serve_from_growing_file's header announces the rest of the object.
LEMMA GrowingHeaderRest ==
    ASSUME ReplyInv, NEW c \in Clients, NEW p \in Paths,
           NEW r \in Offsets \cup {NoRange}, NEW cl \in Nat,
           cl + Off(r) = Size[p],
           GrowingHeader(c, p, r, cl)
    PROVE  RestInv'
<1>. DEFINE done == Off(r) >= U64Add(cl, Off(r))
            reply == [st |-> OkStatus(r), obj |-> TRUE, path |-> p, r |-> Off(r),
                      cl |-> cl, got |-> 0, fin |-> done]
            hn == IF done THEN Reading
                  ELSE [pc |-> "stream", path |-> p, r |-> r, cl |-> cl,
                        sent |-> Off(r), polls |-> 0, msg |-> NoMsg]
<1>0. Off(r) \in Nat
  BY DEF Off
<1>00. U64Add(cl, Off(r)) = cl + Off(r)
  <2>0. Size[p] \in Nat /\ Size[p] < Word
    BY ConstAssumption
  <2>1. cl + Off(r) \in 0..(Word - 1)
    BY <1>0, <2>0
  <2>2. cl \in Int /\ Off(r) \in Int
    BY <1>0
  <2>. QED BY <2>1, <2>2, U64Exact, Zenon
<1>01. done <=> cl = 0
  BY <1>0, <1>00
<1>1. Faithful(reply)
  <2>1. /\ reply.obj /\ reply.path = p /\ reply.r = Off(r) /\ reply.cl = cl
        /\ reply.got = 0 /\ (reply.fin <=> cl = 0)
    BY <1>01
  <2>. QED BY <1>0, <2>1 DEF Faithful
<1>2. CASE cl = 0
  <2>1. hn = Reading
    BY <1>2, <1>01, Zenon
  <2>2. hn.pc = "read"
    BY <2>1 DEF Reading, Waiting
  <2>. QED BY <1>1, <2>2, ReplyRest DEF GrowingHeader
<1>3. CASE cl # 0
  <2>. DEFINE hs == [pc |-> "stream", path |-> p, r |-> r, cl |-> cl,
                     sent |-> Off(r), polls |-> 0, msg |-> NoMsg]
  <2>1. hn = hs
    BY <1>3, <1>01, Zenon
  <2>2. Opens(reply, hs) /\ hs.pc = "stream"
    <3>1. reply.obj /\ ~reply.fin
      BY <1>3, <1>01, Zenon
    <3>2. /\ reply.path = p /\ reply.r = Off(r) /\ reply.cl = cl /\ reply.got = 0
          /\ hs.path = p /\ hs.r = r /\ hs.cl = cl /\ hs.sent = Off(r)
          /\ hs.pc = "stream"
      OBVIOUS
    <3>3. Off(r) < U64Add(cl, Off(r))
      BY <1>0, <1>00, <1>3
    <3>. QED BY <3>1, <3>2, <3>3, <1>0 DEF Opens
  <2>. QED BY <1>1, <2>1, <2>2, ReplyRest DEF GrowingHeader
<1>. QED BY <1>2, <1>3

\* File::open before that header: the header, or a panic.
LEMMA OpenGrowingRest ==
    ASSUME ReplyInv, NEW c \in Clients, NEW p \in Paths,
           NEW r \in Offsets \cup {NoRange}, NEW cl \in Nat,
           cl + Off(r) = Size[p],
           OpenGrowing(c, p, r, cl)
    PROVE  RestInv'
<1>1. CASE fexists[p]
  BY <1>1, GrowingHeaderRest DEF OpenGrowing
<1>2. CASE ~fexists[p]
  BY <1>2, PanicRest DEF OpenGrowing
<1>. QED BY <1>1, <1>2

\* The handler moves between its own waits without a reply.
LEMMA QuietRest ==
    ASSUME ReplyInv, NEW c \in Clients, NEW hn,
           h' = [h EXCEPT ![c] = hn],
           hn.pc \in {"idle", "read", "poll"},
           UNCHANGED <<job, resp>>,
           \A d \in Clients : sock'[d] # sock[d] => d = c
    PROVE  RestInv'
<1>1. ReplyFaithful'
  BY DEF ReplyInv, ReplyFaithful
<1>2. JobLink'
  BY DEF ReplyInv, JobLink, TypeOK, JobT
<1>3. SizeMsg'
  BY DEF ReplyInv, SizeMsg, TypeOK
<1>4. StreamLink'
  BY DEF ReplyInv, StreamLink, TypeOK, Total
<1>. QED BY <1>1, <1>2, <1>3, <1>4 DEF RestInv

\* With offsets that fit, serve_from_complete_file announces and sends the
\* rest of a complete file (the u64 subtraction of line 432 does not wrap).
LEMMA ScheduleCachedRest ==
    ASSUME OffsetsFit, ReplyInv, NEW c \in Clients, NEW p \in Paths,
           NEW r \in Offsets \cup {NoRange}, ScheduleCached(c, p, r)
    PROVE  RestInv'
<1>1. /\ flen[p] = Size[p] /\ Off(r) \in 0..Size[p]
      /\ U64Sub(flen[p], Off(r)) = flen[p] - Off(r)
  <2>1. xattr[p] # NoAttr /\ flen[p] = xattr[p]
    BY DEF ScheduleCached, Complete
  <2>. QED BY <2>1, AttrFromOffset, OffFits DEF ReplyInv, TypeInv
<1>2. Size[p] \in Nat
  BY ConstAssumption
<1>3. SendPayload(flen[p], Off(r)) = flen[p]
  BY <1>1, <1>2, SendPayloadRange
<1>4. Faithful([st |-> OkStatus(r), obj |-> TRUE, path |-> p, r |-> Off(r),
                cl |-> U64Sub(flen[p], Off(r)),
                got |-> SendPayload(flen[p], Off(r)) - Off(r), fin |-> TRUE])
  BY <1>1, <1>2, <1>3 DEF Faithful
<1>. QED BY <1>4, ReplyRest DEF ScheduleCached, Reading, Waiting

LEMMA ScheduleNewRest ==
    ASSUME ReplyInv, NEW c \in Clients, NEW p \in Paths,
           NEW r \in Offsets \cup {NoRange}, ScheduleNew(c, p, r)
    PROVE  RestInv'
<1>1. /\ h' = [h EXCEPT ![c] = Waiting("recv", p, r)]
      /\ job' = [job EXCEPT ![p] = [st |-> "pending", owner |-> c, r |-> r,
                                    tries |-> 0, start |-> 0]]
      /\ UNCHANGED <<sock, resp>>
  BY DEF ScheduleNew
<1>2. h'[c] = [pc |-> "recv", path |-> p, r |-> r, cl |-> 0, sent |-> 0,
               polls |-> 0, msg |-> NoMsg]
  BY <1>1 DEF ReplyInv, TypeOK, Waiting
<1>3. ReplyFaithful'
  BY <1>1 DEF ReplyInv, ReplyFaithful
<1>4. JobLink'
  <2>1. SUFFICES ASSUME NEW q \in Paths, job'[q].st # "none",
                        h'[job'[q].owner].pc = "recv", h'[job'[q].owner].path = q
                 PROVE  h'[job'[q].owner].r = job'[q].r
    BY DEF JobLink
  <2>2. CASE q = p
    BY <1>1, <1>2, <2>2 DEF ReplyInv, TypeOK
  <2>3. CASE q # p /\ job[q].owner = c
    BY <1>1, <1>2, <2>1, <2>3 DEF ReplyInv, TypeOK
  <2>4. CASE q # p /\ job[q].owner # c
    <3>1. job'[q] = job[q] /\ job[q].owner \in Clients
      BY <1>1, <2>4 DEF ReplyInv, TypeOK, JobT
    <3>2. h'[job[q].owner] = h[job[q].owner]
      BY <1>1, <2>4, <3>1 DEF ReplyInv, TypeOK
    <3>. QED BY <2>1, <3>1, <3>2 DEF ReplyInv, JobLink
  <2>. QED BY <2>2, <2>3, <2>4
<1>5. SizeMsg'
  BY <1>1, <1>2 DEF ReplyInv, SizeMsg, TypeOK, NoMsg
<1>6. StreamLink'
  BY <1>1, <1>2 DEF ReplyInv, StreamLink, TypeOK, Total
<1>. QED BY <1>3, <1>4, <1>5, <1>6 DEF RestInv

\* A step of the handler of c that leaves it out of receive_content_length
\* keeps the job and message links of every handler.
LEMMA NotRecvFrame ==
    ASSUME ReplyInv, NEW c \in Clients, job' = job,
           \A d \in Clients \ {c} : h'[d] = h[d],
           h'[c].pc # "recv"
    PROVE  JobLink' /\ SizeMsg'
<1>1. JobLink'
  <2>1. SUFFICES ASSUME NEW q \in Paths, job'[q].st # "none",
                        h'[job'[q].owner].pc = "recv", h'[job'[q].owner].path = q
                 PROVE  h'[job'[q].owner].r = job'[q].r
    BY DEF JobLink
  <2>2. job[q].owner \in Clients \ {c}
    BY <2>1 DEF ReplyInv, TypeOK, JobT
  <2>. QED BY <2>1, <2>2 DEF ReplyInv, JobLink
<1>2. SizeMsg'
  <2>1. SUFFICES ASSUME NEW d \in Clients, h'[d].pc = "recv", h'[d].msg.kind = "JobSize"
                 PROVE  h'[d].msg.n + Off(h'[d].r) = Size[h'[d].path]
    BY DEF SizeMsg
  <2>2. d # c
    BY <2>1
  <2>. QED BY <2>1, <2>2 DEF ReplyInv, SizeMsg
<1>. QED BY <1>1, <1>2

\* A step of the handler of c that leaves it out of the growing-file loop,
\* with no other connection's reply touched.
LEMMA NotStreamFrame ==
    ASSUME ReplyInv, NEW c \in Clients, sock' = sock,
           \A d \in Clients \ {c} : h'[d] = h[d] /\ resp'[d] = resp[d],
           h'[c].pc # "stream"
    PROVE  StreamLink'
<1>1. SUFFICES ASSUME NEW d \in Clients, h'[d].pc = "stream", sock'[d] = "open"
               PROVE  /\ resp'[d].obj
                      /\ ~resp'[d].fin
                      /\ resp'[d].path = h'[d].path
                      /\ resp'[d].r = Off(h'[d].r)
                      /\ resp'[d].cl = h'[d].cl
                      /\ resp'[d].got + Off(h'[d].r) = h'[d].sent
                      /\ h'[d].sent < Total(d)'
  BY DEF StreamLink
<1>2. d # c
  BY <1>1
<1>. QED BY <1>1, <1>2 DEF ReplyInv, StreamLink, Total

\* With offsets that fit, the size from the attribute minus the offset
\* (line 116) does not wrap.
LEMMA PollFoundRest ==
    ASSUME OffsetsFit, ReplyInv, NEW c \in Clients, PollFound(c)
    PROVE  RestInv'
<1>. DEFINE p == h[c].path
            r == h[c].r
<1>1. p \in Paths /\ r \in Offsets \cup {NoRange}
  BY DEF ReplyInv, TypeOK, HandlerT
<1>2. /\ xattr[p] = Size[p] /\ xattr[p] - Off(r) \in Nat
      /\ U64Sub(xattr[p], Off(r)) = xattr[p] - Off(r)
  BY <1>1, AttrFromOffset DEF PollFound, ReplyInv, TypeInv
<1>3. Off(r) \in Nat /\ Size[p] \in Nat
  BY <1>1, ConstAssumption DEF Off
<1>4. (xattr[p] - Off(r)) + Off(r) = Size[p]
  BY <1>2, <1>3
<1>. QED BY <1>1, <1>2, <1>4, OpenGrowingRest DEF PollFound

LEMMA RecvJobSizeRest ==
    ASSUME ReplyInv, NEW c \in Clients, RecvJobSize(c)
    PROVE  RestInv'
<1>1. /\ h[c].path \in Paths /\ h[c].r \in Offsets \cup {NoRange}
      /\ h[c].msg \in Msgs \cup {NoMsg}
  BY DEF ReplyInv, TypeOK, HandlerT
<1>2. h[c].msg.n \in Nat
  BY <1>1 DEF Msgs, NoMsg
<1>3. h[c].msg.n + Off(h[c].r) = Size[h[c].path]
  BY DEF RecvJobSize, ReplyInv, SizeMsg
<1>. QED BY <1>1, <1>2, <1>3, OpenGrowingRest DEF RecvJobSize

\* One pass of the growing-file loop: the client's count grows by what
\* send_payload sent, up to the end the header announced.
LEMMA StreamPassRest ==
    ASSUME ReplyInv, NEW c \in Clients, StreamPass(c)
    PROVE  RestInv'
<1>. DEFINE p == h[c].path
            off == Off(h[c].r)
            fl == flen[p]
<1>1. /\ p \in Paths /\ h[c].sent \in Nat /\ h[c].cl \in Nat /\ off \in Nat
      /\ fl \in Nat /\ fl <= Size[p] /\ resp[c] \in ReplyT
  BY DEF ReplyInv, TypeOK, HandlerT, CacheSound, DiskOK, Off
<1>2. h[c].pc = "stream" /\ fl > h[c].sent
  BY DEF StreamPass
<1>0. SendPayload(fl, h[c].sent) = fl
  BY <1>1, <1>2 DEF SendPayload
<1>5. CASE sock[c] = "open" /\ Panic("stream_error")
  BY <1>5, PanicRest
<1>3. CASE sock[c] = "open" /\ ~Panic("stream_error")
  <2>0. UNCHANGED <<job, sock>>
    BY <1>3 DEF StreamPass
  <2>1. /\ resp' = [resp EXCEPT ![c].got = @ + (fl - h[c].sent),
                                 ![c].fin = fl >= Total(c)]
        /\ h' = [h EXCEPT ![c] = IF fl >= Total(c) THEN Reading
                                 ELSE [@ EXCEPT !.sent = fl]]
    <3>1. /\ resp' = [resp EXCEPT ![c].got = @ + (SendPayload(fl, h[c].sent) - h[c].sent),
                                   ![c].fin = SendPayload(fl, h[c].sent) >= Total(c)]
          /\ h' = [h EXCEPT ![c] = IF SendPayload(fl, h[c].sent) >= Total(c) THEN Reading
                                   ELSE [@ EXCEPT !.sent = SendPayload(fl, h[c].sent)]]
      BY <1>3 DEF StreamPass
    <3>. QED BY <3>1, <1>0
  <2>2. /\ resp[c].obj /\ resp[c].path = p /\ resp[c].r = off
        /\ resp[c].cl = h[c].cl /\ resp[c].got + off = h[c].sent
        /\ h[c].sent < Total(c)
        /\ resp[c].r + resp[c].cl = Size[p]
    BY <1>2, <1>3 DEF ReplyInv, StreamLink, ReplyFaithful
  <2>3. Total(c) = Size[p] /\ h[c].cl = Size[p] - off
    <3>1. h[c].cl + off = Size[p] /\ Size[p] \in 0..(Word - 1)
      BY <1>1, <2>2, ConstAssumption
    <3>. QED BY <1>1, <3>1 DEF Total, U64Add
  <2>4. /\ resp'[c].obj /\ resp'[c].path = p /\ resp'[c].r = off
        /\ resp'[c].cl = h[c].cl /\ resp'[c].got = fl - off
        /\ resp'[c].fin = (fl >= Total(c))
    <3>1. resp'[c] = [resp[c] EXCEPT !.got = resp[c].got + (fl - h[c].sent),
                                     !.fin = (fl >= Total(c))]
      BY <2>1 DEF ReplyInv, TypeOK
    <3>2. resp'[c].got = fl - off
      BY <3>1, <1>1, <2>2 DEF ReplyT
    <3>3. resp'[c].fin = (fl >= Total(c))
      BY <3>1, <1>1 DEF ReplyT
    <3>4. /\ resp'[c].obj /\ resp'[c].path = p /\ resp'[c].r = off
          /\ resp'[c].cl = h[c].cl
      BY <3>1, <1>1, <2>2 DEF ReplyT
    <3>. QED BY <3>2, <3>3, <3>4
  <2>5. \A d \in Clients \ {c} : resp'[d] = resp[d] /\ h'[d] = h[d]
    <3>1. resp' = [resp EXCEPT ![c] = [resp[c] EXCEPT !.got = resp[c].got + (fl - h[c].sent),
                                                    !.fin = (fl >= Total(c))]]
      BY <2>1 DEF ReplyInv, TypeOK
    <3>. QED BY <2>1, <3>1 DEF ReplyInv, TypeOK
  <2>6. ReplyFaithful'
    <3>1. SUFFICES ASSUME NEW d \in Clients, resp'[d].obj
                   PROVE  /\ resp'[d].r + resp'[d].cl = Size[resp'[d].path]
                          /\ resp'[d].got <= resp'[d].cl
                          /\ resp'[d].fin => resp'[d].got = resp'[d].cl
      BY DEF ReplyFaithful
    <3>2. CASE d = c
      <4>1. fl - off <= Size[p] - off
        BY <1>1
      <4>2. fl >= Size[p] => fl - off = Size[p] - off
        BY <1>1
      <4>3. resp'[d].path = p /\ resp'[d].r = off /\ resp'[d].cl = Size[p] - off
            /\ resp'[d].got = fl - off /\ (resp'[d].fin => fl >= Size[p])
        BY <2>3, <2>4, <3>2
      <4>. QED BY <1>1, <3>1, <4>1, <4>2, <4>3
    <3>3. CASE d # c
      BY <2>5, <3>1, <3>3 DEF ReplyInv, ReplyFaithful
    <3>. QED BY <3>2, <3>3
  <2>7. CASE fl >= Total(c)
    <3>1. h'[c] = Reading
      BY <2>1, <2>7 DEF ReplyInv, TypeOK
    <3>2. h'[c].pc = "read"
      BY <3>1 DEF Reading, Waiting
    <3>. QED BY <2>0, <2>5, <2>6, <3>2, NotRecvFrame, NotStreamFrame DEF RestInv
  <2>8. CASE ~(fl >= Total(c))
    <3>1. h'[c] = [h[c] EXCEPT !.sent = fl]
      BY <2>1, <2>8 DEF ReplyInv, TypeOK
    <3>2. /\ h'[c].pc = "stream" /\ h'[c].path = p /\ h'[c].r = h[c].r
          /\ h'[c].cl = h[c].cl /\ h'[c].sent = fl
      <4>1. h[c] \in HandlerT
        BY DEF ReplyInv, TypeOK
      <4>. QED BY <3>1, <4>1, <1>2 DEF HandlerT
    <3>3. StreamLink'
      <4>1. SUFFICES ASSUME NEW d \in Clients, h'[d].pc = "stream", sock'[d] = "open"
                     PROVE  /\ resp'[d].obj
                            /\ ~resp'[d].fin
                            /\ resp'[d].path = h'[d].path
                            /\ resp'[d].r = Off(h'[d].r)
                            /\ resp'[d].cl = h'[d].cl
                            /\ resp'[d].got + Off(h'[d].r) = h'[d].sent
                            /\ h'[d].sent < Total(d)'
        BY DEF StreamLink
      <4>2. CASE d = c
        <5>1. Total(c)' = Total(c)
          BY <3>2 DEF Total
        <5>2. ~resp'[c].fin /\ fl < Total(c)
          <6>1. Total(c) \in Nat
            BY <1>1, <2>3, ConstAssumption
          <6>2. fl < Total(c)
            BY <1>1, <2>8, <6>1
          <6>3. ~resp'[c].fin
            BY <2>4, <2>8, Zenon
          <6>. QED BY <6>2, <6>3
        <5>. QED BY <1>1, <2>4, <3>2, <4>2, <5>1, <5>2
      <4>3. CASE d # c
        BY <2>0, <2>5, <4>1, <4>3 DEF ReplyInv, StreamLink, Total
      <4>. QED BY <4>2, <4>3
    <3>. QED BY <2>0, <2>5, <2>6, <3>2, <3>3, NotRecvFrame DEF RestInv
  <2>. QED BY <2>7, <2>8
<1>4. CASE sock[c] = "gone"
  <2>1. h' = [h EXCEPT ![c] = Reading] /\ UNCHANGED <<resp, job, sock>>
    BY <1>4 DEF StreamPass
  <2>2. h'[c].pc = "read"
    BY <2>1 DEF ReplyInv, TypeOK, Reading, Waiting
  <2>3. \A d \in Clients \ {c} : h'[d] = h[d] /\ resp'[d] = resp[d]
    BY <2>1 DEF ReplyInv, TypeOK
  <2>4. ReplyFaithful'
    BY <2>1 DEF ReplyInv, ReplyFaithful
  <2>. QED BY <2>1, <2>2, <2>3, <2>4, NotRecvFrame, NotStreamFrame DEF RestInv
<1>. QED BY <1>3, <1>4, <1>5 DEF StreamPass

\* A worker step: the message it sends, if the subscriber still waits, is
\* true of the subscriber's offset, and the job it leaves (if any) is the
\* same order for the same subscriber.
LEMMA WorkerRest ==
    ASSUME ReplyInv, NEW p \in Paths, NEW m \in Msgs,
           job[p].st # "none",
           Deliver(p, m) \/ UNCHANGED h,
           m.kind = "JobSize" => m.n + Off(job[p].r) = Size[p],
           \A q \in Paths : job'[q].st # "none" =>
                /\ job[q].st # "none"
                /\ job'[q].owner = job[q].owner
                /\ job'[q].r = job[q].r,
           UNCHANGED <<sock, resp>>
    PROVE  RestInv'
<1>. DEFINE o == job[p].owner
<1>1. o \in Clients
  BY DEF ReplyInv, TypeOK, JobT
<1>2. /\ \A d \in Clients \ {o} : h'[d] = h[d]
      /\ h'[o] = h[o] \/ (h[o].pc = "recv" /\ h[o].path = p /\ h'[o] = [h[o] EXCEPT !.msg = m])
  BY <1>1 DEF Deliver, ReplyInv, TypeOK
<1>3. \A d \in Clients : /\ h'[d].pc = h[d].pc /\ h'[d].path = h[d].path
                         /\ h'[d].r = h[d].r /\ h'[d].cl = h[d].cl
                         /\ h'[d].sent = h[d].sent
  BY <1>1, <1>2 DEF ReplyInv, TypeOK, HandlerT
<1>4. ReplyFaithful'
  BY DEF ReplyInv, ReplyFaithful
<1>5. JobLink'
  <2>1. SUFFICES ASSUME NEW q \in Paths, job'[q].st # "none",
                        h'[job'[q].owner].pc = "recv", h'[job'[q].owner].path = q
                 PROVE  h'[job'[q].owner].r = job'[q].r
    BY DEF JobLink
  <2>2. job[q].owner \in Clients
    BY DEF ReplyInv, TypeOK, JobT
  <2>. QED BY <1>3, <2>1, <2>2 DEF ReplyInv, JobLink
<1>6. SizeMsg'
  <2>1. SUFFICES ASSUME NEW d \in Clients, h'[d].pc = "recv", h'[d].msg.kind = "JobSize"
                 PROVE  h'[d].msg.n + Off(h'[d].r) = Size[h'[d].path]
    BY DEF SizeMsg
  <2>2. CASE h'[d] = h[d]
    BY <2>1, <2>2 DEF ReplyInv, SizeMsg
  <2>3. CASE h'[d] # h[d]
    <3>1. d = o /\ h[o].pc = "recv" /\ h[o].path = p /\ h'[o] = [h[o] EXCEPT !.msg = m]
      BY <1>2, <2>3
    <3>2. h[o].r = job[p].r
      BY <3>1 DEF ReplyInv, JobLink
    <3>3. h'[o].msg = m
      BY <3>1 DEF ReplyInv, TypeOK, HandlerT
    <3>. QED BY <1>3, <2>1, <3>1, <3>2, <3>3
  <2>. QED BY <2>2, <2>3
<1>7. StreamLink'
  BY <1>3 DEF ReplyInv, StreamLink, Total
<1>. QED BY <1>4, <1>5, <1>6, <1>7 DEF RestInv

LEMMA WorkerStepRest ==
    ASSUME ReplyInv, NEW p \in Paths, Worker(p)
    PROVE  RestInv'
<1>1. job[p] \in JobT
  BY DEF ReplyInv, TypeOK
<1>2. ASSUME Retire(p) PROVE \A q \in Paths : job'[q].st # "none" =>
                /\ job[q].st # "none" /\ job'[q].owner = job[q].owner
                /\ job'[q].r = job[q].r
  BY <1>2 DEF Retire, NoJob, ReplyInv, TypeOK
<1>3. Msg("Unavailable") \in Msgs /\ Msg("OrderError") \in Msgs
      /\ Msg("Failed") \in Msgs /\ Msg("Completed") \in Msgs
  BY DEF Msg, Msgs
<1>4. CASE WorkerRespond(p)
  <2>1. Off(job[p].r) \in 0..Size[p] /\ Size[p] \in Nat
    BY <1>1, <1>4, ConstAssumption DEF JobT, Off, WorkerRespond
  <2>2. [kind |-> "JobSize", n |-> Size[p] - Off(job[p].r)] \in Msgs
    BY <2>1 DEF Msgs
  <2>3. \A q \in Paths : job'[q].st # "none" =>
                /\ job[q].st # "none" /\ job'[q].owner = job[q].owner
                /\ job'[q].r = job[q].r
    BY <1>4 DEF WorkerRespond, ReplyInv, TypeOK, JobT
  <2>4. (Size[p] - Off(job[p].r)) + Off(job[p].r) = Size[p]
    BY <2>1
  <2>5. /\ job[p].st # "none"
        /\ Deliver(p, [kind |-> "JobSize", n |-> Size[p] - Off(job[p].r)])
        /\ UNCHANGED <<sock, resp>>
    BY <1>4 DEF WorkerRespond
  <2>. QED BY <2>2, <2>3, <2>4, <2>5, WorkerRest
<1>5. CASE WorkerNotFound(p)
  BY <1>2, <1>3, <1>5, WorkerRest DEF WorkerNotFound, Msg
<1>6. CASE WorkerRejected(p)
  BY <1>2, <1>3, <1>6, WorkerRest DEF WorkerRejected, Msg
<1>7. CASE WorkerRetry(p)
  <2>1. \A q \in Paths : job'[q].st # "none" =>
                /\ job[q].st # "none" /\ job'[q].owner = job[q].owner
                /\ job'[q].r = job[q].r
    BY <1>7 DEF WorkerRetry, NoByteYet, ReplyInv, TypeOK, JobT
  <2>2. job[p].st # "none"
    BY <1>7 DEF WorkerRetry, NoByteYet
  <2>. QED BY <1>3, <1>7, <2>1, <2>2, WorkerRest DEF WorkerRetry, Msg
<1>8. CASE WorkerFail(p)
  <2>1. job[p].st # "none"
    BY <1>8 DEF WorkerFail, NoByteYet
  <2>. QED BY <1>2, <1>3, <1>8, <2>1, WorkerRest DEF WorkerFail, Msg
<1>9. CASE WorkerWrite(p)
  BY <1>9 DEF WorkerWrite, RestInv, ReplyInv, ReplyFaithful, JobLink, SizeMsg,
              StreamLink, Total
<1>10. CASE WorkerComplete(p)
  BY <1>2, <1>3, <1>10, WorkerRest DEF WorkerComplete, Msg
<1>. QED BY <1>4, <1>5, <1>6, <1>7, <1>8, <1>9, <1>10 DEF Worker

LEMMA HandlerStepRest ==
    ASSUME OffsetsFit, ReplyInv, NEW c \in Clients, Handler(c)
    PROVE  RestInv'
<1>1. CASE ReadFails(c)
  <2>1. Idle.pc = "idle"
    BY DEF Idle, Waiting
  <2>. QED BY <1>1, <2>1, QuietRest DEF ReadFails, ReplyInv, TypeOK
<1>2. CASE ReadBadHeader(c)
  BY <1>2, BareRest DEF ReadBadHeader
<1>3. CASE ServeForbidden(c)
  BY <1>3, BareRest DEF ServeForbidden
<1>4. CASE ServeStatus(c)
  BY <1>4, BareRest DEF ServeStatus
<1>5. ASSUME NEW p \in Paths, NEW r \in Offsets \cup {NoRange},
             ScheduleCached(c, p, r)
      PROVE RestInv'
  BY <1>5, ScheduleCachedRest
<1>6. ASSUME NEW p \in Paths, NEW r \in Offsets \cup {NoRange},
             ScheduleUncacheable(c, p, r)
      PROVE RestInv'
  BY <1>6, BareRest DEF ScheduleUncacheable
<1>7. ASSUME NEW p \in Paths, NEW r \in Offsets \cup {NoRange},
             ScheduleInProgress(c, p, r)
      PROVE RestInv'
  <2>1. Waiting("poll", p, r).pc = "poll"
    BY DEF Waiting
  <2>. QED BY <1>7, <2>1, QuietRest DEF ScheduleInProgress
<1>8. ASSUME NEW p \in Paths, NEW r \in Offsets \cup {NoRange},
             ScheduleNew(c, p, r)
      PROVE RestInv'
  BY <1>8, ScheduleNewRest
<1>9. CASE PollFound(c)
  BY <1>9, PollFoundRest
<1>10. CASE PollMiss(c)
  <2>1. h' = [h EXCEPT ![c] = [h[c] EXCEPT !.polls = h[c].polls + 1]]
    BY <1>10 DEF PollMiss, ReplyInv, TypeOK
  <2>2. [h[c] EXCEPT !.polls = h[c].polls + 1].pc = "poll"
    BY <1>10 DEF PollMiss, ReplyInv, TypeOK, HandlerT
  <2>. QED BY <1>10, <2>1, <2>2, QuietRest DEF PollMiss
<1>11. CASE PollTimeout(c)
  BY <1>11, PanicRest DEF PollTimeout
<1>12. CASE RecvJobSize(c)
  BY <1>12, RecvJobSizeRest
<1>13. CASE RecvUnavailable(c)
  BY <1>13, BareRest DEF RecvUnavailable
<1>14. CASE RecvOrderError(c)
  BY <1>14, BareRest DEF RecvOrderError
<1>15. CASE RecvUnexpected(c)
  BY <1>15, PanicRest DEF RecvUnexpected
<1>16. CASE RecvTimeout(c)
  BY <1>16, PanicRest DEF RecvTimeout
<1>17. CASE StreamPass(c)
  BY <1>17, StreamPassRest
<1>. QED BY <1>1, <1>2, <1>3, <1>4, <1>5, <1>6, <1>7, <1>8, <1>9, <1>10,
            <1>11, <1>12, <1>13, <1>14, <1>15, <1>16, <1>17 DEF Handler

LEMMA ReplyInit == Init => ReplyInv
<1>. SUFFICES ASSUME Init PROVE ReplyInv
  OBVIOUS
<1>1. TypeOK /\ CacheSound
  BY InitInv DEF TypeInv
<1>2. \A c \in Clients : h[c].pc = "idle" /\ ~resp[c].obj
  BY DEF Init, Idle, Waiting, NoReply
<1>3. \A p \in Paths : job[p].st = "none"
  BY DEF Init, NoJob
<1>. QED BY <1>1, <1>2, <1>3 DEF ReplyInv, ReplyFaithful, JobLink, SizeMsg, StreamLink

LEMMA ReplyNext ==
    ASSUME OffsetsFit
    PROVE  ReplyInv /\ [Next]_vars => ReplyInv'
<1>. SUFFICES ASSUME ReplyInv, [Next]_vars PROVE ReplyInv'
  OBVIOUS
<1>1. TypeOK' /\ CacheSound'
  BY NextInv DEF ReplyInv, TypeInv
<1>2. RestInv'
  <2>1. ASSUME NEW c \in Clients, Accept(c) PROVE RestInv'
    <3>1. Reading.pc = "read"
      BY DEF Reading, Waiting
    <3>. QED BY <2>1, <3>1, QuietRest DEF Accept, ReplyInv, TypeOK
  <2>2. ASSUME NEW c \in Clients, Disconnect(c) PROVE RestInv'
    <3>1. sock' = [sock EXCEPT ![c] = "gone"] /\ UNCHANGED <<job, h, resp>>
      BY <2>2 DEF Disconnect
    <3>2. StreamLink'
      BY <3>1 DEF ReplyInv, StreamLink, TypeOK, Total
    <3>. QED BY <3>1, <3>2 DEF RestInv, ReplyInv, ReplyFaithful, JobLink, SizeMsg
  <2>3. ASSUME NEW c \in Clients, Handler(c) PROVE RestInv'
    BY <2>3, HandlerStepRest
  <2>4. ASSUME NEW p \in Paths, Worker(p) PROVE RestInv'
    BY <2>4, WorkerStepRest
  <2>5. CASE Restart \/ UNCHANGED vars
    BY <2>5 DEF Restart, vars, RestInv, ReplyInv, ReplyFaithful, JobLink, SizeMsg,
                StreamLink, Total
  <2>. QED BY <2>1, <2>2, <2>3, <2>4, <2>5 DEF Next
<1>. QED BY <1>1, <1>2 DEF ReplyInv, RestInv

(* Every object reply is faithful, for every instance: the Content-Length  *)
(* of a 200/206 header, whether serve_from_complete_file took it from the  *)
(* file, receive_content_length from the worker's JobSize, or              *)
(* try_complete_filesize_from_path from the size attribute, is the size of *)
(* the object from the resume offset on; serve_from_growing_file never     *)
(* sends more, and a reply it finishes carried all of it.  The hypothesis  *)
(* is spec 8.6's "r <= size": the range_past_end run shows that a Range    *)
(* past the end breaks it.                                                 *)
THEOREM ReplyFaithfulInv ==
    ASSUME OffsetsFit
    PROVE  Spec => []ReplyFaithful
<1>1. ReplyInv => ReplyFaithful
  BY DEF ReplyInv
<1>2. ReplyInv /\ [Next]_vars => ReplyInv'
  BY ReplyNext
<1>. QED BY <1>1, <1>2, ReplyInit, PTL DEF Spec

(* The links behind faithful replies hold in every reachable state when    *)
(* offsets fit: a registered job carries its subscriber's Range, a JobSize *)
(* the handler holds is the object's size from its offset, and a stream    *)
(* under way agrees with the header its client received.                   *)
THEOREM ReplyInvariant ==
    ASSUME OffsetsFit
    PROVE  Spec => []ReplyInv
<1>1. ReplyInv /\ [Next]_vars => ReplyInv'
  BY ReplyNext
<1>. QED BY <1>1, ReplyInit, PTL DEF Spec

=============================================================================
