----------------------------- MODULE FlexoServe -----------------------------
(***************************************************************************)
(* The request path of the flexo caching proxy: the per-connection handler *)
(* serve_client of src/flexo/src/main.rs, with the three ways it serves an *)
(* object (complete file, growing file after a channel message, growing    *)
(* file after polling the size attribute), composed with the job registry  *)
(* and the download worker that fill the on-disk cache.                    *)
(*                                                                         *)
(* The registry (try_schedule) and the worker live in the flexo library,   *)
(* which is not under src/; they are modelled from the specification.      *)
(* A panic in any thread exits the whole process (main.rs 45-50): memory   *)
(* state is lost, the cache files and their size attribute persist, and    *)
(* the process may be started again.                                       *)
(***************************************************************************)
EXTENDS Integers

CONSTANTS
    Paths,       \* object paths a client may request
    Clients,     \* client connections (one handler thread each)
    Size,        \* Size[p]: the full size in bytes of object p upstream
    Offsets,     \* resume offsets a client may send in "Range: bytes=r-"
    NoRange,     \* the absent Range header (resume_from = None)
    Uncacheable, \* the paths the scheduler serves by redirect
    NProviders,  \* number of mirrors in the provider pool
    PollLimit,   \* attempts of try_complete_filesize_from_path (2_000 * 2)
    Word         \* 2^64: sizes and offsets are u64, which wrap in a release build

ASSUME ConstAssumption ==
    /\ Size \in [Paths -> Nat]
    /\ Offsets \subseteq Nat
    /\ Word \in Nat \ {0}
    /\ \A p \in Paths : Size[p] < Word
    /\ \A r \in Offsets : r < Word
    /\ NoRange \notin Nat
    /\ Uncacheable \subseteq Paths
    /\ NProviders \in Nat \ {0}
    /\ PollLimit \in Nat \ {0}
    /\ Clients # {}
    /\ Paths # {}

\* Every resume offset a client may send is within every object (spec 8.6
\* promises a faithful 206 "for any resume_from r <= size").  An instance
\* need not satisfy it: clients may ask for a Range past the end.
OffsetsFit == \A r \in Offsets, p \in Paths : r <= Size[p]

VARIABLES
    up,      \* the process is running
    crash,   \* the cause of the last panic that exited the process, or "none"
    job,     \* job[p]: the registry entry and worker of path p
    fexists, \* fexists[p]: the cache file of p exists
    flen,    \* flen[p]: its length on disk
    xattr,   \* xattr[p]: its user.content_length attribute, or NoAttr
    h,       \* h[c]: the state of the handler thread of connection c
    sock,    \* sock[c]: "none", "open", or "gone" (closed by the client)
    resp,    \* resp[c]: the last reply header c received, and its payload
    wire     \* wire[c]: what precedes the next reply on c's connection

vars == <<up, crash, job, fexists, flen, xattr, h, sock, resp, wire>>

-----------------------------------------------------------------------------
NoAttr == -1

\* resume_from.unwrap_or(0)
Off(r) == IF r = NoRange THEN 0 ELSE r

\* u64 subtraction and addition as a release build computes them (no
\* overflow checks: the result wraps modulo 2^64).
U64Sub(a, b) == (a - b) % Word
U64Add(a, b) == (a + b) % Word

\* send_payload: sendfile in chunks of at most MAX_SENDFILE_COUNT from the
\* offset bytes_sent while it is below filesize; returns the final offset.
SendPayload(filesize, bytesSent) ==
    IF bytesSent < filesize THEN filesize ELSE bytesSent

\* reply_header of a 206: "Content-Range: bytes r-last_byte/complete_size"
\* with complete_size = content_length + r and last_byte = complete_size - 1.
ContentRange(cl, r) ==
    [first |-> r, last |-> U64Sub(U64Add(cl, r), 1), total |-> U64Add(cl, r)]

\* reply_header_success (200) or reply_header_partial (206)
OkStatus(r) == IF r = NoRange THEN 200 ELSE 206

Msgs == [kind : {"JobSize", "Unavailable", "OrderError", "Failed", "Completed"},
         n : Nat]
NoMsg == [kind |-> "none", n |-> 0]
Msg(k) == [kind |-> k, n |-> 0]

AnyClient == CHOOSE c \in Clients : TRUE
AnyPath == CHOOSE p \in Paths : TRUE

NoJob == [st |-> "none", owner |-> AnyClient, r |-> NoRange, tries |-> 0, start |-> 0]

\* h[c].msg is the first message on the progress channel the handler holds
\* while it waits in receive_content_length, or NoMsg.
Waiting(pc, p, r) == [pc |-> pc, path |-> p, r |-> r, cl |-> 0, sent |-> 0,
                      polls |-> 0, msg |-> NoMsg]

Idle == Waiting("idle", AnyPath, NoRange)

\* Back at the top of serve_client's loop, reading the next header.
Reading == Waiting("read", AnyPath, NoRange)

NoReply == [st |-> 0, obj |-> FALSE, path |-> AnyPath, r |-> 0, cl |-> 0, got |-> 0, fin |-> FALSE]

\* A reply header without an object body (403, 400, 404, 301, /status).
Bare(code) == [st |-> code, obj |-> FALSE, path |-> AnyPath, r |-> 0, cl |-> 0,
               got |-> 0, fin |-> TRUE]

\* serve_404_header, serve_400_header and serve_403_header write "\r\n"
\* after the header, which already ends with its empty line and announces
\* Content-Length: 0; serve_200_ok_empty, the redirect and the object
\* headers do not.  On a persistent connection those two bytes precede the
\* next reply: "clean", "crlf", or "garbled" once a reply followed them.
WireT == {"clean", "crlf", "garbled"}
Trail(reply) == IF reply.st \in {400, 403, 404} THEN "crlf" ELSE "clean"

\* Complete iff the content_length attribute is present and equals the length.
Complete(p) == fexists[p] /\ xattr[p] # NoAttr /\ flen[p] = xattr[p]

\* Total offset the growing-file loop runs to: content_length + resume_from.
Total(c) == U64Add(h[c].cl, Off(h[c].r))

Causes == {"client_gone", "poll_timeout", "recv_timeout", "unexpected_msg",
           "stream_error", "no_file"}

JobT == [st : {"none", "pending", "running"}, owner : Clients,
         r : Offsets \cup {NoRange}, tries : 0..NProviders, start : Nat]

HandlerT == [pc : {"idle", "read", "poll", "recv", "stream"}, path : Paths,
             r : Offsets \cup {NoRange}, cl : Nat, sent : Nat,
             polls : 0..PollLimit, msg : Msgs \cup {NoMsg}]

ReplyT == [st : {0, 200, 206, 301, 400, 403, 404}, obj : BOOLEAN,
           path : Paths, r : Nat, cl : Nat, got : Nat, fin : BOOLEAN]

SockT == {"none", "open", "gone"}

TypeOK ==
    /\ up \in BOOLEAN
    /\ crash \in Causes \cup {"none"}
    /\ job \in [Paths -> JobT]
    /\ fexists \in [Paths -> BOOLEAN]
    /\ flen \in [Paths -> Nat]
    /\ xattr \in [Paths -> Nat \cup {NoAttr}]
    /\ h \in [Clients -> HandlerT]
    /\ sock \in [Clients -> SockT]
    /\ resp \in [Clients -> ReplyT]
    /\ wire \in [Clients -> WireT]

-----------------------------------------------------------------------------
(* The disk states an earlier run can leave behind: no file; a file created *)
(* before its size was known (empty, no attribute); or a prefix of the     *)
(* object with the attribute the worker wrote before its first byte.       *)
DiskOK(p) ==
    /\ ~fexists[p] => flen[p] = 0 /\ xattr[p] = NoAttr
    /\ xattr[p] = NoAttr => flen[p] = 0
    /\ xattr[p] # NoAttr => xattr[p] = Size[p]
    /\ flen[p] <= Size[p]

\* The size attribute, once written, is the object's size; a file is never
\* longer than the object; a running worker has created the file and
\* written the attribute.  Init's disk states and every step keep this.
CacheSound ==
    \A p \in Paths :
        /\ DiskOK(p)
        /\ job[p].st = "running" => xattr[p] = Size[p]

Init ==
    /\ up = TRUE
    /\ crash = "none"
    /\ job = [p \in Paths |-> NoJob]
    /\ fexists \in [Paths -> BOOLEAN]
    /\ flen \in [Paths -> UNION {0..Size[p] : p \in Paths}]
    /\ xattr \in [Paths -> {NoAttr} \cup {Size[p] : p \in Paths}]
    /\ \A p \in Paths : DiskOK(p)
    /\ h = [c \in Clients |-> Idle]
    /\ sock = [c \in Clients |-> "none"]
    /\ resp = [c \in Clients |-> NoReply]
    /\ wire = [c \in Clients |-> "clean"]

-----------------------------------------------------------------------------
(* The panic hook: any panic exits the process.  Threads, channels and the *)
(* registry are gone, every connection is closed; the cache stays.         *)
Panic(cause) ==
    /\ up' = FALSE
    /\ crash' = cause
    /\ job' = [p \in Paths |-> NoJob]
    /\ h' = [c \in Clients |-> Idle]
    /\ sock' = [c \in Clients |-> "none"]
    /\ UNCHANGED <<fexists, flen, xattr, resp, wire>>

(* stream.write_all(header).unwrap(): the client sees the reply if it is   *)
(* connected; if it has gone, the write is lost or fails and panics.       *)
Reply(c, reply, hNext, sockNext) ==
    \/ /\ sock[c] = "open"
       /\ resp' = [resp EXCEPT ![c] = reply]
       /\ wire' = [wire EXCEPT ![c] = IF @ = "clean" THEN Trail(reply)
                                                     ELSE "garbled"]
       /\ h' = [h EXCEPT ![c] = hNext]
       /\ sock' = [sock EXCEPT ![c] = sockNext]
       /\ UNCHANGED <<up, crash, job, fexists, flen, xattr>>
    \/ /\ sock[c] = "gone"
       /\ h' = [h EXCEPT ![c] = hNext]
       /\ sock' = [sock EXCEPT ![c] = sockNext]
       /\ UNCHANGED <<up, crash, job, fexists, flen, xattr, resp, wire>>
    \/ /\ sock[c] = "gone"
       /\ Panic("client_gone")

(* serve_from_growing_file, header part: the header announces cl bytes; the *)
(* loop runs while client_received (from resume_from) < cl + resume_from,  *)
(* a u64 sum; when it does not run the request is served at once.          *)
GrowingHeader(c, p, r, cl) ==
    LET done == Off(r) >= U64Add(cl, Off(r)) IN
    Reply(c, [st |-> OkStatus(r), obj |-> TRUE, path |-> p, r |-> Off(r),
              cl |-> cl, got |-> 0, fin |-> done],
          IF done THEN Reading
                  ELSE [pc |-> "stream", path |-> p, r |-> r, cl |-> cl,
                        sent |-> Off(r), polls |-> 0, msg |-> NoMsg],
          sock[c])

\* File::open(&path).unwrap() before serve_from_growing_file (main.rs 117
\* and 127): a missing cache file panics.
OpenGrowing(c, p, r, cl) ==
    IF fexists[p] THEN GrowingHeader(c, p, r, cl) ELSE Panic("no_file")

-----------------------------------------------------------------------------
(* Client side and process life cycle.                                     *)

\* main: listener.incoming() accepts a connection and spawns serve_client.
Accept(c) ==
    /\ up
    /\ sock[c] = "none"
    /\ h[c].pc = "idle"
    /\ sock' = [sock EXCEPT ![c] = "open"]
    /\ h' = [h EXCEPT ![c] = Reading]
    /\ wire' = [wire EXCEPT ![c] = "clean"]
    /\ UNCHANGED <<up, crash, job, fexists, flen, xattr, resp>>

\* The client closes its end of the connection at any moment.
Disconnect(c) ==
    /\ sock[c] = "open"
    /\ sock' = [sock EXCEPT ![c] = "gone"]
    /\ UNCHANGED <<up, crash, job, fexists, flen, xattr, h, resp, wire>>

\* The process is started again on the cache it left (initialize_job_context).
Restart ==
    /\ ~up
    /\ up' = TRUE
    /\ UNCHANGED <<crash, job, fexists, flen, xattr, h, sock, resp, wire>>

-----------------------------------------------------------------------------
(* serve_client: one iteration of the persistent-connection loop.          *)

\* read_client_header fails: socket closed or reset by the client, or the
\* 10 s read timeout; the handler shuts the socket down and returns.
ReadFails(c) ==
    /\ h[c].pc = "read"
    /\ h' = [h EXCEPT ![c] = Idle]
    /\ sock' = [sock EXCEPT ![c] = "none"]
    /\ UNCHANGED <<up, crash, job, fexists, flen, xattr, resp, wire>>

\* Malformed header or unsupported method: 400, then shutdown.
ReadBadHeader(c) ==
    /\ h[c].pc = "read"
    /\ Reply(c, Bare(400), Idle, "none")

\* A path with a component other than Normal or RootDir: 403.
ServeForbidden(c) ==
    /\ h[c].pc = "read"
    /\ Reply(c, Bare(403), Reading, sock[c])

\* GET /status: 200 with an empty body.
ServeStatus(c) ==
    /\ h[c].pc = "read"
    /\ Reply(c, Bare(200), Reading, sock[c])

\* GET of an object, first three outcomes of try_schedule under the lock.
\* Variant: Content-Length taken as the file size, ignoring resume_from.
ScheduleCachedNoResume(c, p, r) ==
    /\ h[c].pc = "read"
    /\ Complete(p)
    /\ Reply(c, [st |-> OkStatus(r), obj |-> TRUE, path |-> p, r |-> Off(r),
                 cl |-> flen[p], got |-> SendPayload(flen[p], Off(r)) - Off(r),
                 fin |-> TRUE],
             Reading, sock[c])

ScheduleCached(c, p, r) ==
    /\ h[c].pc = "read"
    /\ Complete(p)
    \* serve_from_complete_file: header, then send_payload(..).unwrap()
    /\ Reply(c, [st |-> OkStatus(r), obj |-> TRUE, path |-> p, r |-> Off(r),
                 cl |-> U64Sub(flen[p], Off(r)),
                 got |-> SendPayload(flen[p], Off(r)) - Off(r), fin |-> TRUE],
             Reading, sock[c])

ScheduleUncacheable(c, p, r) ==
    /\ h[c].pc = "read"
    /\ ~Complete(p)
    /\ p \in Uncacheable
    /\ Reply(c, Bare(301), Reading, sock[c])

ScheduleInProgress(c, p, r) ==
    /\ h[c].pc = "read"
    /\ ~Complete(p)
    /\ p \notin Uncacheable
    /\ job[p].st # "none"
    /\ h' = [h EXCEPT ![c] = Waiting("poll", p, r)]
    /\ UNCHANGED <<up, crash, job, fexists, flen, xattr, sock, resp, wire>>

\* Variant: the order handed to the worker drops the client's Range.
ScheduleNewNoRange(c, p, r) ==
    /\ h[c].pc = "read"
    /\ ~Complete(p)
    /\ p \notin Uncacheable
    /\ job[p].st = "none"
    /\ job' = [job EXCEPT ![p] = [st |-> "pending", owner |-> c, r |-> NoRange,
                                  tries |-> 0, start |-> 0]]
    /\ h' = [h EXCEPT ![c] = Waiting("recv", p, r)]
    /\ UNCHANGED <<up, crash, fexists, flen, xattr, sock, resp, wire>>

\* Fourth outcome: a new job is registered, its worker spawned, and the
\* handler keeps the receiving end of its progress channel.
ScheduleNew(c, p, r) ==
    /\ h[c].pc = "read"
    /\ ~Complete(p)
    /\ p \notin Uncacheable
    /\ job[p].st = "none"
    /\ job' = [job EXCEPT ![p] = [st |-> "pending", owner |-> c, r |-> r,
                                  tries |-> 0, start |-> 0]]
    /\ h' = [h EXCEPT ![c] = Waiting("recv", p, r)]
    /\ UNCHANGED <<up, crash, fexists, flen, xattr, sock, resp, wire>>

-----------------------------------------------------------------------------
(* AlreadyInProgress: try_complete_filesize_from_path polls the attribute. *)

\* Variant: the complete size announced without subtracting resume_from.
PollFoundNoResume(c) ==
    /\ h[c].pc = "poll"
    /\ xattr[h[c].path] # NoAttr
    /\ OpenGrowing(c, h[c].path, h[c].r, xattr[h[c].path])

PollFound(c) ==
    /\ h[c].pc = "poll"
    /\ xattr[h[c].path] # NoAttr
    /\ OpenGrowing(c, h[c].path, h[c].r, U64Sub(xattr[h[c].path], Off(h[c].r)))

\* Variant: the poll loop without its attempt bound.
PollMissUnbounded(c) ==
    /\ h[c].pc = "poll"
    /\ xattr[h[c].path] = NoAttr
    /\ h' = [h EXCEPT ![c].polls = @ + 1]
    /\ UNCHANGED <<up, crash, job, fexists, flen, xattr, sock, resp, wire>>

PollMiss(c) ==
    /\ h[c].pc = "poll"
    /\ xattr[h[c].path] = NoAttr
    /\ h[c].polls + 1 < PollLimit
    /\ h' = [h EXCEPT ![c].polls = @ + 1]
    /\ UNCHANGED <<up, crash, job, fexists, flen, xattr, sock, resp, wire>>

\* The poll gives up and the caller unwraps None.
PollTimeout(c) ==
    /\ h[c].pc = "poll"
    /\ xattr[h[c].path] = NoAttr
    /\ h[c].polls + 1 = PollLimit
    /\ Panic("poll_timeout")

-----------------------------------------------------------------------------
(* Scheduled: receive_content_length on the job's channel, 5 s timeout.    *)

RecvJobSize(c) ==
    /\ h[c].pc = "recv"
    /\ h[c].msg.kind = "JobSize"
    /\ OpenGrowing(c, h[c].path, h[c].r, h[c].msg.n)

RecvUnavailable(c) ==
    /\ h[c].pc = "recv"
    /\ h[c].msg.kind = "Unavailable"
    /\ Reply(c, Bare(404), Reading, sock[c])

RecvOrderError(c) ==
    /\ h[c].pc = "recv"
    /\ h[c].msg.kind = "OrderError"
    /\ Reply(c, Bare(400), Reading, sock[c])

\* Ok(msg) => panic!("Unexpected message")
RecvUnexpected(c) ==
    /\ h[c].pc = "recv"
    /\ h[c].msg.kind \in {"Failed", "Completed"}
    /\ Panic("unexpected_msg")

\* Err(RecvTimeoutError::Timeout) falls into Err(e) => panic!
RecvTimeout(c) ==
    /\ h[c].pc = "recv"
    /\ h[c].msg = NoMsg
    /\ Panic("recv_timeout")

\* Variant: the loop runs while client_received <= complete_filesize, so
\* reaching the end is not the end of the response.
StreamPassLateEnd(c) ==
    LET p == h[c].path
        received == SendPayload(flen[p], h[c].sent)
    IN
    /\ h[c].pc = "stream"
    /\ flen[p] > h[c].sent
    /\ sock[c] = "open"
    /\ resp' = [resp EXCEPT ![c].got = @ + (received - h[c].sent),
                            ![c].fin = received > Total(c)]
    /\ h' = [h EXCEPT ![c] = IF received > Total(c) THEN Reading
                             ELSE [@ EXCEPT !.sent = received]]
    /\ UNCHANGED <<up, crash, job, fexists, flen, xattr, sock, wire>>

-----------------------------------------------------------------------------
(* serve_from_growing_file: one pass of the loop that finds new bytes.     *)
(* send_payload sends [client_received, filesize) of the stat-ed length.   *)
StreamPass(c) ==
    LET p == h[c].path
        received == SendPayload(flen[p], h[c].sent)
    IN
    /\ h[c].pc = "stream"
    /\ flen[p] > h[c].sent
    /\ \/ /\ sock[c] = "open"
          /\ resp' = [resp EXCEPT ![c].got = @ + (received - h[c].sent),
                                  ![c].fin = received >= Total(c)]
          /\ h' = [h EXCEPT ![c] = IF received >= Total(c) THEN Reading
                                   ELSE [@ EXCEPT !.sent = received]]
          /\ UNCHANGED <<up, crash, job, fexists, flen, xattr, sock, wire>>
       \* BrokenPipe or ConnectionReset: return to serve_client
       \/ /\ sock[c] = "gone"
          /\ h' = [h EXCEPT ![c] = Reading]
          /\ UNCHANGED <<up, crash, job, fexists, flen, xattr, sock, resp, wire>>
       \* any other error of sendfile (ETIMEDOUT from a peer that vanished
       \* without a reset, EIO on the cache file): panic!("Unexpected error")
       \/ /\ sock[c] = "open"
          /\ Panic("stream_error")

-----------------------------------------------------------------------------
(* The download worker of path p (flexo library, from the specification). *)

\* Send to the job's channel: only the first message is read, and once the
\* handler has stopped receiving, the receiver is dropped and sends fail.
Deliver(p, m) ==
    LET o == job[p].owner IN
    IF h[o].pc = "recv" /\ h[o].path = p /\ h[o].msg = NoMsg
    THEN h' = [h EXCEPT ![o].msg = m]
    ELSE UNCHANGED h

Retire(p) == job' = [job EXCEPT ![p] = NoJob]

\* Variant: the size is announced before the cache file is created.
WorkerRespondNoCreate(p) ==
    /\ job[p].st = "pending"
    /\ Off(job[p].r) <= Size[p]
    /\ xattr' = [xattr EXCEPT ![p] = Size[p]]
    /\ job' = [job EXCEPT ![p].st = "running", ![p].start = flen[p]]
    /\ Deliver(p, [kind |-> "JobSize", n |-> Size[p] - Off(job[p].r)])
    /\ UNCHANGED <<up, crash, fexists, flen, sock, resp, wire>>

\* 2xx: the file is opened for appending (created if missing), the transfer
\* resumes at its length, content_length is written, then JobSize(remaining).
WorkerRespond(p) ==
    /\ job[p].st = "pending"
    /\ Off(job[p].r) <= Size[p]
    /\ fexists' = [fexists EXCEPT ![p] = TRUE]
    /\ xattr' = [xattr EXCEPT ![p] = Size[p]]
    /\ job' = [job EXCEPT ![p].st = "running", ![p].start = flen[p]]
    /\ Deliver(p, [kind |-> "JobSize", n |-> Size[p] - Off(job[p].r)])
    /\ UNCHANGED <<up, crash, flen, sock, resp, wire>>

WorkerNotFound(p) ==
    /\ job[p].st = "pending"
    /\ Deliver(p, Msg("Unavailable"))
    /\ Retire(p)
    /\ UNCHANGED <<up, crash, fexists, flen, xattr, sock, resp, wire>>

WorkerRejected(p) ==
    /\ job[p].st = "pending"
    /\ Deliver(p, Msg("OrderError"))
    /\ Retire(p)
    /\ UNCHANGED <<up, crash, fexists, flen, xattr, sock, resp, wire>>

\* No byte of this job written yet: a transport error or 5xx may fail over.
NoByteYet(p) ==
    \/ job[p].st = "pending"
    \/ job[p].st = "running" /\ flen[p] = job[p].start /\ flen[p] < Size[p]

WorkerRetry(p) ==
    /\ NoByteYet(p)
    /\ job[p].tries + 1 < NProviders
    /\ job' = [job EXCEPT ![p].st = "pending", ![p].tries = @ + 1]
    /\ UNCHANGED <<up, crash, fexists, flen, xattr, h, sock, resp, wire>>

\* Providers exhausted, or a failure after bytes were written: Failed.
WorkerFail(p) ==
    /\ \/ NoByteYet(p) /\ job[p].tries + 1 = NProviders
       \/ job[p].st = "running" /\ job[p].start < flen[p] /\ flen[p] < Size[p]
    /\ Deliver(p, Msg("Failed"))
    /\ Retire(p)
    /\ UNCHANGED <<up, crash, fexists, flen, xattr, sock, resp, wire>>

WorkerWrite(p) ==
    /\ job[p].st = "running"
    /\ flen[p] < Size[p]
    /\ flen' = [flen EXCEPT ![p] = @ + 1]
    /\ UNCHANGED <<up, crash, job, fexists, xattr, h, sock, resp, wire>>

WorkerComplete(p) ==
    /\ job[p].st = "running"
    /\ flen[p] = Size[p]
    /\ Deliver(p, Msg("Completed"))
    /\ Retire(p)
    /\ UNCHANGED <<up, crash, fexists, flen, xattr, sock, resp, wire>>

-----------------------------------------------------------------------------
Handler(c) ==
    \/ ReadFails(c) \/ ReadBadHeader(c) \/ ServeForbidden(c) \/ ServeStatus(c)
    \/ \E p \in Paths, r \in Offsets \cup {NoRange} :
          \/ ScheduleCached(c, p, r) \/ ScheduleUncacheable(c, p, r)
          \/ ScheduleInProgress(c, p, r) \/ ScheduleNew(c, p, r)
    \/ PollFound(c) \/ PollMiss(c) \/ PollTimeout(c)
    \/ RecvJobSize(c) \/ RecvUnavailable(c) \/ RecvOrderError(c)
    \/ RecvUnexpected(c) \/ RecvTimeout(c)
    \/ StreamPass(c)

Worker(p) ==
    \/ WorkerRespond(p) \/ WorkerNotFound(p) \/ WorkerRejected(p)
    \/ WorkerRetry(p) \/ WorkerFail(p) \/ WorkerWrite(p) \/ WorkerComplete(p)

Next ==
    \/ \E c \in Clients : Accept(c) \/ Disconnect(c) \/ Handler(c)
    \/ \E p \in Paths : Worker(p)
    \/ Restart

Spec == Init /\ [][Next]_vars

\* Handler threads are preemptively scheduled OS threads (main.rs 72-77),
\* and each of their waits ends: the poll has its attempt bound and the
\* channel its 5 s recv timeout.  The worker is left without fairness: it
\* waits on the upstream mirror, and nothing bounds that wait (the low-speed
\* guard is optional, main.rs 53-58).
Fairness == \A c \in Clients : WF_vars(Handler(c))

FairSpec == Spec /\ Fairness

-----------------------------------------------------------------------------
(* Properties.                                                             *)

(* Every object reply a client receives is faithful to the object: the     *)
(* header's Content-Length is the size of the object from the resume       *)
(* offset on, whichever of the three branches built it (Cached: file size, *)
(* Scheduled: the JobSize message, AlreadyInProgress: the size attribute); *)
(* the payload never exceeds it; and a reply the handler finished carried  *)
(* all of it.  This is what serve_from_growing_file and                    *)
(* serve_from_complete_file must get right, across restarts on a partial   *)
(* cache and concurrent jobs.                                              *)
ReplyFaithful ==
    \A c \in Clients : resp[c].obj =>
        /\ resp[c].r + resp[c].cl = Size[resp[c].path]
        /\ resp[c].got <= resp[c].cl
        /\ resp[c].fin => resp[c].got = resp[c].cl

(* What client c sees of its last reply: an object response with its    *)
(* path, offset, Content-Length and the bytes it received, or a response   *)
(* without a body, whatever its status.                                    *)
ClientView ==
    [c \in Clients |->
        IF resp[c].obj
        THEN [obj |-> TRUE, path |-> resp[c].path, r |-> resp[c].r,
              cl |-> resp[c].cl, got |-> resp[c].got, fin |-> resp[c].fin]
        ELSE [obj |-> FALSE, path |-> AnyPath, r |-> 0, cl |-> 0, got |-> 0,
              fin |-> TRUE]]

Client == INSTANCE ClientSpec WITH view <- ClientView

(* flexo implements ClientSpec: every object reply announces the size from *)
(* the offset on (serve_from_complete_file, and serve_from_growing_file    *)
(* after JobSize or the polled attribute).  The complete-file branch sends *)
(* the whole body with the header.  The growing-file loop then only adds  *)
(* bytes to an unfinished reply: each send_payload pass sends at least one *)
(* byte, never past Content-Length, and the loop ends exactly when the     *)
(* reply is complete.                                                      *)
ClientRefinement == Client!Spec

(* On a persistent connection every reply starts where the previous one  *)
(* ended: its header is preceded by no stray bytes (spec 6 fixes the reply *)
(* header's exact shape, and a Content-Length of 0 says nothing follows).  *)
(* It is about serve_403_header, serve_404_header and serve_400_header,    *)
(* whose extra "\r\n" (main.rs 348) the client reads before the reply to *)
(* its next request on the same connection.                                *)
ResponsesFramed == \A c \in Clients : wire[c] # "garbled"

(* The cache file a growing-file reply opens exists when it is opened:    *)
(* the worker creates it before it writes the size attribute a poller     *)
(* reads or sends the JobSize a subscriber receives, and a partial file   *)
(* kept across a restart still carries both.  It is about the             *)
(* File::open(..).unwrap() of main.rs 117 and 127 in serve_client.         *)
FileOpens == crash # "no_file"

(* A client that closes its connection never brings the process down       *)
(* (spec: a client disconnect silently abandons that request only).        *)
NoPanicOnClientGone == crash # "client_gone"

(* A size poll that times out answers 500 (spec 4.6) and does not exit the *)
(* process: the unwrap of try_complete_filesize_from_path never panics.    *)
PollTimeoutAnswered == crash # "poll_timeout"

(* A Failed job answers its subscriber 500 (spec 4.6, 7): the handler's    *)
(* receive_content_length never panics on the message it receives.         *)
FailedAnswered == crash # "unexpected_msg"

(* A scheduled request waiting on its job's first message is answered,    *)
(* not the process exited, when the 5 s recv_timeout of                    *)
(* receive_content_length expires while the worker is still connecting or *)
(* failing over (spec 5 names the timeout, spec 7 answers a slow or failed *)
(* upstream with a JobSize or a 500, never a process exit).                *)
RecvTimeoutAnswered == crash # "recv_timeout"

(* Only a closed connection (BrokenPipe, ConnectionReset) ends a stream    *)
(* early; any other I/O error of the transfer is fatal to this request    *)
(* only (spec 4.6 step 4): serve_from_growing_file never panics.           *)
StreamErrorAnswered == crash # "stream_error"

(* A 206 reply's Content-Range names a byte range inside the object:      *)
(* first <= last < total, and total is the object's size (RFC 7233, spec  *)
(* 6's "bytes <start>-<end>/<total>"), as reply_header computes it from   *)
(* content_length and resume_from.                                         *)
ContentRangeValid ==
    \A c \in Clients : resp[c].st = 206 =>
        LET cr == ContentRange(resp[c].cl, resp[c].r) IN
        /\ cr.first <= cr.last
        /\ cr.last < cr.total
        /\ cr.total = Size[resp[c].path]

(* Every reply streamed from a growing file ends (spec 7: subscribers of a *)
(* job that fails after writing bytes eventually time out).                *)
StreamEnds == \A c \in Clients : h[c].pc = "stream" ~> h[c].pc # "stream"

-----------------------------------------------------------------------------
(* The strengthening of ReplyFaithful that every step keeps.               *)

\* The job of p remembers the Range its subscriber asked for (the order
\* try_schedule hands to the worker is the handler's own resume_from).
JobLink ==
    \A p \in Paths :
        LET o == job[p].owner IN
        job[p].st # "none" /\ h[o].pc = "recv" /\ h[o].path = p
            => h[o].r = job[p].r

\* A JobSize message announces the object's size from the handler's offset.
SizeMsg ==
    \A c \in Clients :
        h[c].pc = "recv" /\ h[c].msg.kind = "JobSize"
            => h[c].msg.n + Off(h[c].r) = Size[h[c].path]

\* While a handler streams to a connected client, the reply the client holds
\* is the header it sent plus the bytes client_received counts, short of
\* the end: resp and the loop's locals describe the same transfer.
StreamLink ==
    \A c \in Clients :
        h[c].pc = "stream" /\ sock[c] = "open" =>
            /\ resp[c].obj
            /\ ~resp[c].fin
            /\ resp[c].path = h[c].path
            /\ resp[c].r = Off(h[c].r)
            /\ resp[c].cl = h[c].cl
            /\ resp[c].got + Off(h[c].r) = h[c].sent
            /\ h[c].sent < Total(c)

(* The inductive invariant of the reply proof: replies are faithful, and   *)
(* so is everything a later reply is built from (the cache, the job's      *)
(* order, the channel message, a stream under way).                        *)
ReplyInv ==
    /\ TypeOK /\ CacheSound /\ ReplyFaithful
    /\ JobLink /\ SizeMsg /\ StreamLink

=============================================================================
