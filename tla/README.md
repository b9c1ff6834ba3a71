# Formal model of the flexo request path

This directory holds TLA+ models of flexo, the caching proxy for pacman mirrors.
TLC model-checks them on small instances, and TLAPS proves theorems about them
for every instance. The code modelled is `src/flexo/src/main.rs`. The flexo
library it calls is not in this repository, so the job registry (`try_schedule`),
the download worker and the provider pool are modelled from `spec.md` §4.
`PROJECT.json` marks those definitions `spec_modelled`.

## The system and how its parts interact

Source of each part:

| Part | Source |
|---|---|
| `main`, panic hook | main.rs 42–79 |
| `serve_client` | main.rs 91–194 |
| `receive_content_length` | main.rs 252–270 |
| `try_complete_filesize_from_path` | main.rs 273–288 |
| `serve_from_growing_file` | main.rs 309–342 |
| `serve_from_complete_file` | main.rs 430–440 |
| `serve_*_header` | main.rs 344–396 |
| registry and worker (C3, C4) | `spec.md` §4 |

- **Process.** A panic in any thread exits the whole process (main.rs 45–50). What lives in memory is then gone: threads, connections, the registry and its channels. The cache files and their `user.content_length` attribute stay. flexo can be started again on that cache.
- **Handler thread, one per connection.** It loops over requests. Each request ends in one of these:
  - a failed header read, which closes the connection;
  - 400, 403, or `/status`;
  - one of the four outcomes of `try_schedule`:
    - `Cached`: a complete file is sent;
    - `Uncacheable`: 301;
    - `AlreadyInProgress`: the handler polls the size attribute, then tails the growing file;
    - `Scheduled`: the handler waits up to 5 s for the worker's first message, then tails the file or answers 404/400.
- **Download worker, one per job.** On a 2xx it does these steps in order:
  1. opens the cache file for appending (it resumes at the file's length);
  2. writes the size attribute;
  3. sends `JobSize(size - resume_from)`;
  4. appends bytes.

  On other outcomes:
  - 404: sends `Unavailable`;
  - another rejection: sends `OrderError`;
  - transport failure before any byte: fails over to the next provider. When the providers run out it sends `Failed`.
  - failure after a byte: sends `Failed`.
  - the last byte: sends `Completed`.

  The job is retired on every terminal message.

The handler reads only the first channel message. The worker and the handlers share only the cache file and its attribute. Every `write_all` to a client socket is `.unwrap()`ed.

## Modules

- `FlexoServe.tla`: the model. Its state:

  | Variable | What it is |
  |---|---|
  | `up` | the process is running |
  | `crash` | the cause of the last panic that exited the process, or `none` |
  | `job[p]` | the registry entry and worker of path p: state, subscriber, Range, tries, start length |
  | `fexists[p]`, `flen[p]`, `xattr[p]` | the cache file, its length, and its size attribute |
  | `h[c]` | the handler of connection c (see below) |
  | `sock[c]` | `none`, `open`, or `gone` (the client closed its end) |
  | `resp[c]` | the last reply header that client c received, with the payload counted in `got` and `fin` |
  | `wire[c]` | what precedes the next reply on c's connection: `clean`, `crlf` (the two bytes an error header leaves), or `garbled` (a reply followed them) |

  `h[c]` holds these fields:
  - its point in the loop: `idle`, `read`, `poll`, `recv`, `stream`;
  - the request's path and Range;
  - `content_length` as `cl`;
  - `client_received` as `sent`;
  - the poll count;
  - the first channel message.

  Each handler branch is one action, named after the branch:
  - `ReadFails`, `ReadBadHeader`, `ServeForbidden`, `ServeStatus`;
  - `ScheduleCached`, `ScheduleUncacheable`, `ScheduleInProgress`, `ScheduleNew`;
  - `PollFound`, `PollMiss`, `PollTimeout`;
  - `RecvJobSize`, `RecvUnavailable`, `RecvOrderError`, `RecvUnexpected`, `RecvTimeout`;
  - `StreamPass`, one pass of the growing-file loop.

  A header write (`Reply`) has three outcomes:
  - it reaches a connected client;
  - it is lost, because the client has gone;
  - it fails with `Panic("client_gone")`.

  No dispatch action requires the socket to be open. A client may close its end after sending its request, so the header read succeeds and the write that follows finds the socket gone. Every write is `.unwrap()`ed (lines 314, 346, 353, 439...), so each branch reaches `Reply`'s lost-or-panic outcomes.

  Two more details of `serve_client` are modelled:
  - `OpenGrowing`: the `File::open(..).unwrap()` before `serve_from_growing_file` (lines 117 and 127). It panics with `no_file` if the cache file does not exist.
  - `Trail`: `serve_404_header`, `serve_400_header` and `serve_403_header` write an extra `\r\n` after a header that already ends with its empty line (lines 348, 354, 366). A reply on an open socket moves `wire[c]` from `clean` to `Trail(reply)`, and from `crlf` to `garbled`. `Accept` resets it to `clean`.

  The worker's steps are the actions `WorkerRespond`, `WorkerNotFound`, `WorkerRejected`, `WorkerRetry`, `WorkerFail`, `WorkerWrite` and `WorkerComplete`. The environment's actions are `Accept`, `Disconnect` and `Restart`.
- `ClientSpec.tla`: the abstract specification of what a client sees on its connection. `view[c]` is the last response: an object response (path, offset, Content-Length, bytes received, finished) or `NoBody`. There are three steps:
  - `AnswerBare`: a response without a body (error, redirect, `/status`);
  - `AnswerObject`: an object response whose Content-Length is the size less the offset, and whose body comes whole with it or not yet;
  - `Deliver`: more bytes of an unfinished response. It never goes past Content-Length and is finished exactly when it reaches it.

  `FlexoServe` instantiates it as `Client`, through `ClientView`, which reads each `resp[c]` as a view. `ClientRefinement == Client!Spec` states that flexo implements it.
- `MCFlexoServe.tla` and the `.cfg` files: the instances TLC checks. `MCView` is the state without `wire`. No guard and no other update reads `wire`, so the `core` run uses `MCView` as its VIEW. It explores the same steps with about a quarter of the states.
- `FlexoServeProofs.tla`: type correctness, the proof that the cache file a growing-file reply opens exists, and lemmas on u64 arithmetic and `send_payload`.
- `FlexoReplyProofs.tla`: the proof that replies are faithful.
- `ClientProofs.tla`: the proof that flexo implements `ClientSpec`.

### Abstractions

- Bytes are counted, not stored.
- A header is its status, its Content-Length and its Range. `ContentRange(cl, r)` computes the Content-Range triple exactly as `reply_header` does (lines 398–404), as numbers rather than text.
- `send_payload` is one atomic transfer. `SendPayload(filesize, bytes_sent)` is the offset it returns: `filesize`, or `bytes_sent` unchanged when there is nothing to send, because its loop does not run.
- **u64.** Sizes and offsets are `u64`. There is no Cargo.toml, so the build profile is unknown; the model takes a release build, where `-` and `+` wrap. So `U64Sub` and `U64Add` compute modulo the constant `Word` (2^64, and 4 or 8 in the runs). In a debug build the same overflows panic instead, which would also exit the process.
- The poll loop's 4000 attempts become `PollLimit`.
- Time is not modelled: the 10 s read timeout is one of the ways `ReadFails` happens, and the 5 s receive timeout is `RecvTimeout`, enabled while no message has arrived.
- **Worker resume.** The spec's worker writes `content_length = full size` and sends the remaining size. It resumes a partial file by appending. The model follows that reading: it is the only one under which the code's `complete_filesize - resume_from` (line 116) agrees with the channel's `JobSize`.
- **Resume offsets.** An offset is any `u64` below `Word`, so it may be past the end of an object. `OffsetsFit` (every offset ≤ every size) is a hypothesis of the reply theorems, not an assumption of the model. Spec 8.6 promises faithful lengths only for `r ≤ size`.
- **Send errors.** The streamer's socket fails in one of two ways:
  - `gone`: the client closed it (BrokenPipe or ConnectionReset), and the handler returns;
  - any other error: `StreamPass` may panic with `stream_error`.
- **The `Disconnected` → 500 branch** (main.rs 138–141) has no action. The channel is disconnected only when the worker drops its sender without a message. The spec's worker sends a terminal message before every retirement, and `Deliver` hands it to a handler still waiting. A worker thread that panics exits the whole process instead. So under the modelled worker the branch is never taken, and an action for it could never fire.

## Runs

All runs use these instances:
- one or two paths of sizes 2 and 1;
- one or two clients;
- resume offset 1, or no Range;
- `PollLimit = 2`;
- `Word = 4`, which is larger than any sum of a size and an offset in these runs, so nothing wraps in the passing runs.

Initial states are every disk state an earlier run can leave behind:
- no file;
- an empty file without an attribute;
- any prefix of the object with its attribute.

| Run | Instance | Checks | Result |
|---|---|---|---|
| `core` | 1 path, 2 clients, 1 provider | `TypeOK`, `ReplyFaithful`, `FileOpens`, `ClientRefinement` | pass, about 2M distinct states under `MCView`, about 70 s |
| `failover` | 2 paths (one uncacheable), 1 client, 2 providers | `ReplyFaithful`, `ReplyInv` | pass, 80k distinct states |
| `range_past_end` | 1 path of size 2, offset 3, `Word = 8` | `ReplyFaithful` | violated |
| `content_range` | 2 paths, offset 1 | `ContentRangeValid` | violated |
| `stream_error` | | `StreamErrorAnswered` | violated |
| `recv_timeout` | | `RecvTimeoutAnswered` | violated |
| `client_gone` | | `NoPanicOnClientGone` | violated |
| `poll_timeout` | | `PollTimeoutAnswered` | violated |
| `failed_job` | | `FailedAnswered` | violated |
| `stall` | | `StreamEnds`, under `FairSpec` | violated |
| `crlf` | 1 path, 1 client | `ResponsesFramed` | violated |

What the two passing runs cover:
- **`core`** has two clients race for one object. The second one polls while the first is scheduled. It covers restarts on a partial cache, disconnects at every point, and Range and no-Range requests.
- **`failover`** adds failover across two providers and the redirect path. It also checks `ReplyInv`, the inductive invariant of the reply proof.

Every case the bounds allow is reached in these runs:
- a resume offset strictly inside the object;
- a file that grows while it is streamed;
- a poll that misses once and then succeeds or times out;
- a retry, followed by success or by exhaustion.

What each violation shows (details under "findings" in PROJECT.json):
- **`client_gone`**: a disconnect kills the process. The spec says a disconnect abandons only that request. The shortest trace is a client that closes its end right after a malformed request: the 400 write panics.
- **`poll_timeout`**: a poll timeout panics. The spec says it answers 500.
- **`failed_job`**: a `Failed` message panics. The spec says it answers 500.
- **`stall`**: a streamer whose worker fails after the header spins forever. This is the code's own TODO at line 321.
- **`range_past_end`**: a Range past the end of a cached file wraps `filesize - resume_from` (line 432). Content-Length is then 7 for a 2-byte file, and no body follows.
- **`content_range`**: a Range at exactly the end of a cached object gets a 206 with `bytes 1-0/1`, whose first byte lies after its last (line 403).
- **`stream_error`**: a send error other than a closed connection exits the process (line 332). Spec 4.6.4 makes it fatal to that request only.
- **`recv_timeout`**: a worker that needs more than 5 s for its first message (a slow mirror, failover) makes the handler panic, and the process exits (line 143).
- **`crlf`**: a request with a forbidden path gets a 403 and its stray `\r\n`. The connection stays open, and the next request gets a 400, which the client reads after those two bytes. Spec 6 frames keep-alive replies by their headers and Content-Length; the code's own TODO at line 347 doubts the bytes.

Passing runs set `CHECK_DEADLOCK FALSE` because that spin is real. With the client connected, no action is enabled and the handler thread busy-waits forever.

### Mutants

Each passing property has a mutant in PROJECT.json: a plausible bug in a mapped definition that TLC catches. The mutants are:
- a poll without its bound (`TypeOK`);
- a polled Content-Length that ignores `resume_from` (`ReplyFaithful` in `core`), and the same on the cached path (`ReplyFaithful` in `failover`);
- a worker that announces the size before it creates the cache file (`FileOpens`);
- an order that drops the client's Range (`ReplyInv`);
- a loop that runs while `client_received <= complete_filesize` (`StreamPassLateEnd`): a reply that reached its end is not finished, which breaks `ClientRefinement`.

### Fairness

`FairSpec` gives weak fairness to each handler's step, and none to the worker. Handlers are preemptive OS threads (main.rs 72–77), and each of their waits ends: the poll has its attempt bound and the channel its 5 s timeout. The worker waits on the upstream mirror. Nothing bounds that wait, because the low-speed guard is optional (main.rs 53–58). So no fairness for the worker is justified, and no property here relies on the worker making progress.

`FairSpec` is used by the `stall` run. There the worker fails after the header, so the file never grows again, and the loop does not end even though every handler step is fair.

## Properties

| Property | What it states |
|---|---|
| `ReplyFaithful` | Every object reply announces exactly the object's bytes from the resume offset (Content-Length + offset = size), never sends more, and a finished reply sent all of it. This holds whichever branch built the reply. |
| `FileOpens` | The process never exits on the `File::open(..).unwrap()` before a growing-file reply (lines 117, 127): the polled attribute is on an existing file, and a `JobSize` is sent only after the worker created the file. |
| `ClientRefinement` (refinement of `ClientSpec`) | Every step of flexo is a step of `ClientSpec` or leaves every client's view alone: responses announce the size less the offset, arrive whole or grow pass by pass, and are finished exactly at their end. It relates consecutive states, which `ReplyFaithful` does not: for example, a stream never sends a byte after its reply is finished. |
| `ResponsesFramed` | No reply on a persistent connection is preceded by stray bytes. The code violates it. |
| `ContentRangeValid` | A 206's Content-Range is `first ≤ last < total = size`. The code violates it. |
| `ReplyInv` | The inductive strengthening of `ReplyFaithful` (see below). |
| `NoPanicOnClientGone`, `PollTimeoutAnswered`, `FailedAnswered`, `StreamErrorAnswered`, `RecvTimeoutAnswered` | The spec's error handling: none of these causes ever exits the process. The code violates each one. |
| `StreamEnds` | Every stream ends. The code violates it. |

## Proofs (TLAPS)

Only ordinary set, function and arithmetic facts are used. Every theorem (`TypeCorrect`, `FileOpensInv`, `ReplyFaithfulInv`, `ReplyInvariant`, `ClientRefines`) is proved in full, under these assumptions:
- `ConstAssumption`: sizes and offsets are naturals below `Word`, and the sets are non-empty.
- `OffsetsFit`: no resume offset is past the end of an object. Only the reply theorems take this, as a hypothesis (`ASSUME OffsetsFit PROVE ...`). The `range_past_end` run shows that they fail without it.

**`FlexoServeProofs.TypeCorrect`: `Spec => []TypeOK`.** It holds for every offset, because the u64 lemmas `U64Range` and `U64Exact` keep every wrapped difference in `0..Word-1`. `TypeOK` alone is not inductive. The handler subtracts the resume offset from the file length (line 432) and from the attribute (line 116). The streamer's counters stay within the object only because the attribute, when present, is the object's size. So the proof goes through `TypeInv == TypeOK /\ CacheSound`. `CacheSound` says:
- the attribute, once present, is the size;
- a file is never longer than its object;
- a running worker has written the attribute.

There is one lemma per handler and worker step, and one for `Panic` and one for `Reply`. The cache's own promises (the attribute is the size, no file outgrows its object) enter only as this strengthening. They are not stated as properties of their own, because main.rs never writes the cache: only the spec-modelled worker does.

**`FlexoServeProofs.FileOpensInv`: `Spec => []FileOpens`**, for every instance and every offset. `FileOpens` is not inductive: a handler holding a `JobSize` could open a missing file. The inductive invariant `FileInv` adds `JobSizeFile` to `TypeInv`: a handler waiting on the channel with a `JobSize` has an existing file. The step proof rests on three facts:
- no step removes a file;
- the only step that hands a handler a `JobSize` (`WorkerRespond`, through `Deliver`) creates the file of that path (`DeliverTo`);
- `PollFound` opens only where the attribute is present, and `DiskOK` puts the attribute only on an existing file.

`FileFrame` packages the first two facts for every other step. A mutant that announces the size first breaks the property in `core`.

**`FlexoReplyProofs.ReplyFaithfulInv`: `OffsetsFit => (Spec => []ReplyFaithful)`.** Under `OffsetsFit` every u64 subtraction and addition is exact (`U64Exact`). The inductive invariant `ReplyInv` adds three links to `TypeInv`:
- `JobLink`: a job's order carries the Range of the handler waiting on it;
- `SizeMsg`: a `JobSize` message a handler holds is the object's size from that handler's offset;
- `StreamLink`: while a handler streams to a connected client, the client's reply and the loop's `content_length` and `client_received` describe the same transfer, short of its end.

Without these links a reply built from a message or a stream pass could not be related to the object's size. `FlexoReplyProofs.ReplyInvariant` states `Spec => []ReplyInv` itself, which TLC checks in the `failover` run. TLC checked `ReplyInv` before it was proved. The proof handles each step: bare replies, growing headers, `StreamPass`, the worker's sends (through `JobLink`), and panics, which clear every link.

**`ClientProofs.ClientRefines`: `OffsetsFit => (Spec => ClientRefinement)`.** Each step is mapped as follows:
- a reply with a bare header, to a connected client, is `AnswerBare`;
- `serve_from_growing_file`'s header is `AnswerObject` with no body yet. Its loop does not run exactly when Content-Length is 0, so the reply is finished exactly then;
- `serve_from_complete_file` is `AnswerObject` with the whole body;
- a `StreamPass` to a connected client is a `Deliver`;
- every other step, lost replies and panics included, leaves `resp` and so every view unchanged.

The proof uses `ReplyInv` in both states of a step, through `ReplyNext`. `ReplyFaithful` in the new state gives Content-Length = size − offset for every new reply. `StreamLink` in the old state gives that a streamed reply is unfinished and its `got + offset = client_received`. With `U64Add` exact under `OffsetsFit`, the loop's end `complete_filesize` is the size, so the reply is finished exactly when `got` reaches Content-Length. Without `OffsetsFit` the refinement fails: a wrapped Content-Length is no response of `ClientSpec`.

### What only TLC checks

- Liveness (`StreamEnds`) and anything involving fairness or ENABLED. These are outside what TLAPS proves here.
- The violated properties.

## Not modelled

- Configuration, the mirror list fetch and its cache, and `rated_providers`. This is start-up I/O with no concurrency.
- Header text: the date, the formatting of the Content-Range, and the redirect URL.
- `send_payload` chunking at `MAX_SENDFILE_COUNT`. Its unit test covers that.
- The low-speed guard and connection pooling of the worker.
- Socket errors on header writes other than a closed connection. Those in the streamer are modelled.
- `serve_500_header`: it is reached only from the `Disconnected` branch (see Abstractions).
- The integration test client.

## Hazards left for later work

Each is listed in PROJECT.json with a note:
- the busy-spin of line 337. The model has no notion of time or CPU cost.
- a job that is never retired turns every later request for its path into a poll that times out (line 110). Whether every job ends depends on the upstream wait, which nothing bounds, so no fairness justifies a liveness property for it.
