-------------------------------- MODULE Webseed --------------------------------
(***************************************************************************)
(* The webseed pseudo-peer of src/libtransmission/webseed.cc: tr_webseed,  *)
(* its tr_webseed_task objects, the HTTP fetches they issue, the buffer    *)
(* callback that runs on the transport thread, the completion handler, the *)
(* deferred block writes and the teardown that marks tasks dead.           *)
(*                                                                         *)
(* Data are abstracted to byte identities: byte i of the torrent is the    *)
(* number i, a buffer is the sequence of the byte identities the server    *)
(* sent, and a block written to the cache carries the identities it was    *)
(* copied from.  A block's content is correct iff it is the run of         *)
(* identities that block covers.                                           *)
(*                                                                         *)
(* Threads.  The transport thread appends response bytes to a task's       *)
(* buffer and runs onBufferGotData, which reads task->dead without the     *)
(* session lock and then takes the lock; everything else runs on the      *)
(* session thread, one handler per step.                                   *)
(***************************************************************************)
EXTENDS BlockLayout, FiniteSets, Functions

CONSTANTS
    TaskIds,          \* identities for tr_webseed_task allocations
    MaxConnections,   \* ConnectionLimiter::MaxConnections
    MaxSpansPerCall,  \* spans tr_peerMgrGetNextRequests returns at most
    RequestTags,      \* tags telling a task's consecutive requests apart
    MaxWebseeds       \* tr_webseed objects created for the torrent, at most

ASSUME /\ MaxSpansPerCall \in Nat \ {0} /\ RequestTags \in Nat \ {0}
       /\ MaxWebseeds \in Nat \ {0}

VARIABLES
    tor,      \* [exists: tr_torrentFindFromId finds it, running: is_running()]
    have,     \* blocks the torrent has (tr_torrent::has_block)
    ws,       \* the last tr_webseed object created (0, 1, ...)
    alive,    \* that tr_webseed object exists
    lim,      \* tr_webseed::connection_limiter
    active,   \* tr_webseed::tasks
    task,     \* the tr_webseed_task objects and their fetches
    pending,  \* write_block_data objects queued for the session thread
    rejected, \* blocks the last step published as GotRejected
    uaf       \* the webseed accesses made after the webseed was destroyed

vars == <<tor, have, ws, alive, lim, active, task, pending, rejected, uaf>>

CL == INSTANCE ConnectionLimiter

\* req tells a fetch from the task's previous one: each call of
\* task_request_next_chunk issues a new request (a new FetchOptions and
\* transfer), even for the very range the previous one asked for.  req is
\* a history variable nothing reads; with RequestTags = 1 a request for the
\* same range as the last is a stuttering step, which no safety property
\* can tell apart, and with 2 a cycle of such requests is a real cycle.
NoFetch == [on |-> FALSE, start |-> 0, len |-> 0, got |-> 0, req |-> 0]
\* A task slot; owner is the tr_webseed its webseed pointer names; gen
\* tells one allocation of the slot from the next.
Unused == [st |-> "unused", span |-> [first |-> 0, end |-> 1], loc |-> 0,
           buf |-> <<>>, dead |-> FALSE, fetch |-> NoFetch, cb |-> "idle",
           owner |-> 0, gen |-> 0]

-----------------------------------------------------------------------------
(* Mutants of task_request_next_chunk: the chunk starts at the cursor,   *)
(* forgetting the bytes already buffered; the chunk ignores where the    *)
(* file ends.                                                              *)
NextChunkFromCursor(t) ==
    LET from == t.loc
        f == FileOf(from)
        left_in_file == FileStart(f) + FileSizes[f] - from
        left_in_task == EndByte(t.span) - from
    IN  [t EXCEPT !.fetch = [on |-> TRUE, start |-> from, got |-> 0,
                             len |-> IF left_in_file < left_in_task
                                     THEN left_in_file ELSE left_in_task,
                             req |-> (t.fetch.req + 1) % RequestTags]]

NextChunkIgnoringFile(t) ==
    LET from == t.loc + Len(t.buf)
    IN  [t EXCEPT !.fetch = [on |-> TRUE, start |-> from, got |-> 0,
                             len |-> EndByte(t.span) - from, req |-> (t.fetch.req + 1) % RequestTags]]

(* task_request_next_chunk: the next HTTP range of a task, from the first  *)
(* byte not yet buffered to the end of that file or of the span, whichever *)
(* comes first.  Its taskStarted() is applied by the callers.              *)
NextChunk(t) ==
    LET from == t.loc + Len(t.buf)
    IN  [t EXCEPT !.fetch = [on |-> TRUE, start |-> from, got |-> 0,
                             len |-> ChunkLen(FileSizes, from, EndByte(t.span)),
                             req |-> (t.fetch.req + 1) % RequestTags]]

\* tr_webseed_task's constructor, then task_request_next_chunk.
NewTask(s) ==
    NextChunk([Unused EXCEPT !.st = "live", !.span = s, !.loc = BlockByte(s.first),
                             !.owner = ws])

\* useFetchedBlocks: while a whole block is buffered, drop it if the
\* torrent has it, else copy it out into a write_block_data; then move the
\* cursor past it.  Returns the task and the writes it queued.
RECURSIVE Drain(_, _)
Drain(t, w) ==
    LET b == BlockOf(t.loc)
        n == BlockSizeOf(b)
    IN  IF Len(t.buf) < n
        THEN [task |-> t, writes |-> w]
        ELSE Drain([t EXCEPT !.buf = SubSeq(@, n + 1, Len(@)), !.loc = @ + n],
                   IF b \in have THEN w
                   ELSE w \cup {[blk |-> b, data |-> SubSeq(t.buf, 1, n), ws |-> t.owner]})

\* tr_peerMgrGetNextRequests: up to MaxSpansPerCall disjoint spans of
\* blocks the torrent lacks, in any order.
PeerMgrSpans ==
    UNION {{sq \in [1..k -> {s \in Spans : \A b \in s.first..s.end - 1 : b \notin have}] :
              \A i, j \in 1..k : i # j =>
                  sq[i].end <= sq[j].first \/ sq[j].end <= sq[i].first}
           : k \in 0..MaxSpansPerCall}

IsDone == have = Blocks

\* canRequest(): the number of spans the webseed takes now (the block
\* count, n_slots * 64, never binds in these bounds).
CanRequest(l) ==
    IF tor.exists /\ tor.running /\ ~IsDone THEN CL!SlotsAvailable(l) ELSE 0

\* Mutant: the peer manager's spans are not cut to max_spans.
TruncateSpansNever(spans, max_spans) == spans

\* on_idle: more spans than max_spans are cut to max_spans.
TruncateSpans(spans, max_spans) ==
    IF Len(spans) > max_spans THEN SubSeq(spans, 1, max_spans) ELSE spans

\* requestBlocks, from a limiter l, active set a and tasks tk: one new task
\* per span, inserted into tasks and started on its first chunk
\* (task_request_next_chunk's taskStarted()).
RequestBlocks(l, a, tk, spans) ==
    \E ids \in [1..Len(spans) -> {i \in TaskIds : tk[i].st = "unused"}] :
        /\ IsInjective(ids)
        /\ task' = [i \in TaskIds |->
                      IF i \in Range(ids)
                      THEN [NewTask(spans[CHOOSE j \in DOMAIN ids : ids[j] = i])
                              EXCEPT !.gen = 1 - tk[i].gen]
                      ELSE tk[i]]
        /\ active' = a \cup Range(ids)
        /\ lim' = [l EXCEPT !.n_tasks = @ + Len(spans)]

\* on_idle: nothing when canRequest() gives no slot; else take the spans the
\* peer manager offers, cut them to max_spans and requestBlocks() them.
OnIdle(l, a, tk) ==
    LET max_spans == CanRequest(l)
    IN  IF max_spans = 0
        THEN lim' = l /\ active' = a /\ task' = tk
        ELSE \E offered \in PeerMgrSpans :
               RequestBlocks(l, a, tk, TruncateSpans(offered, max_spans))

-----------------------------------------------------------------------------
Init ==
    /\ tor = [exists |-> TRUE, running |-> TRUE]
    /\ have = {}
    /\ ws = 0
    /\ alive = TRUE
    /\ lim = CL!InitLimiter
    /\ active = {}
    /\ task = [i \in TaskIds |-> Unused]
    /\ pending = {}
    /\ rejected = {}
    /\ uaf = {}

\* The repeating idle timer (2 s) fires on_idle.
IdleTick ==
    /\ alive
    /\ OnIdle(lim, active, task)
    /\ rejected' = {} /\ UNCHANGED <<tor, have, ws, alive, pending, uaf>>

\* The transport appends k response bytes to the task's buffer; the
\* evbuffer callback onBufferGotData reads task->dead without the session
\* lock and, if the task is not dead, goes on to wait for the lock.
DataArrives(i, k) ==
    LET t == task[i]
    IN  /\ t.st = "live" /\ t.fetch.on /\ t.cb = "idle"
        /\ k \in 1..t.fetch.len - t.fetch.got
        /\ task' = [task EXCEPT
                      ![i].buf = @ \o [j \in 1..k |-> t.fetch.start + t.fetch.got + j - 1],
                      ![i].fetch.got = @ + k,
                      ![i].cb = IF t.dead THEN "idle" ELSE "checked"]
        /\ rejected' = {} /\ UNCHANGED <<tor, have, ws, alive, lim, active, pending, uaf>>

\* onBufferGotData, under the session lock: task->webseed->gotPieceData(),
\* whose connection_limiter.gotData() clears the failures and the pause.
GotPieceData(i) ==
    /\ task[i].cb = "checked"
    /\ task' = [task EXCEPT ![i].cb = "idle"]
    /\ IF alive /\ task[i].owner = ws
       THEN lim' = CL!GotData(lim) /\ UNCHANGED uaf
       ELSE uaf' = uaf \cup {"gotData"} /\ UNCHANGED lim
    /\ rejected' = {} /\ UNCHANGED <<tor, have, ws, alive, active, pending>>

\* Mutants of publishRejection: the span's end included; the cursor's own
\* block skipped.
PublishRejectionPastEnd(t) == BlockOf(t.loc)..t.span.end
PublishRejectionAfterCursor(t) == BlockOf(t.loc) + 1..t.span.end - 1

\* publishRejection({loc.block, blocks.end}): the blocks of the span from
\* the cursor's block on.
PublishRejection(t) == BlockOf(t.loc)..t.span.end - 1

\* delete task: its memory is free for a later allocation.
Freed(t) == [Unused EXCEPT !.gen = t.gen]

\* onPartialDataFetched's branches, after the fetch of task i ended with
\* success (status 206) or not.
\* A dead task's completion only deletes the task.
DeleteDeadTask(i) ==
    /\ task' = [task EXCEPT ![i] = Freed(@)]
    /\ rejected' = {} /\ UNCHANGED <<lim, active, pending>>

\* taskFinished(), then return because the torrent is gone: the task stays
\* in tasks with no fetch.
CompleteForGoneTorrent(i, success) ==
    /\ lim' = CL!TaskFinished(lim, success)
    /\ task' = [task EXCEPT ![i].fetch = NoFetch]
    /\ rejected' = {} /\ UNCHANGED <<active, pending>>

\* Mutant: the failed task is deleted but never erased from tasks.
RejectTaskKeepingIt(i) ==
    /\ lim' = CL!TaskFinished(lim, FALSE)
    /\ rejected' = PublishRejection(task[i])
    /\ task' = [task EXCEPT ![i] = Freed(@)]
    /\ UNCHANGED <<pending, active>>

\* taskFinished(false), publishRejection, tasks.erase, delete.
RejectTask(i) ==
    /\ lim' = CL!TaskFinished(lim, FALSE)
    /\ rejected' = PublishRejection(task[i])
    /\ active' = active \ {i}
    /\ task' = [task EXCEPT ![i] = Freed(@)]
    /\ UNCHANGED pending

\* Mutant: a span that crosses a file end is not continued; the handler
\* returns after useFetchedBlocks without task_request_next_chunk.
UseFetchedTaskWithoutNextChunk(i) ==
    LET l1 == CL!TaskFinished(lim, TRUE)
        d == Drain(task[i], {})
        t2 == d.task
    IN  /\ pending' = pending \cup d.writes
        /\ rejected' = {}
        /\ IF t2.loc < EndByte(t2.span)
           THEN /\ task' = [task EXCEPT ![i] = [t2 EXCEPT !.fetch = NoFetch]]
                /\ lim' = l1
                /\ UNCHANGED active
           ELSE OnIdle(l1, active \ {i}, [task EXCEPT ![i] = Freed(task[i])])

\* taskFinished(true), useFetchedBlocks; then either the next chunk (the
\* file ended before the span) or, at end_byte, tasks.erase, delete and
\* on_idle.
UseFetchedTask(i) ==
    LET l1 == CL!TaskFinished(lim, TRUE)
        d == Drain(task[i], {})
        t2 == d.task
    IN  /\ pending' = pending \cup d.writes
        /\ rejected' = {}
        /\ IF t2.loc < EndByte(t2.span)
           THEN /\ task' = [task EXCEPT ![i] = NextChunk(t2)]
                /\ lim' = CL!TaskStarted(l1)
                /\ UNCHANGED active
           ELSE OnIdle(l1, active \ {i}, [task EXCEPT ![i] = Freed(task[i])])

\* onPartialDataFetched, on the session thread.  The transport cannot
\* finish a response while its write callback is blocked, hence cb = "idle".
\* success is status == 206, whatever part of the range came (a transfer
\* cut short after the headers keeps its 206), even none of it.
OnPartialDataFetched(i, success) ==
    /\ task[i].st = "live" /\ task[i].fetch.on /\ task[i].cb = "idle"
    /\ \/ task[i].dead /\ DeleteDeadTask(i)
       \/ ~task[i].dead /\ ~tor.exists /\ CompleteForGoneTorrent(i, success)
       \/ ~task[i].dead /\ tor.exists /\ ~success /\ RejectTask(i)
       \/ ~task[i].dead /\ tor.exists /\ success /\ UseFetchedTask(i)
    /\ UNCHANGED <<tor, have, ws, alive, uaf>>

\* write_block_data::write_block_func on the session thread: if the
\* torrent still exists, write the block to the cache and publish GotBlock
\* through the webseed pointer it was created with.
WriteBlock(w) ==
    /\ w \in pending
    /\ pending' = pending \ {w}
    /\ IF tor.exists
       THEN \* session_->cache->write_block, then publish GotBlock
            IF alive /\ w.ws = ws
               THEN have' = have \cup {w.blk} /\ UNCHANGED uaf
               ELSE uaf' = uaf \cup {"publish"} /\ UNCHANGED have
       ELSE UNCHANGED <<have, uaf>>
    /\ rejected' = {} /\ UNCHANGED <<tor, ws, alive, lim, active, task>>

\* ~tr_webseed: flag every pending task dead and clear tasks; the idle
\* timer goes with the object.
DestroyWebseed ==
    /\ alive
    /\ alive' = FALSE
    /\ task' = [i \in TaskIds |-> IF i \in active THEN [task[i] EXCEPT !.dead = TRUE]
                                  ELSE task[i]]
    /\ active' = {}
    /\ rejected' = {} /\ UNCHANGED <<tor, have, ws, lim, pending, uaf>>

\* tr_webseedNew for the torrent again (the peer manager makes a webseed
\* when the torrent runs): a new tr_webseed with a fresh limiter and no
\* tasks, while the dead tasks of the one before may still be in flight.
CreateWebseed ==
    /\ ~alive /\ tor.exists /\ tor.running
    /\ ws < MaxWebseeds - 1
    /\ ws' = ws + 1 /\ alive' = TRUE
    /\ lim' = CL!InitLimiter
    /\ rejected' = {} /\ UNCHANGED <<tor, have, active, task, pending, uaf>>

\* Environment: the torrent is removed, stopped, started, or gets a block
\* from another peer; the webseed's 120 s pause runs out.
RemoveTorrent ==
    /\ tor.exists
    /\ tor' = [exists |-> FALSE, running |-> FALSE]
    /\ rejected' = {} /\ UNCHANGED <<have, ws, alive, lim, active, task, pending, uaf>>

ToggleRunning ==
    /\ tor.exists
    /\ tor' = [tor EXCEPT !.running = ~@]
    /\ rejected' = {} /\ UNCHANGED <<have, ws, alive, lim, active, task, pending, uaf>>

OtherPeerGotBlock(b) ==
    /\ tor.exists /\ b \notin have
    /\ have' = have \cup {b}
    /\ rejected' = {} /\ UNCHANGED <<tor, ws, alive, lim, active, task, pending, uaf>>

TimeoutElapses ==
    /\ alive /\ lim.paused
    /\ lim' = [lim EXCEPT !.paused = FALSE]
    /\ rejected' = {} /\ UNCHANGED <<tor, have, ws, alive, active, task, pending, uaf>>

\* Nothing is left to happen: webseed and torrent gone, no fetch in flight,
\* no write queued.
Terminated ==
    /\ ~alive /\ ~tor.exists /\ pending = {}
    /\ \A i \in TaskIds : ~task[i].fetch.on
    /\ UNCHANGED vars

Next ==
    \/ IdleTick
    \/ \E i \in TaskIds :
          \/ \E k \in 1..TotalSize : DataArrives(i, k)
          \/ GotPieceData(i)
          \/ \E ok \in BOOLEAN : OnPartialDataFetched(i, ok)
    \/ \E w \in pending : WriteBlock(w)
    \/ DestroyWebseed
    \/ CreateWebseed
    \/ RemoveTorrent
    \/ ToggleRunning
    \/ \E b \in Blocks : OtherPeerGotBlock(b)
    \/ TimeoutElapses
    \/ Terminated

Spec == Init /\ [][Next]_vars

\* The transport answers every fetch (its own timeouts guarantee an answer),
\* the session lock is eventually granted to a waiting buffer callback.
Fairness ==
    \A i \in TaskIds :
        /\ WF_vars(\E ok \in BOOLEAN : OnPartialDataFetched(i, ok))
        /\ WF_vars(GotPieceData(i))

TransportFairSpec == Spec /\ Fairness

\* A server that does not answer every range of a task with no bytes at all:
\* while a fetch of the task is open, some of its bytes eventually arrive.
\* Nothing in the code enforces this; it is an assumption about the server.
ServerSendsData ==
    \A i \in TaskIds : WF_vars(\E k \in 1..TotalSize : DataArrives(i, k))

FairSpec == Spec /\ Fairness /\ ServerSendsData

-----------------------------------------------------------------------------
(* The abstract task: a slot's span, its cursor and its buffer.            *)
Transfer == INSTANCE TaskTransfer
    WITH xfer <- [i \in TaskIds |-> [st |-> task[i].st, span |-> task[i].span,
                                     saved |-> task[i].loc, data |-> task[i].buf]]

-----------------------------------------------------------------------------
Fetches == [on : BOOLEAN, start : 0..TotalSize, len : 0..TotalSize, got : 0..TotalSize,
            req : 0..RequestTags - 1]
Writes == [blk : Blocks, data : Seq(Bytes), ws : 0..MaxWebseeds - 1]

TypeOK ==
    /\ tor \in [exists : BOOLEAN, running : BOOLEAN]
    /\ have \subseteq Blocks
    /\ ws \in 0..MaxWebseeds - 1
    /\ alive \in BOOLEAN
    /\ lim \in CL!LimiterStates
    /\ active \subseteq TaskIds
    /\ \A i \in TaskIds :
         task[i] \in [st : {"unused", "live"}, span : Spans, loc : 0..TotalSize,
                     buf : Seq(Bytes), dead : BOOLEAN, fetch : Fetches,
                     cb : {"idle", "checked"}, owner : 0..MaxWebseeds - 1,
                     gen : {0, 1}]
    /\ pending \subseteq Writes
    /\ rejected \subseteq Blocks
    /\ uaf \subseteq {"gotData", "publish"}

\* Every block useFetchedBlocks copies out, queued or already written to the
\* cache, holds exactly the bytes of that block: the cursor, the buffered
\* tail carried over a file boundary and the next chunk's start stay in
\* step through truncated 206 answers and multi-file spans.
CacheIntegrity ==
    \A w \in pending : w.data = BlockBytes(w.blk)

\* A fetch in flight asks for the bytes right after those already buffered
\* (task_request_next_chunk's loc = loc.byte + buffer length), is not
\* empty, stays inside one file and inside the task's span.
ChunkFollowsBuffer ==
    \A i \in TaskIds :
        task[i].st = "live" /\ task[i].fetch.on =>
            LET t == task[i]
                last == t.fetch.start + t.fetch.len - 1
            IN  /\ t.fetch.start + t.fetch.got = t.loc + Len(t.buf)
                /\ t.fetch.len > 0
                /\ last < EndByte(t.span)
                /\ FileOf(t.fetch.start) = FileOf(last)

\* While the webseed lives, connection_limiter.n_tasks is the number of its
\* tasks with a fetch in flight: every taskStarted() of
\* task_request_next_chunk is matched by one taskFinished() of
\* onPartialDataFetched, whichever way the fetch ends.
LimiterCountsFetches ==
    alive => lim.n_tasks = Cardinality({i \in active : task[i].fetch.on})

\* Every task in tasks of an existing torrent has a fetch in flight:
\* each path of onPartialDataFetched that keeps the task calls
\* task_request_next_chunk, and the one that does not (end_byte reached)
\* erases it.  Nothing else drives a task (no timer, no callback), so a
\* task held without a fetch would keep its span and its limiter slot
\* forever, and tr_webseedView would show the webseed downloading.
HeldTaskHasFetch ==
    tor.exists => \A i \in active : task[i].fetch.on

\* A step that admits new tasks (on_idle) leaves no more fetches in flight
\* than maxConnections() allows: MaxConnections when healthy, one while a
\* failure is on record, although the spans the peer manager offers are
\* not limited by the slots.
AdmissionRespectsLimit ==
    [][active' \ active # {} => lim'.n_tasks <= CL!MaxConns(lim')]_vars

\* When a live webseed lets a task go (onPartialDataFetched erases it), no
\* block of its span is lost: each one is had, handed to the cache, or
\* published as rejected so the peer manager can ask another peer.
BlocksAccounted ==
    [][\A i \in active \ active' :
          alive' => \A b \in task[i].span.first..task[i].span.end - 1 :
                      b \in have' \cup rejected' \cup {w.blk : w \in pending'}]_vars

\* A task the webseed started leaves its active set, unless the torrent
\* goes away: the span is finished, or rejected, in the end.
TaskEventuallyRetires ==
    \A i \in TaskIds, g \in {0, 1} :
        i \in active /\ task[i].gen = g ~>
            i \notin active \/ task[i].gen # g \/ ~tor.exists

\* The tasks implement TaskTransfer: whatever the server answers (short,
\* empty or failed ranges, chunks split at file ends) and whenever the
\* webseed or the torrent goes away, each task's buffer receives exactly the
\* next bytes of its span, task_request_next_chunk never asks again for a
\* byte it buffered nor skips one, and useFetchedBlocks moves the cursor in
\* whole blocks over bytes it has.
TaskTransferRefined == Transfer!Spec

\* The spec (section 3, 5): once the webseed is destroyed, a dead task's
\* handlers perform no further webseed access.  onBufferGotData tests
\* task->dead before taking the session lock.
GotDataOnLiveWebseed == "gotData" \notin uaf

\* The spec (section 8): after a webseed is destroyed, completions perform no
\* event publication.  write_block_func publishes through a raw webseed
\* pointer, checking only that the torrent exists.
PublishOnLiveWebseed == "publish" \notin uaf

\* The spec (section 3): a task is destroyed when its span completes, when
\* its fetch fails, or on its completion after teardown.  A task is live
\* only while the webseed holds it or a fetch of it is in flight.
NoLeakedTask ==
    \A i \in TaskIds : task[i].st = "live" => i \in active \/ task[i].fetch.on
================================================================================
