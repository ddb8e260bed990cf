---------------------------- MODULE VMThreadedIO ----------------------------
(***************************************************************************)
(* The threaded virtual memory of Redis 1.3.6 (redis.c, "Virtual Memory - *)
(* Threaded I/O" and "Blocking clients on missing keys").                 *)
(*                                                                         *)
(* The main thread owns the key space.  Every key object carries a        *)
(* storage state: MEMORY, SWAPPING (a PREPARE_SWAP or DO_SWAP job is in   *)
(* flight), SWAPPED (value on swap pages, dict value NULL) or LOADING (a  *)
(* LOAD job is in flight).  Jobs pass through three lists guarded by      *)
(* io_mutex: io_newjobs, io_processing, io_processed.  Worker threads     *)
(* take a job, do the disk work without the lock, move the job to         *)
(* io_processed and write one byte to a pipe; the main thread's pipe      *)
(* handler (vmThreadedIOCompletedJob) applies one completed job per byte.  *)
(* A key that is looked up or deleted while a job is in flight has the    *)
(* job cancelled (vmCancelThreadedIOJob), which busy-waits while the job  *)
(* is in io_processing.  Clients whose command needs a swapped key are    *)
(* parked (waitForSwappedKey) until a LOAD completes, then resumed in     *)
(* beforeSleep.                                                           *)
(*                                                                         *)
(* Data is abstracted to model values: a value is a member of Vals and    *)
(* ValPages[v] is the number of swap pages its serialisation takes.       *)
(***************************************************************************)
EXTENDS Integers, Sequences, FiniteSets, SequencesExt

CONSTANTS
  DBs,            \* server.db[0..dbnum-1]
  Keys,           \* key names
  Vals,           \* values (abstract objects)
  ValPages,       \* [Vals -> 1..NPages]: rdbSavedObjectPages of a value
  NPages,         \* server.vm_pages
  Clients,        \* connected clients
  Threads,        \* server.vm_max_threads worker slots
  Commands,       \* the commands clients may send (subset of CommandNames)
  WriteOutcomes,  \* {TRUE} or {TRUE, FALSE}: may fseeko in vmWriteObjectOnSwap fail?
  BgSaveAllowed,  \* may a BGSAVE start (the BGSAVE command, a save point)?
  CloseAllowed,   \* may a parked client be closed (idle timer, lost connection)?
  Nil             \* NULL

CommandNames == {"get", "exec", "set", "del", "rename"}

ASSUME /\ NPages \in Nat \ {0}
       /\ ValPages \in [Vals -> 1..NPages]
       /\ Commands \subseteq CommandNames
       /\ WriteOutcomes \subseteq BOOLEAN /\ TRUE \in WriteOutcomes
       /\ BgSaveAllowed \in BOOLEAN /\ CloseAllowed \in BOOLEAN
       /\ Nil \notin Vals \cup DBs \cup Keys \cup Clients \cup Threads

Pages == 0..(NPages - 1)

VARIABLES
  kv,          \* kv[d][k]: the key object of k in db d: storage, dict value, vm.page, vm.usedpages
  used,        \* server.vm_bitmap: the set of used swap pages
  swapfile,    \* swapfile[p]: the value whose serialisation page p holds
  newjobs,     \* server.io_newjobs
  processing,  \* server.io_processing
  processed,   \* server.io_processed
  thr,         \* thr[t]: where worker slot t is in IOThreadEntryPoint
  pipe,        \* bytes written to io_ready_pipe and not yet read
  todo,        \* commands the main thread is executing (call) before it returns to the event loop
  blocked,     \* blocked[c]: the call a REDIS_IO_WAIT client makes when resumed, else Nil
  iokeys,      \* iokeys[c]: c->io_keys
  waiters,     \* waiters[d][k]: db->io_keys, the clients parked on k, in order
  ready,       \* server.io_ready_clients
  crashed,     \* a redisAssert / assert failed: the server aborted
  bgsave,      \* "none" (bgsavechildpid == -1), "waiting" (in waitEmptyIOJobsQueue) or "child"
  snap,        \* snap[p]: what swap page p held at the fork, if the child reads it, else Nil
  stuck        \* the child inherited io_swapfile_mutex locked

vmVars == <<kv, used, swapfile, newjobs, processing, processed, thr, pipe,
            todo, blocked, iokeys, waiters, ready, crashed>>
saveVars == <<bgsave, snap, stuck>>
vars == <<vmVars, saveVars>>

Storage == {"absent", "memory", "swapping", "swapped", "loading"}
KeyObj == [st : Storage, val : Vals \cup {Nil}, page : Pages, pages : 0..NPages]
NoKey == [st |-> "absent", val |-> Nil, page |-> 0, pages |-> 0]
InMemory(v) == [st |-> "memory", val |-> v, page |-> 0, pages |-> 0]

JobTypes == {"prepare", "doswap", "load"}
Job == [type : JobTypes, db : DBs, key : Keys, val : Vals \cup {Nil},
        page : Pages, pages : 0..NPages, canceled : BOOLEAN, thread : Threads \cup {Nil}]

Command == [name : CommandNames, k : Keys, k2 : Keys, v : Vals]
Step == [op : {"lookup", "set", "del", "rename"}, d : DBs, k : Keys, k2 : Keys, v : Vals]

\* call(c, cmd): the key-space operation a command performs
Call(cmd, d) ==
  [op |-> CASE cmd.name \in {"get", "exec"} -> "lookup"
            [] cmd.name = "set" -> "set"
            [] cmd.name = "del" -> "del"
            [] cmd.name = "rename" -> "rename",
   d |-> d, k |-> cmd.k, k2 |-> cmd.k2, v |-> cmd.v]

\* cmdTable vm_firstkey: GET and RENAME preload their first key; SET and DEL
\* have vm_firstkey 0; EXEC has no keys of its own.
Preloads(cmd) == cmd.name \in {"get", "rename"}

KeyPages(o) == o.page .. (o.page + o.pages - 1)
JobPages(j) == j.page .. (j.page + j.pages - 1)

-----------------------------------------------------------------------------
(* vmCancelThreadedIOJob(o).  Jobs are matched by key NAME only           *)
(* (compareStringObjects(job->key,o)); the lists are scanned newjobs,     *)
(* processing, processed.                                                  *)

\* Seeded defect: the scan does not skip jobs already flagged canceled.
MatchesAnyJob(j, k) == j.key = k
Matches(j, k) == ~j.canceled /\ j.key = k
FirstMatch(q, k) == SelectInSeq(q, LAMBDA j : Matches(j, k))

\* The first match is in io_processing: unlock, usleep(1), goto again.
CancelSpins(k) == FirstMatch(newjobs, k) = 0 /\ FirstMatch(processing, k) # 0

\* Seeded defect: pages are freed only for a DO_SWAP job still in
\* io_newjobs, not for one cancelled in io_processed.
CancelIOKeepPages(k) ==
  LET i0 == FirstMatch(newjobs, k)
      i2 == FirstMatch(processed, k)
      j  == IF i0 # 0 THEN newjobs[i0] ELSE processed[i2]
      found == i0 # 0 \/ i2 # 0
      freed == IF i0 # 0 /\ j.type = "doswap" THEN JobPages(j) ELSE {}
  IN [found     |-> found,
      sound     |-> freed \subseteq used,
      newjobs   |-> IF i0 # 0 THEN RemoveAt(newjobs, i0) ELSE newjobs,
      processed |-> IF i0 = 0 /\ i2 # 0
                      THEN [processed EXCEPT ![i2].canceled = TRUE]
                      ELSE processed,
      used      |-> used \ freed]

CancelIO(k) ==
  LET i0 == FirstMatch(newjobs, k)
      i2 == FirstMatch(processed, k)
      j  == IF i0 # 0 THEN newjobs[i0] ELSE processed[i2]
      found == i0 # 0 \/ i2 # 0
      freed == IF found /\ j.type = "doswap" THEN JobPages(j) ELSE {}
  IN [found     |-> found,                          \* else assert(1 != 1)
      sound     |-> freed \subseteq used,            \* vmMarkPageFree asserts
      newjobs   |-> IF i0 # 0 THEN RemoveAt(newjobs, i0) ELSE newjobs,
      processed |-> IF i0 = 0 /\ i2 # 0
                      THEN [processed EXCEPT ![i2].canceled = TRUE]
                      ELSE processed,
      used      |-> used \ freed]

NoCancel == [found |-> TRUE, sound |-> TRUE, newjobs |-> newjobs,
             processed |-> processed, used |-> used]

\* Seeded defect: only LOADING keys have their job cancelled.
InFlightLoadingOnly(o) == o.st = "loading"
InFlight(o) == o.st \in {"swapping", "loading"}

\* The cancellation a step on key k of db d performs first, if any
Ctx(d, k) == IF InFlight(kv[d][k]) THEN CancelIO(k) ELSE NoCancel
Spins(d, k) == InFlight(kv[d][k]) /\ CancelSpins(k)
CancelOK(d, k) == Ctx(d, k).found /\ Ctx(d, k).sound

\* the storage state the cancellation leaves the key object in
Reverted(o) == CASE o.st = "loading"  -> [o EXCEPT !.st = "swapped"]
                 [] o.st = "swapping" -> [o EXCEPT !.st = "memory"]
                 [] OTHER             -> o

-----------------------------------------------------------------------------
(* handleClientsBlockedOnSwappedKey(db,key) with dontWaitForSwappedKey:   *)
(* every client parked on the key forgets it; those left waiting for      *)
(* nothing are appended to io_ready_clients.                               *)
WakeWaiters(d, k) ==
  LET ws == waiters[d][k]
  IN /\ iokeys' = [c \in Clients |->
                     IF c \in ToSet(ws) THEN iokeys[c] \ {k} ELSE iokeys[c]]
     /\ waiters' = [waiters EXCEPT ![d][k] = <<>>]
     /\ ready' = ready \o SelectSeq(ws, LAMBDA c : iokeys[c] \ {k} = {})

NoWake == UNCHANGED <<iokeys, waiters, ready>>

\* queueIOJob for each job of js: append it and spawn a thread while
\* io_active_threads < vm_max_threads.
Enqueue(q, js) ==
  LET dead == {t \in Threads : thr[t] = "dead"}
      n == IF Len(js) < Cardinality(dead) THEN Len(js) ELSE Cardinality(dead)
  IN /\ newjobs' = q \o js
     /\ \E S \in SUBSET dead :
           /\ Cardinality(S) = n
           /\ thr' = [t \in Threads |-> IF t \in S THEN "idle" ELSE thr[t]]
-----------------------------------------------------------------------------
(* Main thread: the key-space operations of the commands                  *)

\* The server is running and its main thread is back in the event loop
\* (not inside the waitEmptyIOJobsQueue of a BGSAVE)
MainFree == ~crashed /\ todo = <<>> /\ bgsave # "waiting"

\* The completion handler runs: from the event loop or from the loop of
\* waitEmptyIOJobsQueue
HandlerRuns == ~crashed /\ todo = <<>>

\* The main thread is executing call s, the next of its pending calls
Executing(s, op) == ~crashed /\ todo # <<>> /\ s = Head(todo) /\ s.op = op

\* lookupKey(db,key): a SWAPPING key has its job cancelled; a SWAPPED or
\* LOADING one is loaded synchronously (vmLoadObject cancels a LOAD job
\* first), after redisAssert(val == NULL); a LOADING key wakes its waiters.
Looked(o) ==
  IF o.st \in {"swapped", "loading"}
    THEN [o EXCEPT !.st = "memory", !.val = swapfile[o.page], !.page = 0, !.pages = 0]
    ELSE Reverted(o)

LookupSound(d, k) ==
  LET o == kv[d][k]
  IN /\ InFlight(o) => CancelOK(d, k)
     /\ o.st \in {"swapped", "loading"} =>
           o.val = Nil /\ KeyPages(o) \subseteq Ctx(d, k).used

LookupUsed(d, k) ==
  IF kv[d][k].st \in {"swapped", "loading"}
    THEN Ctx(d, k).used \ KeyPages(kv[d][k]) ELSE Ctx(d, k).used

LookupKey(s) ==
  LET d == s.d  k == s.k
  IN /\ Executing(s, "lookup")
     /\ ~Spins(d, k)
     /\ todo' = Tail(todo)
     /\ kv' = [kv EXCEPT ![d][k] = Looked(kv[d][k])]
     /\ used' = LookupUsed(d, k)
     /\ newjobs' = Ctx(d, k).newjobs /\ processed' = Ctx(d, k).processed
     /\ crashed' = ~LookupSound(d, k)
     /\ IF kv[d][k].st = "loading" THEN WakeWaiters(d, k) ELSE NoWake
     /\ UNCHANGED <<swapfile, processing, thr, pipe, blocked>>

\* deleteKey(db,key) -> dictDelete -> decrRefCount(key object): a SWAPPED
\* key frees its pages, a LOADING key cancels its job and frees its pages,
\* a SWAPPING key (refcount drops to 0) cancels its job.  The parked
\* clients of the key are left in db->io_keys.
DropKey(d, k, new) ==
  LET o == kv[d][k]
      freed == IF o.st \in {"swapped", "loading"} THEN KeyPages(o) ELSE {}
  IN /\ ~Spins(d, k)
     /\ kv' = [kv EXCEPT ![d][k] = new]
     /\ used' = Ctx(d, k).used \ freed
     /\ newjobs' = Ctx(d, k).newjobs /\ processed' = Ctx(d, k).processed
     /\ crashed' = ~((InFlight(o) => CancelOK(d, k)) /\ freed \subseteq Ctx(d, k).used)
     /\ UNCHANGED <<swapfile, processing, thr, pipe, blocked, iokeys, waiters, ready>>

\* DEL key: delCommand -> deleteKey
DelKey(s) ==
  /\ Executing(s, "del")
  /\ todo' = Tail(todo)
  /\ DropKey(s.d, s.k, NoKey)

\* SET key val: setGenericCommand(c,0).  dictAdd; if the key exists,
\* deleteIfSwapped deletes a key whose storage is not MEMORY, then
\* dictReplace stores the new value.
SetKey(s) ==
  /\ Executing(s, "set")
  /\ todo' = Tail(todo)
  /\ DropKey(s.d, s.k, InMemory(s.v))

\* RENAME src dst: renameGenericCommand(c,0).  lookupKeyWrite(src), then
\* dictAdd(dst) or, when dst exists, dictReplace(dst), which keeps dst's
\* key object (and its storage state) and replaces only the dict value;
\* finally deleteKey(src), now in memory.
RenameKey(s) ==
  LET d == s.d  src == s.k  dst == s.k2
      o == Looked(kv[d][src])
      old == kv[d][dst]
  IN /\ Executing(s, "rename")
     /\ todo' = Tail(todo)
     /\ IF src = dst
          THEN UNCHANGED <<kv, used, swapfile, newjobs, processing, processed,
                           thr, pipe, blocked, iokeys, waiters, ready, crashed>>
          ELSE /\ ~Spins(d, src)
                /\ kv' = [kv EXCEPT ![d][src] = IF o.st = "absent" THEN o ELSE NoKey,
                                    ![d][dst] = IF o.st = "absent" THEN old
                                                ELSE IF old.st = "absent" THEN InMemory(o.val)
                                                ELSE [old EXCEPT !.val = o.val]]
                /\ used' = LookupUsed(d, src)
                /\ newjobs' = Ctx(d, src).newjobs /\ processed' = Ctx(d, src).processed
                /\ crashed' = ~LookupSound(d, src)
                /\ IF kv[d][src].st = "loading" THEN WakeWaiters(d, src) ELSE NoWake
                /\ UNCHANGED <<swapfile, processing, thr, pipe, blocked>>

-----------------------------------------------------------------------------
(* processCommand: a command arrives from a client that is not parked.    *)
(* A command without keys to preload is called at once.                    *)
Issue(c) == MainFree /\ blocked[c] = Nil

IssueCommand(c, d, cmd) ==
  /\ ~Preloads(cmd)
  /\ Issue(c)
  /\ todo' = <<Call(cmd, d)>>
  /\ UNCHANGED <<kv, used, swapfile, newjobs, processing, processed, thr, pipe,
                 blocked, iokeys, waiters, ready, crashed>>

\* blockClientOnSwappedKeys -> waitForSwappedKey on a key that is absent,
\* in memory or being swapped out (the swap is cancelled): the client is
\* not blocked and the command is called.
IssueUnblocked(c, d, cmd) ==
  LET o == kv[d][cmd.k]
  IN /\ Preloads(cmd)
     /\ o.st \in {"absent", "memory", "swapping"}
     /\ ~Spins(d, cmd.k)
     /\ Issue(c)
     /\ todo' = <<Call(cmd, d)>>
     /\ kv' = [kv EXCEPT ![d][cmd.k] = Reverted(o)]
     /\ newjobs' = Ctx(d, cmd.k).newjobs /\ processed' = Ctx(d, cmd.k).processed
     /\ used' = Ctx(d, cmd.k).used
     /\ crashed' = (InFlight(o) /\ ~CancelOK(d, cmd.k))
     /\ UNCHANGED <<swapfile, processing, thr, pipe, blocked, iokeys, waiters, ready>>

\* Seeded defect: the key is marked LOADING but no job is queued.
StartLoadNoJob(d, k) ==
  /\ kv' = [kv EXCEPT ![d][k].st = "loading"]
  /\ UNCHANGED <<newjobs, thr>>

\* waitForSwappedKey on a SWAPPED key: it becomes LOADING and a LOAD job
\* for its page is queued.
StartLoad(d, k) ==
  /\ kv' = [kv EXCEPT ![d][k].st = "loading"]
  /\ Enqueue(newjobs, <<[type |-> "load", db |-> d, key |-> k, val |-> Nil,
                          page |-> kv[d][k].page, pages |-> 0,
                          canceled |-> FALSE, thread |-> Nil]>>)

\* waitForSwappedKey on a SWAPPED or LOADING key: the client is parked on
\* the key (c->io_keys, db->io_keys) and, if no load is running, a load is
\* started.  The client is REDIS_IO_WAIT.
IssueBlocked(c, d, cmd) ==
  LET k == cmd.k  o == kv[d][k]
  IN /\ Preloads(cmd)
     /\ o.st \in {"swapped", "loading"}
     /\ Issue(c)
     /\ blocked' = [blocked EXCEPT ![c] = Call(cmd, d)]
     /\ iokeys' = [iokeys EXCEPT ![c] = @ \cup {k}]
     /\ waiters' = [waiters EXCEPT ![d][k] = Append(@, c)]
     /\ IF o.st = "swapped" THEN StartLoad(d, k) ELSE UNCHANGED <<kv, newjobs, thr>>
     /\ UNCHANGED <<used, swapfile, processing, processed, pipe, todo, ready, crashed>>

\* beforeSleep: every client of io_ready_clients loses REDIS_IO_WAIT and
\* its command is called, in list order.
ResumeReadyClients ==
  /\ MainFree /\ ready # <<>>
  /\ ready' = <<>>
  /\ blocked' = [c \in Clients |-> IF c \in ToSet(ready) THEN Nil ELSE blocked[c]]
  /\ todo' = [i \in 1..Len(ready) |-> blocked[ready[i]]]
  /\ UNCHANGED <<kv, used, swapfile, newjobs, processing, processed, thr, pipe,
                 iokeys, waiters, crashed>>
\* dontWaitForSwappedKey(c, k) for every key of c->io_keys: c leaves
\* db->io_keys[k], after assert(ln != NULL) on finding it there.
IoWaitWithdraw(c, d) ==
  /\ waiters' = [waiters EXCEPT ![d] =
                   [k \in Keys |-> IF k \in iokeys[c] THEN RemoveFirst(@[k], c) ELSE @[k]]]
  /\ crashed' = \E k \in iokeys[c] : c \notin ToSet(waiters[d][k])

\* Seeded defect: a client already in io_ready_clients stays there.
FreeClientKeepReady(c) ==
  LET s == blocked[c]
  IN /\ MainFree /\ s # Nil
     /\ blocked' = [blocked EXCEPT ![c] = Nil]
     /\ iokeys' = [iokeys EXCEPT ![c] = {}]
     /\ IoWaitWithdraw(c, s.d)
     /\ UNCHANGED <<kv, used, swapfile, newjobs, processing, processed, thr, pipe,
                    todo, ready>>

\* freeClient of a REDIS_IO_WAIT client.  Its read event was deleted when
\* it was parked, so it is closed by the idle timer of serverCron (or a
\* failed reply write).  A client that waits for no key any more is taken
\* out of io_ready_clients; otherwise dontWaitForSwappedKey removes it from
\* db->io_keys of every key it waits for, asserting it is listed there.
FreeClient(c) ==
  LET s == blocked[c]
  IN /\ MainFree /\ s # Nil
     /\ blocked' = [blocked EXCEPT ![c] = Nil]
     /\ iokeys' = [iokeys EXCEPT ![c] = {}]
     /\ ready' = IF iokeys[c] = {} THEN RemoveFirst(ready, c) ELSE ready
     /\ IoWaitWithdraw(c, s.d)
     /\ UNCHANGED <<kv, used, swapfile, newjobs, processing, processed, thr, pipe, todo>>
-----------------------------------------------------------------------------
(* Swapping out.  vmSwapOneObject picks a key in MEMORY whose value is not *)
(* shared; vmSwapObjectThreaded marks it SWAPPING and queues PREPARE_SWAP. *)

Swappable(kvs) == {dk \in DBs \X Keys : kvs[dk[1]][dk[2]].st = "memory"}

PrepareSwap(kvs, dk) ==
  [type |-> "prepare", db |-> dk[1], key |-> dk[2], val |-> kvs[dk[1]][dk[2]].val,
   page |-> 0, pages |-> 0, canceled |-> FALSE, thread |-> Nil]

MarkSwapping(kvs, batch) ==
  [d \in DBs |-> [k \in Keys |->
     IF <<d, k>> \in ToSet(batch) THEN [kvs[d][k] EXCEPT !.st = "swapping"]
                                  ELSE kvs[d][k]]]

\* Seeded defect: vmCanSwapOut forgets the BGSAVE child.
VmCanSwapOutNoSaveCheck == TRUE

\* vmCanSwapOut: no BGSAVE child (BGREWRITEAOF is not modelled)
VmCanSwapOut == bgsave # "child"

\* serverCron, VM part: while vmCanSwapOut() and memory is over
\* vm_max_memory, swap one object out with vmSwapOneObjectThreaded, then
\* stop.  Memory pressure is not modelled: the cron may or may not swap.
CronSwapOut ==
  /\ MainFree /\ VmCanSwapOut
  /\ \E dk \in Swappable(kv) :
        /\ kv' = MarkSwapping(kv, <<dk>>)
        /\ Enqueue(newjobs, <<PrepareSwap(kv, dk)>>)
  /\ UNCHANGED <<used, swapfile, processing, processed, pipe, todo, blocked,
                 iokeys, waiters, ready, crashed>>

-----------------------------------------------------------------------------
(* IOThreadEntryPoint: the loop of a worker thread                         *)

\* Worker t, of a running server, is at step st of its loop
Running(t, st) == ~crashed /\ thr[t] = st

\* Seeded defect: a worker exits without looking at io_newjobs.
ThreadExitEager(t) ==
  /\ Running(t, "idle")
  /\ thr' = [thr EXCEPT ![t] = "dead"]
  /\ UNCHANGED <<kv, used, swapfile, newjobs, processing, processed, pipe, todo,
                 blocked, iokeys, waiters, ready, crashed>>

\* lock; io_newjobs empty: io_active_threads--, unlock, exit
ThreadExit(t) ==
  /\ Running(t, "idle") /\ newjobs = <<>>
  /\ thr' = [thr EXCEPT ![t] = "dead"]
  /\ UNCHANGED <<kv, used, swapfile, newjobs, processing, processed, pipe, todo,
                 blocked, iokeys, waiters, ready, crashed>>

\* lock; move the first new job to io_processing, j->thread = self; unlock
ThreadTake(t) ==
  /\ Running(t, "idle") /\ newjobs # <<>>
  /\ newjobs' = Tail(newjobs)
  /\ processing' = Append(processing, [Head(newjobs) EXCEPT !.thread = t])
  /\ thr' = [thr EXCEPT ![t] = "busy"]
  /\ UNCHANGED <<kv, used, swapfile, processed, pipe, todo, blocked, iokeys,
                 waiters, ready, crashed>>

Held(t) == SelectInSeq(processing, LAMBDA j : j.thread = t)

\* The job's disk work, without io_mutex.  LOAD reads the value at
\* j->page; PREPARE_SWAP computes j->pages; DO_SWAP writes the value at
\* j->page, and if fseeko fails it sets j->canceled = 1.
ThreadWork(t) ==
  LET i == Held(t)  j == processing[i]
  IN /\ Running(t, "busy")
     /\ thr' = [thr EXCEPT ![t] = "done"]
     /\ CASE j.type = "load" ->
               /\ processing' = [processing EXCEPT ![i].val = swapfile[j.page]]
               /\ UNCHANGED swapfile
          [] j.type = "prepare" ->
               /\ processing' = [processing EXCEPT ![i].pages = ValPages[j.val]]
               /\ UNCHANGED swapfile
          [] j.type = "doswap" ->
               \E ok \in WriteOutcomes :
                 IF ok THEN /\ swapfile' = [p \in Pages |->
                                  IF p \in JobPages(j) THEN j.val ELSE swapfile[p]]
                            /\ UNCHANGED processing
                       ELSE /\ processing' = [processing EXCEPT ![i].canceled = TRUE]
                            /\ UNCHANGED swapfile
     /\ UNCHANGED <<kv, used, newjobs, processed, pipe, todo, blocked, iokeys,
                    waiters, ready, crashed>>

\* Seeded defect: the worker goes back to the loop without writing the
\* pipe byte.
ThreadFinishNoSignal(t) ==
  /\ Running(t, "done")
  /\ processing' = RemoveAt(processing, Held(t))
  /\ processed' = Append(processed, [processing[Held(t)] EXCEPT !.thread = Nil])
  /\ thr' = [thr EXCEPT ![t] = "idle"]
  /\ UNCHANGED <<kv, used, swapfile, newjobs, pipe, todo, blocked, iokeys,
                 waiters, ready, crashed>>

\* lock; move the job from io_processing to io_processed; unlock.  The
\* job's thread field is not read again and is dropped.
ThreadFinish(t) ==
  /\ Running(t, "done")
  /\ processing' = RemoveAt(processing, Held(t))
  /\ processed' = Append(processed, [processing[Held(t)] EXCEPT !.thread = Nil])
  /\ thr' = [thr EXCEPT ![t] = "signal"]
  /\ UNCHANGED <<kv, used, swapfile, newjobs, pipe, todo, blocked, iokeys,
                 waiters, ready, crashed>>

\* write(io_ready_pipe_write,"x",1), back to the top of the loop
ThreadSignal(t) ==
  /\ Running(t, "signal")
  /\ pipe' = pipe + 1
  /\ thr' = [thr EXCEPT ![t] = "idle"]
  /\ UNCHANGED <<kv, used, swapfile, newjobs, processing, processed, todo,
                 blocked, iokeys, waiters, ready, crashed>>
-----------------------------------------------------------------------------
(* vmThreadedIOCompletedJob: one byte read from the pipe, one job taken   *)
(* from the head of io_processed (toprocess is 1 with                     *)
(* REDIS_MAX_COMPLETED_JOBS_PROCESSED = 1 and a short io_processed).       *)

\* Seeded defect: a job is taken from io_processed without a pipe byte.
CompletionNoByte ==
  /\ HandlerRuns /\ processed # <<>>
  /\ pipe' = pipe - 1
  /\ processed' = Tail(processed)

Completion ==
  /\ HandlerRuns /\ pipe > 0 /\ processed # <<>>
  /\ pipe' = pipe - 1
  /\ processed' = Tail(processed)

\* a job flagged canceled is just freed
CompleteCanceled ==
  /\ Completion
  /\ Head(processed).canceled
  /\ UNCHANGED <<kv, used, swapfile, newjobs, processing, thr, todo, blocked,
                 iokeys, waiters, ready, crashed>>

\* LOAD: dictFind(j->db->dict,j->key) must succeed; the key object becomes
\* MEMORY, its pages are freed and its dict value is the loaded object;
\* the clients parked on it are woken.
CompleteLoad ==
  LET j == Head(processed)  o == kv[j.db][j.key]
  IN /\ Completion
     /\ ~j.canceled /\ j.type = "load"
     /\ kv' = [kv EXCEPT ![j.db][j.key] = InMemory(j.val)]
     /\ used' = used \ KeyPages(o)
     /\ crashed' = ~(o.st # "absent" /\ KeyPages(o) \subseteq used)
     /\ WakeWaiters(j.db, j.key)
     /\ UNCHANGED <<swapfile, newjobs, processing, thr, todo, blocked>>

\* vmFindContiguousPages: the first pages of the free runs of n pages.  Its
\* scan starts at vm_next_page and jumps at random, so it may fail even
\* when such a run exists.
FreeRuns(n) == {f \in Pages : f + n - 1 \in Pages /\ \A p \in f..(f + n - 1) : p \notin used}

\* Seeded defect: the undo of a failed swap-out is forgotten.
UndoSwapMissing(kvs, j) == kvs

\* key->storage = REDIS_VM_MEMORY: the undo of a swap-out that found no room
UndoSwap(kvs, j) == [kvs EXCEPT ![j.db][j.key].st = "memory"]

\* PREPARE_SWAP: if vmCanSwapOut(), find room; without it undo (storage = MEMORY), else mark
\* the pages used and queue the job again as DO_SWAP.
CompletePrepare ==
  LET j == Head(processed)  o == kv[j.db][j.key]
  IN /\ Completion
     /\ ~j.canceled /\ j.type = "prepare"
     /\ \E f \in (IF VmCanSwapOut THEN FreeRuns(j.pages) ELSE {}) \cup {Nil} :
          IF f = Nil
            THEN /\ kv' = UndoSwap(kv, j)
                 /\ crashed' = (o.st = "absent")
                 /\ UNCHANGED <<used, newjobs, thr>>
            ELSE /\ used' = used \cup (f .. (f + j.pages - 1))
                 /\ crashed' = (o.st = "absent" \/ (f .. (f + j.pages - 1)) \cap used # {})
                 /\ Enqueue(newjobs, <<[j EXCEPT !.type = "doswap", !.page = f]>>)
                 /\ UNCHANGED kv
     /\ UNCHANGED <<swapfile, processing, todo, blocked, iokeys, waiters, ready>>

\* Sequences of distinct keys the trytoswap loop may queue after a DO_SWAP:
\* none if a BGSAVE child runs or memory is not over vm_max_memory; otherwise it swaps until
\* io_newjobs reached vm_max_threads when checked (workers may take jobs
\* meanwhile) or no key is swappable.
SwapBatches(kvs) ==
  LET el == Swappable(kvs)
      need == IF Len(newjobs) < Cardinality(Threads)
                THEN Cardinality(Threads) - Len(newjobs) + 1 ELSE 1
      least == IF need < Cardinality(el) THEN need ELSE Cardinality(el)
  IN IF ~VmCanSwapOut THEN {<<>>} ELSE
     {<<>>} \cup UNION {{s \in [1..n -> el] : \A a, b \in 1..n : s[a] = s[b] => a = b} :
              n \in least..Cardinality(el)}

\* Seeded defect: key->vm.page is not set from the job.
SwappedOutNoPage(j) == [st |-> "swapped", val |-> Nil, page |-> 0, pages |-> j.pages]

\* the key object after a DO_SWAP: SWAPPED at the job's pages, value freed
SwappedOut(j) == [st |-> "swapped", val |-> Nil, page |-> j.page, pages |-> j.pages]

\* DO_SWAP: redisAssert(key->storage == REDIS_VM_SWAPPING); the key becomes
\* SWAPPED at j->page, its value is freed (dict value NULL); then more
\* swap requests are queued while memory is short.
CompleteDoSwap ==
  LET j == Head(processed)  o == kv[j.db][j.key]
      swapped == [kv EXCEPT ![j.db][j.key] = SwappedOut(j)]
  IN /\ Completion
     /\ ~j.canceled /\ j.type = "doswap"
     /\ crashed' = (o.st # "swapping")
     /\ \E batch \in SwapBatches(swapped) :
           /\ kv' = MarkSwapping(swapped, batch)
           /\ Enqueue(newjobs, [i \in 1..Len(batch) |-> PrepareSwap(swapped, batch[i])])
     /\ UNCHANGED <<used, swapfile, processing, todo, blocked, iokeys, waiters, ready>>

-----------------------------------------------------------------------------
(* BGSAVE with VM (rdbSaveBackground): the main thread waits in           *)
(* waitEmptyIOJobsQueue until no job is queued or running and no worker   *)
(* is alive, completing jobs meanwhile, then forks.  The child's rdbSave  *)
(* reads the values of SWAPPED and LOADING keys from the swap file        *)
(* (vmPreviewObject), so the parent may not write swap pages while it     *)
(* runs (vmCanSwapOut).  Only the forking thread exists in the child: a   *)
(* mutex another thread held at the fork stays locked there for ever.     *)

\* the swap pages the child reads: those of the keys it sees SWAPPED or
\* LOADING (rdbSave)
SavedPages ==
  UNION {KeyPages(kv[dk[1]][dk[2]]) :
           dk \in {dk \in DBs \X Keys : kv[dk[1]][dk[2]].st \in {"swapped", "loading"}}}

\* worker t may be inside vmReadObjectFromSwap or vmWriteObjectOnSwap,
\* holding io_swapfile_mutex
InSwapIO(t) ==
  thr[t] = "busy" /\ processing[Held(t)].type \in {"load", "doswap"}

\* Seeded defect: the wait only looks at io_newjobs.
IoJobsQueueEmptyNewOnly == newjobs = <<>>

\* the exit test of waitEmptyIOJobsQueue
IoJobsQueueEmpty ==
  newjobs = <<>> /\ processing = <<>> /\ \A t \in Threads : thr[t] = "dead"

\* rdbSaveBackground with bgsavechildpid == -1, called by bgsaveCommand or
\* a save point of serverCron: enter waitEmptyIOJobsQueue
BgSaveStart ==
  /\ BgSaveAllowed /\ MainFree /\ bgsave = "none"
  /\ bgsave' = "waiting"
  /\ UNCHANGED <<vmVars, snap, stuck>>

\* waitEmptyIOJobsQueue returns, fork(): the child (vmReopenSwapFile,
\* rdbSave) hangs at its first vmReadObjectFromSwap if a worker held the
\* swap file mutex; if fork fails, rdbSaveBackground returns REDIS_ERR.
BgSaveFork ==
  /\ ~crashed /\ bgsave = "waiting" /\ IoJobsQueueEmpty
  /\ \/ /\ bgsave' = "child"
        /\ snap' = [p \in Pages |-> IF p \in SavedPages THEN swapfile[p] ELSE Nil]
        /\ stuck' \in IF SavedPages # {} /\ \E t \in Threads : InSwapIO(t)
                       THEN BOOLEAN ELSE {FALSE}
     \/ /\ bgsave' = "none"
        /\ UNCHANGED <<snap, stuck>>
  /\ UNCHANGED vmVars

\* serverCron: wait3 returns the child's pid and backgroundSaveDoneHandler
\* sets bgsavechildpid = -1.  A stuck child never exits.
BgSaveDone ==
  /\ MainFree /\ bgsave = "child" /\ ~stuck
  /\ bgsave' = "none" /\ snap' = [p \in Pages |-> Nil] /\ stuck' = FALSE
  /\ UNCHANGED vmVars

BgSaveStep == BgSaveStart \/ BgSaveFork \/ BgSaveDone

-----------------------------------------------------------------------------
Init ==
  /\ kv = [d \in DBs |-> [k \in Keys |-> NoKey]]
  /\ used = {}
  /\ swapfile = [p \in Pages |-> Nil]
  /\ newjobs = <<>> /\ processing = <<>> /\ processed = <<>>
  /\ thr = [t \in Threads |-> "dead"]
  /\ pipe = 0
  /\ todo = <<>>
  /\ blocked = [c \in Clients |-> Nil]
  /\ iokeys = [c \in Clients |-> {}]
  /\ waiters = [d \in DBs |-> [k \in Keys |-> <<>>]]
  /\ ready = <<>>
  /\ crashed = FALSE
  /\ bgsave = "none"
  /\ snap = [p \in Pages |-> Nil]
  /\ stuck = FALSE

\* The commands clients send, with the unused arguments fixed
AnyVal == CHOOSE v \in Vals : TRUE
Requests ==
  {[name |-> n, k |-> k, k2 |-> k2, v |-> v] :
     n \in Commands, k \in Keys, k2 \in Keys, v \in Vals}
  \cap {r \in Command : /\ r.name # "rename" => r.k2 = r.k
                        /\ r.name # "set" => r.v = AnyVal}

MainStep ==
  \E s \in Step :
     \/ LookupKey(s)
     \/ SetKey(s)
     \/ DelKey(s)
     \/ RenameKey(s)

ClientStep ==
  \E c \in Clients, d \in DBs, cmd \in Requests :
     \/ IssueCommand(c, d, cmd)
     \/ IssueUnblocked(c, d, cmd)
     \/ IssueBlocked(c, d, cmd)

\* The steps below leave the BGSAVE state alone.
EventLoop ==
  /\ \/ CompleteCanceled \/ CompleteLoad \/ CompletePrepare \/ CompleteDoSwap
     \/ ResumeReadyClients
  /\ UNCHANGED saveVars

ThreadStep(t) ==
  /\ \/ ThreadExit(t) \/ ThreadTake(t) \/ ThreadWork(t)
     \/ ThreadFinish(t) \/ ThreadSignal(t)
  /\ UNCHANGED saveVars

CallStep == MainStep /\ UNCHANGED saveVars

\* Every action requires a running server: after a failed assertion the
\* process is gone and nothing happens any more.
Next ==
  \/ ClientStep /\ UNCHANGED saveVars
  \/ CallStep
  \/ EventLoop
  \/ CronSwapOut /\ UNCHANGED saveVars
  \/ CloseAllowed /\ \E c \in Clients : FreeClient(c) /\ UNCHANGED saveVars
  \/ \E t \in Threads : ThreadStep(t)
  \/ BgSaveStep

\* Worker threads are scheduled by the OS and the main thread keeps
\* running the commands it started, and polls in waitEmptyIOJobsQueue
\* until it may fork: weak fairness.  The event loop polls the pipe and
\* runs beforeSleep on every iteration, and serverCron reaps a finished
\* child every 100 ms, however many client events arrive in between:
\* strong fairness, since client commands can keep MainFree switching on
\* and off.
Fairness ==
  /\ \A t \in Threads : WF_vars(ThreadStep(t))
  /\ WF_vars(CallStep)
  /\ WF_vars(BgSaveFork)
  /\ SF_vars(EventLoop)
  /\ SF_vars(BgSaveDone)

Spec == Init /\ [][Next]_vars
FairSpec == Spec /\ Fairness
-----------------------------------------------------------------------------
(* Properties                                                              *)

\* Every variable holds what the corresponding server field can hold.
TypeOK ==
  /\ kv \in [DBs -> [Keys -> KeyObj]]
  /\ used \subseteq Pages
  /\ swapfile \in [Pages -> Vals \cup {Nil}]
  /\ \A q \in {newjobs, processing, processed} : q \in Seq(Job)
  /\ thr \in [Threads -> {"dead", "idle", "busy", "done", "signal"}]
  /\ pipe \in Nat
  /\ todo \in Seq(Step)
  /\ blocked \in [Clients -> Step \cup {Nil}]
  /\ iokeys \in [Clients -> SUBSET Keys]
  /\ waiters \in [DBs -> [Keys -> Seq(Clients)]]
  /\ ready \in Seq(Clients)
  /\ crashed \in BOOLEAN
  /\ bgsave \in {"none", "waiting", "child"}
  /\ snap \in [Pages -> Vals \cup {Nil}]
  /\ stuck \in BOOLEAN

Jobs == newjobs \o processing \o processed
LiveJobs(d, k, types) ==
  {i \in 1..Len(Jobs) : /\ ~Jobs[i].canceled /\ Jobs[i].type \in types
                        /\ Jobs[i].db = d /\ Jobs[i].key = k}

\* No assertion of the VM code fails: vmCancelThreadedIOJob always finds
\* the job it cancels, vmMarkPageUsed/vmMarkPageFree never see a page in
\* the wrong state, a completed job's key exists and a DO_SWAP completes
\* on a SWAPPING key, lookupKey never finds a value beside a swapped key.
NoAbort == ~crashed

\* The storage state of every key object agrees with the jobs in flight:
\* a SWAPPING key has exactly one live PREPARE_SWAP or DO_SWAP job, a
\* LOADING key exactly one live LOAD job, and no other key has any.  This
\* is what vmCancelThreadedIOJob, the completion handler and the workers'
\* error path must maintain between them.
JobStorageAgreement ==
  \A d \in DBs, k \in Keys :
     /\ Cardinality(LiveJobs(d, k, {"prepare", "doswap"})) =
          IF kv[d][k].st = "swapping" THEN 1 ELSE 0
     /\ Cardinality(LiveJobs(d, k, {"load"})) =
          IF kv[d][k].st = "loading" THEN 1 ELSE 0

\* Every used swap page belongs to exactly one owner: a SWAPPED or LOADING
\* key, or a live DO_SWAP job; no owner's pages are free.  Pages are
\* marked used when PREPARE_SWAP completes and freed by a load, a delete
\* or a cancellation: none may leak and none may be handed out twice.
Owners ==
  {<<"key", dk[1], dk[2]>> :
     dk \in {dk \in DBs \X Keys : kv[dk[1]][dk[2]].st \in {"swapped", "loading"}}}
  \cup {<<"job", i>> : i \in {x \in 1..Len(Jobs) : ~Jobs[x].canceled /\ Jobs[x].type = "doswap"}}
OwnedPages(w) == IF w[1] = "key" THEN KeyPages(kv[w[2]][w[3]]) ELSE JobPages(Jobs[w[2]])

SwapPagesAccounted ==
  /\ used = UNION {OwnedPages(w) : w \in Owners}
  /\ \A w1, w2 \in Owners : w1 # w2 => OwnedPages(w1) \cap OwnedPages(w2) = {}

\* Every byte in the pipe stands for a job in io_processed, and every job
\* there has its byte written or about to be: the assert
\* listLength(server.io_processed) != 0 of the completion handler holds.
PipeMatchesProcessed ==
  Len(processed) = pipe + Cardinality({t \in Threads : thr[t] = "signal"})

\* A job in io_newjobs always has a live worker to take it: queueIOJob
\* spawns one while fewer than vm_max_threads run, and a worker exits only
\* on an empty queue, both under io_mutex.
QueuedJobHasWorker ==
  newjobs # <<>> => \E t \in Threads : thr[t] # "dead"

\* The two sides of the swapped-key wait index agree with the parked
\* clients: c is in db->io_keys[k] exactly when it is parked on a command
\* of db d and k is in c->io_keys; a parked client waiting for no key is
\* in io_ready_clients once, and no other client is.  handleClientsBlocked-
\* OnSwappedKey, beforeSleep and freeClient each update part of it, and
\* beforeSleep calls every client of io_ready_clients.
IoWaitIndexConsistent ==
  /\ \A d \in DBs, k \in Keys, c \in Clients :
        (c \in ToSet(waiters[d][k])) <=>
          (blocked[c] # Nil /\ blocked[c].d = d /\ k \in iokeys[c])
  /\ \A c \in Clients :
        /\ blocked[c] = Nil => iokeys[c] = {}
        /\ Cardinality({i \in DOMAIN ready : ready[i] = c}) =
             IF blocked[c] # Nil /\ iokeys[c] = {} THEN 1 ELSE 0

\* The value a client would read: the dict value of a key in memory or
\* being swapped out, the swap file contents of a swapped or loading key.
LogicalKV ==
  [d \in DBs |-> [k \in Keys |->
     CASE kv[d][k].st = "absent" -> Nil
       [] kv[d][k].st \in {"memory", "swapping"} -> kv[d][k].val
       [] OTHER -> swapfile[kv[d][k].page]]]

KS == INSTANCE Keyspace WITH kv <- LogicalKV, pending <- todo, Absent <- Nil

\* Swapping is invisible: the key space seen through the VM layer changes
\* only when the main thread executes a call, by exactly what that call
\* does (Keyspace), never by a swap, a load or a job completing.
KeyspaceRefined == KS!Spec

\* A key being loaded (waitForSwappedKey queued a LOAD job) eventually
\* leaves LOADING: the load completes or is cancelled.
LoadFinishes ==
  \A d \in DBs, k \in Keys : kv[d][k].st = "loading" ~> kv[d][k].st # "loading"

\* A key being swapped out (vmSwapObjectThreaded) eventually leaves
\* SWAPPING: it is swapped out, or stays in memory on no room or a cancel.
SwapFinishes ==
  \A d \in DBs, k \in Keys : kv[d][k].st = "swapping" ~> kv[d][k].st # "swapping"

\* While a BGSAVE child runs, every swap page it reads still holds what it
\* held at the fork: vmCanSwapOut stops the cron, the PREPARE_SWAP
\* completion and the trytoswap loop from queueing a DO_SWAP, and
\* waitEmptyIOJobsQueue let every write already queued finish first.
ChildSwapPagesIntact ==
  bgsave = "child" => \A p \in Pages : snap[p] # Nil => swapfile[p] = snap[p]

\* Every BGSAVE ends: waitEmptyIOJobsQueue returns (the workers drain the
\* queues and exit), and the child, which no worker left holding the swap
\* file mutex, exits and is reaped by serverCron.
BgSaveFinishes == bgsave # "none" ~> bgsave = "none"

\* A client parked by waitForSwappedKey is eventually resumed.
ParkedClientResumes ==
  \A c \in Clients : blocked[c] # Nil ~> blocked[c] = Nil
=============================================================================
