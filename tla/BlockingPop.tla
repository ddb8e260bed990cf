----------------------------- MODULE BlockingPop -----------------------------
(***************************************************************************)
(* Blocking list pops of Redis 1.3.6 (redis.c, "Blocking RPOP/LPOP" and   *)
(* the list commands that feed it).                                        *)
(*                                                                         *)
(* BLPOP/BRPOP on keys whose lists are all empty or absent parks the      *)
(* client (blockForKeys): the client remembers its keys                   *)
(* (c->blockingkeys) and is appended to db->blockingkeys[k] for each of   *)
(* them.  A push to a key with waiters hands the element to the oldest    *)
(* waiter instead of storing it (handleClientsWaitingListPush), which     *)
(* unblocks it from all its keys (unblockClientWaitingData) and, at once, *)
(* runs the commands it pipelined while blocked (processInputBuffer):     *)
(* commands nest inside the command that unblocked the client.  The cron  *)
(* (closeTimedoutClients) closes idle clients and times out blocked ones. *)
(*                                                                         *)
(* Every value is a list (the wrong-type paths are left out) and every    *)
(* pushed element is a distinct number, so an element can be traced.      *)
(* Time is abstracted to what the cron's tests distinguish: whether a     *)
(* client has been idle longer than maxidletime, and whether a blocked    *)
(* client's deadline has passed.                                           *)
(***************************************************************************)
EXTENDS Naturals, Sequences, SequencesExt, FiniteSets

CONSTANTS
  Keys,          \* list keys of the database
  Clients,       \* connected clients, in server.clients order by ClientOrder
  Ops,           \* the commands clients may send
  MaxElems,      \* elements the clients push in a behaviour
  PipeDepth,     \* commands a blocked client may pipeline behind its BLPOP
  IdleTimeout,   \* server.maxidletime != 0
  Timeouts,      \* BLPOP timeout arguments: "zero", "positive", "negative"
  Nil            \* an absent key

Elems == 1..MaxElems
Where == {"head", "tail"}
KeySeqs == [1..1 -> Keys] \cup [1..2 -> Keys]
ClientOrder == SetToSeq(Clients)

ASSUME /\ Ops \subseteq {"push", "pop", "bpop", "rpoplpush", "del", "rename"}
       /\ MaxElems \in Nat /\ PipeDepth \in Nat /\ IdleTimeout \in BOOLEAN
       /\ Timeouts \subseteq {"zero", "positive", "negative"}
       /\ Nil \notin Seq(Elems)

Cmd ==
       [op : {"push"}, k : Keys, e : Elems, where : Where]
  \cup [op : {"pop"}, k : Keys, where : Where]
  \cup [op : {"bpop"}, keys : KeySeqs, to : Timeouts, where : Where]
  \cup [op : {"rpoplpush", "rename"}, k : Keys, k2 : Keys]
  \cup [op : {"del"}, k : Keys]

VARIABLES
  store,      \* store[k]: the list at key k, or Nil
  bk,         \* bk[k]: db->blockingkeys[k], the clients blocked on k, oldest first
  ckeys,      \* ckeys[c]: c->blockingkeys (<<>> when not REDIS_BLOCKED)
  deadline,   \* c->blockingto: "none" (0), "pending" or "passed" (< now)
  blocked,    \* server.blpop_blocked_clients
  inbuf,      \* inbuf[c]: commands in c->querybuf not yet processed
  alive,      \* the client is connected (not freed)
  idle,       \* now - c->lastinteraction > server.maxidletime
  nextElem,   \* the element the next push will carry
  taken,      \* elements handed to a client by a pop or to a blocked client
  dropped,    \* elements freed with their list by DEL or an overwriting RENAME
  ub          \* a step did something undefined (use of a freed node or list)

vars == <<store, bk, ckeys, deadline, blocked, inbuf, alive, idle, nextElem,
          taken, dropped, ub>>

\* The server state the command handlers read and write, as one record
Srv == [store |-> store, bk |-> bk, ckeys |-> ckeys, deadline |-> deadline,
        blocked |-> blocked, inbuf |-> inbuf, alive |-> alive, taken |-> taken,
        dropped |-> dropped, ub |-> ub]

Install(R) ==
  /\ store' = R.store /\ bk' = R.bk /\ ckeys' = R.ckeys /\ deadline' = R.deadline
  /\ blocked' = R.blocked /\ inbuf' = R.inbuf /\ alive' = R.alive
  /\ taken' = R.taken /\ dropped' = R.dropped /\ ub' = R.ub

IsBlocked(R, c) == R.ckeys[c] # <<>>
HasElems(R, k) == R.store[k] # Nil /\ R.store[k] # <<>>
Elements(l) == IF l = Nil THEN {} ELSE ToSet(l)

\* listSearchKey + listDelNode: remove the first node holding x
DelFirst(s, x) == RemoveAt(s, SelectInSeq(s, LAMBDA y : y = x))
\* listDelNode(l, ln) for the node ln holding x found last in l
RemoveLastOf(s, x) == RemoveAt(s, SelectLastInSeq(s, LAMBDA y : y = x))

-----------------------------------------------------------------------------
(* unblockClientWaitingData: for every key of c->blockingkeys, remove c   *)
(* from db->blockingkeys[k] (assert(de != NULL), then listDelNode of      *)
(* listSearchKey(l,c), which must find c); an emptied list is deleted.    *)

\* Seeded defect: the client is removed from its first key only.
UnblockKeysFirstOnly(R, c) ==
  LET k == Head(R.ckeys[c])
  IN [R EXCEPT !.bk[k] = DelFirst(@, c),
               !.ub = @ \/ c \notin ToSet(R.bk[k])]

RECURSIVE UnblockFrom(_, _, _)
UnblockFrom(R, c, ks) ==
  IF ks = <<>> THEN R
  ELSE LET k == Head(ks)
       IN UnblockFrom([R EXCEPT !.ub = @ \/ c \notin ToSet(R.bk[k]),
                                !.bk[k] = IF c \in ToSet(@) THEN DelFirst(@, c) ELSE @],
                      c, Tail(ks))

UnblockKeys(R, c) == UnblockFrom(R, c, R.ckeys[c])

\* Seeded defect: blpop_blocked_clients is decremented once per key.
UnblockedCountPerKey(R, c) ==
  [UnblockKeys(R, c) EXCEPT !.ckeys[c] = <<>>, !.deadline[c] = "none",
                            !.blocked = @ - Len(R.ckeys[c])]

\* the client structure cleaned up: REDIS_BLOCKED off, counter decremented
Unblocked(R, c) ==
  [UnblockKeys(R, c) EXCEPT !.ckeys[c] = <<>>, !.deadline[c] = "none",
                            !.blocked = @ - 1]

\* blockForKeys: c->blockingkeys = keys, blockingto, and c appended to
\* db->blockingkeys[k] once per occurrence of k in keys.
\* strtol(timeout): 0 waits forever, a positive timeout becomes now+t, a
\* negative one stays negative and so is already in the past.
BlockForKeys(R, c, keys, to) ==
  [R EXCEPT !.ckeys[c] = keys,
            !.deadline[c] = CASE to = "zero" -> "none" [] to = "positive" -> "pending"
                              [] to = "negative" -> "passed",
            !.bk = [k \in Keys |-> @[k] \o [j \in 1..Cardinality({i \in 1..Len(keys) : keys[i] = k}) |-> c]],
            !.blocked = @ + 1]

-----------------------------------------------------------------------------
(* The command handlers.  Serve, Unblock, Push, RPopLPush, Exec and       *)
(* ProcessInput call one another: a push unblocks a client whose          *)
(* pipelined commands run before the push returns.                        *)

RECURSIVE ProcessInput(_, _), Exec(_, _, _), Serve(_, _, _), Unblock(_, _),
          Push(_, _, _, _), RPopLPush(_, _, _, _)

\* unblockClientWaitingData: then, if c->querybuf holds data (it is NULL
\* when called from freeClient), processInputBuffer(c).
Unblock(R, c) == ProcessInput(Unblocked(R, c), c)

\* handleClientsWaitingListPush with a waiter: the element goes to the
\* first client of db->blockingkeys[k], which is unblocked.
Serve(R, k, e) ==
  LET r == Head(R.bk[k])
  IN Unblock([R EXCEPT !.taken = @ \cup {e}], r)

\* Seeded defect: the element is stored even though a waiter was served.
PushIgnoreWaiters(R, k, e, where) ==
  IF R.store[k] = Nil
    THEN [R EXCEPT !.store[k] = <<e>>]
    ELSE [R EXCEPT !.store[k] = IF where = "head" THEN <<e>> \o @ ELSE Append(@, e)]

\* pushGenericCommand: on an absent key, hand the element to a waiter or
\* create the list; on an existing list, hand it to a waiter or add it.
Push(R, k, e, where) ==
  IF R.bk[k] # <<>> THEN Serve(R, k, e)
  ELSE IF R.store[k] = Nil THEN [R EXCEPT !.store[k] = <<e>>]
  ELSE [R EXCEPT !.store[k] = IF where = "head" THEN <<e>> \o @ ELSE Append(@, e)]

\* Seeded defect: the element is replied but its node is not deleted.
PopKeepNode(R, c, k, where) ==
  IF ~HasElems(R, k) THEN R
  ELSE LET e == IF where = "head" THEN Head(R.store[k]) ELSE Last(R.store[k])
       IN [R EXCEPT !.taken = @ \cup {e}]

\* popGenericCommand: nil reply on an absent key or an empty list, else
\* the first (last) element is returned and its node deleted.  An emptied
\* list stays in the key space.
Pop(R, c, k, where) ==
  IF ~HasElems(R, k) THEN R
  ELSE LET l == R.store[k]
           e == IF where = "head" THEN Head(l) ELSE Last(l)
       IN [R EXCEPT !.store[k] = IF where = "head" THEN Tail(l) ELSE Front(l),
                    !.taken = @ \cup {e}]

\* Seeded defect: only the first key is looked at before blocking.
BPopFirstKeyOnly(R, c, keys, to, where) ==
  IF HasElems(R, keys[1]) THEN Pop(R, c, keys[1], where) ELSE BlockForKeys(R, c, keys, to)

\* blockingPopGenericCommand: pop from the first key holding elements,
\* else block on all of them.
BPop(R, c, keys, to, where) ==
  LET i == SelectInSeq(keys, LAMBDA k : HasElems(R, k))
  IN IF i # 0 THEN Pop(R, c, keys[i], where) ELSE BlockForKeys(R, c, keys, to)

\* rpoplpushcommand: ln = last node of src; hand ele to a waiter on dst or
\* push it at the head of dst (creating it); reply ele; finally
\* listDelNode(srclist, ln).  srclist and ln were read before the waiter's
\* pipelined commands ran: if those freed the list or the node, the
\* final delete is a use after free.
RPopLPush(R, c, src, dst) ==
  IF ~HasElems(R, src) THEN R
  ELSE LET ele == Last(R.store[src])
           R2 == IF R.bk[dst] # <<>>
                   THEN Serve(R, dst, ele)
                   ELSE [R EXCEPT !.store[dst] = <<ele>> \o (IF @ = Nil THEN <<>> ELSE @)]
       IN IF R2.store[src] # Nil /\ ele \in ToSet(R2.store[src])
            THEN [R2 EXCEPT !.store[src] = RemoveLastOf(@, ele)]
            ELSE [R2 EXCEPT !.ub = TRUE]

\* delCommand on one key: deleteKey frees the list and its elements
Del(R, k) ==
  IF R.store[k] = Nil THEN R
  ELSE [R EXCEPT !.store[k] = Nil, !.dropped = @ \cup Elements(R.store[k])]

\* renameGenericCommand(c,0): same name -> error; no source -> error;
\* dictReplace(dst) frees dst's old list; deleteKey(src).  No waiter of
\* dst is looked at.
Rename(R, src, dst) ==
  IF src = dst \/ R.store[src] = Nil THEN R
  ELSE [R EXCEPT !.store[dst] = R.store[src], !.store[src] = Nil,
                 !.dropped = @ \cup Elements(R.store[dst])]

\* call(c, cmd) for one parsed command
Exec(R, c, cmd) ==
  CASE cmd.op = "push"      -> Push(R, cmd.k, cmd.e, cmd.where)
    [] cmd.op = "pop"       -> Pop(R, c, cmd.k, cmd.where)
    [] cmd.op = "bpop"      -> BPop(R, c, cmd.keys, cmd.to, cmd.where)
    [] cmd.op = "rpoplpush" -> RPopLPush(R, c, cmd.k, cmd.k2)
    [] cmd.op = "del"       -> Del(R, cmd.k)
    [] cmd.op = "rename"    -> Rename(R, cmd.k, cmd.k2)

\* processInputBuffer: run the buffered commands one after another and
\* return as soon as the client is blocked.
ProcessInput(R, c) ==
  IF IsBlocked(R, c) \/ R.inbuf[c] = <<>> THEN R
  ELSE ProcessInput(Exec([R EXCEPT !.inbuf[c] = Tail(@)], c, Head(R.inbuf[c])), c)

\* freeClient: sdsfree(querybuf) and querybuf = NULL first (the elements of
\* pipelined pushes are freed unread), then unblockClientWaitingData if
\* blocked (no input processed), then the client is gone.
FreeClient(R, c) ==
  LET R1 == [R EXCEPT !.inbuf[c] = <<>>,
                      !.dropped = @ \cup {x.e : x \in {y \in ToSet(R.inbuf[c]) : y.op = "push"}}]
      R2 == IF IsBlocked(R1, c) THEN Unblocked(R1, c) ELSE R1
  IN [R2 EXCEPT !.alive[c] = FALSE]

-----------------------------------------------------------------------------
(* Actions                                                                 *)

\* the commands a client may send; a push carries the next fresh element
Requests ==
  {cmd \in Cmd : /\ cmd.op \in Ops
                 /\ cmd.op = "push" => cmd.e = nextElem}

\* readQueryFromClient: the bytes are appended to c->querybuf and
\* lastinteraction is updated; processInputBuffer runs unless the client
\* is REDIS_BLOCKED.  A client sends its next command only after the
\* reply to the previous one unless it is blocked, when it may pipeline
\* up to PipeDepth commands.
Send(c) ==
  /\ ~ub /\ alive[c]
  /\ IsBlocked(Srv, c) => Len(inbuf[c]) < PipeDepth
  /\ \E cmd \in Requests :
       /\ cmd.op = "push" => nextElem <= MaxElems
       /\ nextElem' = IF cmd.op = "push" THEN nextElem + 1 ELSE nextElem
       /\ idle' = [idle EXCEPT ![c] = FALSE]
       /\ LET R == [Srv EXCEPT !.inbuf[c] = Append(@, cmd)]
          IN Install(IF IsBlocked(R, c) THEN R ELSE ProcessInput(R, c))

\* The client closes its connection: freeClient
Close(c) ==
  /\ ~ub /\ alive[c]
  /\ Install(FreeClient(Srv, c))
  /\ UNCHANGED <<idle, nextElem>>

\* Time passes: the client has not been heard from for maxidletime
IdleElapses(c) ==
  /\ ~ub /\ alive[c] /\ IdleTimeout /\ ~idle[c]
  /\ idle' = [idle EXCEPT ![c] = TRUE]
  /\ UNCHANGED <<store, bk, ckeys, deadline, blocked, inbuf, alive, nextElem,
                 taken, dropped, ub>>

\* Time passes: a blocked client's blockingto is now in the past
DeadlinePasses(c) ==
  /\ ~ub /\ deadline[c] = "pending"
  /\ deadline' = [deadline EXCEPT ![c] = "passed"]
  /\ UNCHANGED <<store, bk, ckeys, blocked, inbuf, alive, idle, nextElem,
                 taken, dropped, ub>>

\* closeTimedoutClients, one client: an idle client (not slave or master)
\* is freed; else a blocked client past its deadline gets a nil reply and
\* is unblocked, which runs its pipelined commands.
TimeoutOne(R, c) ==
  IF ~R.alive[c] THEN R
  ELSE IF IdleTimeout /\ idle[c] THEN FreeClient(R, c)
  ELSE IF IsBlocked(R, c) /\ R.deadline[c] = "passed" THEN Unblock(R, c)
  ELSE R

RECURSIVE TimeoutAll(_, _)
TimeoutAll(R, cs) == IF cs = <<>> THEN R ELSE TimeoutAll(TimeoutOne(R, Head(cs)), Tail(cs))

\* serverCron: closeTimedoutClients runs when maxidletime is set (every
\* tenth loop) or while some client is blocked in BLPOP.
CronRuns(n) == IdleTimeout \/ n > 0

CloseTimedoutClients ==
  /\ ~ub /\ CronRuns(blocked)
  /\ \E R \in {TimeoutAll(Srv, ClientOrder)} : Install(R)
  /\ UNCHANGED <<idle, nextElem>>

Init ==
  /\ store = [k \in Keys |-> Nil]
  /\ bk = [k \in Keys |-> <<>>]
  /\ ckeys = [c \in Clients |-> <<>>]
  /\ deadline = [c \in Clients |-> "none"]
  /\ blocked = 0
  /\ inbuf = [c \in Clients |-> <<>>]
  /\ alive = [c \in Clients |-> TRUE]
  /\ idle = [c \in Clients |-> FALSE]
  /\ nextElem = 1
  /\ taken = {} /\ dropped = {}
  /\ ub = FALSE

Next ==
  \/ \E c \in Clients : Send(c) \/ Close(c) \/ IdleElapses(c) \/ DeadlinePasses(c)
  \/ CloseTimedoutClients

Spec == Init /\ [][Next]_vars

-----------------------------------------------------------------------------
(* Properties                                                              *)

\* Every variable holds what its server field can hold; in particular the
\* unsigned server.blpop_blocked_clients never goes below zero.
TypeOK ==
  /\ store \in [Keys -> Seq(Elems) \cup {Nil}]
  /\ bk \in [Keys -> Seq(Clients)]
  /\ ckeys \in [Clients -> Seq(Keys)]
  /\ deadline \in [Clients -> {"none", "pending", "passed"}]
  /\ blocked \in Nat
  /\ inbuf \in [Clients -> Seq(Cmd)]
  /\ alive \in [Clients -> BOOLEAN] /\ idle \in [Clients -> BOOLEAN]
  /\ nextElem \in 1..(MaxElems + 1)
  /\ taken \subseteq Elems /\ dropped \subseteq Elems
  /\ ub \in BOOLEAN

\* No step touches freed memory or deletes a node that is not there:
\* unblockClientWaitingData always finds the client in every list it
\* searches, and RPOPLPUSH's final listDelNode finds its list and node.
NoUndefinedBehaviour == ~ub

Count(s, x) == Cardinality({i \in 1..Len(s) : s[i] = x})

\* The two sides of the blocking index agree: client c appears in
\* db->blockingkeys[k] exactly as many times as k appears in
\* c->blockingkeys, and only REDIS_BLOCKED clients appear at all, however
\* blocks, pushes, timeouts, disconnects and nested pipelined commands
\* interleave; and server.blpop_blocked_clients, which lets serverCron
\* run closeTimedoutClients, counts exactly the blocked clients.
WaitIndexConsistent ==
  /\ \A k \in Keys, c \in Clients : Count(bk[k], c) = Count(ckeys[c], k)
  /\ blocked = Cardinality({c \in Clients : IsBlocked(Srv, c)})

\* Every element pushed so far is in exactly one place: once in one list,
\* or handed to exactly one client, or freed with its list; none is
\* duplicated by being both handed to a waiter and stored.
Pending == {cmd.e : cmd \in {x \in UNION {ToSet(inbuf[c]) : c \in Clients} : x.op = "push"}}
Placed(e) == Cardinality({k \in Keys : store[k] # Nil /\ e \in ToSet(store[k])})
ElementsConserved ==
  \A e \in 1..(nextElem - 1) :
     /\ \A k \in Keys : store[k] # Nil => Count(store[k], e) <= 1
     /\ Placed(e) + (IF e \in taken THEN 1 ELSE 0) + (IF e \in dropped THEN 1 ELSE 0) <= 1
     /\ e \notin Pending =>
          Placed(e) + (IF e \in taken THEN 1 ELSE 0) + (IF e \in dropped THEN 1 ELSE 0) = 1

\* The comment above blockForKeys: a client blocks only when every key it
\* waits on is absent or an empty list, and a push to such a key goes to
\* the oldest waiter: so no client is ever blocked on a key that holds
\* elements.
BlockedOnlyOnEmpty ==
  \A c \in Clients : \A i \in 1..Len(ckeys[c]) : ~HasElems(Srv, ckeys[c][i])

\* spec.md (4.K): "Blocking pops respect their per-call deadline": the
\* idle-client timer never closes a client that is blocked and whose
\* deadline has not passed (or that waits with no deadline).
IdleCloseSparesBlocked ==
  [][CloseTimedoutClients =>
       \A c \in Clients : (alive[c] /\ ~alive'[c]) =>
          ~(ckeys[c] # <<>> /\ deadline[c] # "passed")]_vars
=============================================================================
