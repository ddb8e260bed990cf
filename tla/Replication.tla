----------------------------- MODULE Replication -----------------------------
(***************************************************************************)
(* Master/slave replication of Redis 1.3.6 (redis.c, "Replication"), with *)
(* the background save it is built on.                                    *)
(*                                                                         *)
(* A slave's cron connects to the master and sends SYNC (syncWithMaster). *)
(* The master answers SYNC by starting a BGSAVE, by joining one whose     *)
(* differences another slave is already collecting, or by waiting for    *)
(* the next one (syncCommand).  Write commands are fed to every slave not *)
(* waiting for its BGSAVE to start (replicationFeedSlaves).  When the     *)
(* child ends, serverCron reaps it (backgroundSaveDoneHandler) and        *)
(* updateSlavesWaitingBgsave sends dump.rdb to the slaves that waited for *)
(* it and starts the next BGSAVE for those that waited for it to start.   *)
(* After the bulk transfer the slave loads the dump and applies the       *)
(* master's stream of writes.                                             *)
(*                                                                         *)
(* The data set is abstracted to the number of writes applied to it: the *)
(* writes are taken non-idempotent (INCR, RPUSH), so a replica that       *)
(* misses a write or applies one twice differs from the master.  A dump   *)
(* and a fork are the count they copy.  One database (SELECT is left out).*)
(***************************************************************************)
EXTENDS Naturals

CONSTANTS
  Slaves,        \* slave servers replicating this master
  MaxWrites,     \* write commands the master executes in a behaviour
  ForkOutcomes,  \* {TRUE} or {TRUE, FALSE}: may fork() fail in rdbSaveBackground?
  ExitKinds,     \* how a BGSAVE child ends: "ok" (exit 0), "err" (exit 1),
                 \* "signal" (killed before renaming its temp file)
  Nil            \* server.bgsavechildpid == -1

ASSUME /\ MaxWrites \in Nat
       /\ ForkOutcomes \subseteq BOOLEAN /\ TRUE \in ForkOutcomes
       /\ ExitKinds \subseteq {"ok", "err", "signal"} /\ ExitKinds # {}
       /\ Nil \notin Nat

\* "none": no connection; "sync": connected, SYNC sent and not yet
\* processed; the others are the master-side c->replstate
LinkStates == {"none", "sync", "start", "end", "bulk", "online"}

VARIABLES
  data,    \* the master's data set (writes applied)
  child,   \* the data set the BGSAVE child forked with, or Nil
  dbfile,  \* the data set in dump.rdb
  link,    \* link[s]: the connection of slave s, as above
  out,     \* out[s]: writes in the master's reply list for s
  base,    \* base[s]: the dump s is being sent (slave->repldbfd)
  sdata    \* sdata[s]: the slave's data set

vars == <<data, child, dbfile, link, out, base, sdata>>

Init ==
  /\ data = 0
  /\ child = Nil
  /\ dbfile = 0          \* the dump the master loaded at startup
  /\ link = [s \in Slaves |-> "none"]
  /\ out = [s \in Slaves |-> 0]
  /\ base = [s \in Slaves |-> 0]
  /\ sdata = [s \in Slaves |-> 0]

\* the slaves replicationFeedSlaves writes to: those in server.slaves
\* that are not waiting for a BGSAVE to start
FedAll == {s \in Slaves : link[s] \in {"start", "end", "bulk", "online"}}
Fed == {s \in Slaves : link[s] \in {"end", "bulk", "online"}}

\* call() of a command that changed server.dirty, with
\* replicationFeedSlaves appending it to the reply list of each fed slave
Write ==
  /\ data < MaxWrites
  /\ data' = data + 1
  /\ out' = [s \in Slaves |-> IF s \in Fed THEN out[s] + 1 ELSE out[s]]
  /\ UNCHANGED <<child, dbfile, link, base, sdata>>

\* bgsaveCommand, and the save points of serverCron: rdbSaveBackground
\* when no child runs; the fork may fail
BgSave ==
  /\ child = Nil
  /\ \E ok \in ForkOutcomes : child' = IF ok THEN data ELSE Nil
  /\ UNCHANGED <<data, dbfile, link, out, base, sdata>>

\* replicationCron: syncWithMaster connects and writes SYNC, then blocks
\* reading the bulk count
SlaveConnect(s) ==
  /\ link[s] = "none"
  /\ link' = [link EXCEPT ![s] = "sync"]
  /\ UNCHANGED <<data, child, dbfile, out, base, sdata>>

\* syncCommand.  A failed fork replies an error, on which syncWithMaster
\* closes the connection and stays in REDIS_REPL_CONNECT.
SyncCommand(s) ==
  /\ link[s] = "sync"
  /\ IF child # Nil
       THEN IF \E o \in Slaves : link[o] = "end"
              THEN \E o \in Slaves :
                     /\ link[o] = "end"
                     /\ link' = [link EXCEPT ![s] = "end"]
                     /\ out' = [out EXCEPT ![s] = out[o]]     \* listDup(slave->reply)
                     /\ UNCHANGED child
              ELSE /\ link' = [link EXCEPT ![s] = "start"]
                   /\ UNCHANGED <<child, out>>
       ELSE \E ok \in ForkOutcomes :
              IF ok THEN /\ child' = data
                         /\ link' = [link EXCEPT ![s] = "end"]
                         /\ UNCHANGED out
                    ELSE /\ link' = [link EXCEPT ![s] = "none"]
                         /\ UNCHANGED <<child, out>>
  /\ UNCHANGED <<data, dbfile, base, sdata>>

\* Seeded defect: the slaves waiting for the BGSAVE to start do not get
\* the next one.
UpdateSlavesNoRestart(ok, l0) ==
  LET l1 == [s \in Slaves |-> CASE l0[s] = "start" -> "end"
                                [] l0[s] = "end"   -> IF ok THEN "bulk" ELSE "none"
                                [] OTHER           -> l0[s]]
  IN /\ link' = [s \in Slaves |-> IF l0[s] = "start" THEN "start" ELSE l1[s]]
     /\ child' = Nil
     /\ out' = [s \in Slaves |-> IF l1[s] = "none" THEN 0 ELSE out[s]]
     /\ base' = [s \in Slaves |-> IF l0[s] = "end" /\ ok THEN dbfile' ELSE base[s]]

\* updateSlavesWaitingBgsave(ok) on the links l0: a slave waiting for the
\* start now waits for the end of a new BGSAVE; a slave waiting for the
\* end is sent dump.rdb, or freed if the BGSAVE failed.  If a new BGSAVE
\* was wanted and its fork fails, the slaves still "start" are freed.
UpdateSlavesWaitingBgsave(ok, l0) ==
  LET l1 == [s \in Slaves |-> CASE l0[s] = "start" -> "end"
                                [] l0[s] = "end"   -> IF ok THEN "bulk" ELSE "none"
                                [] OTHER           -> l0[s]]
      startbgsave == \E s \in Slaves : l0[s] = "start"
  IN /\ IF startbgsave
          THEN \E forked \in ForkOutcomes :
                 IF forked THEN child' = data /\ link' = l1
                 ELSE /\ child' = Nil
                      /\ link' = [s \in Slaves |-> IF l1[s] = "start" THEN "none" ELSE l1[s]]
          ELSE child' = Nil /\ link' = l1
     /\ out' = [s \in Slaves |-> IF l1[s] = "none" THEN 0 ELSE out[s]]
     /\ base' = [s \in Slaves |-> IF l0[s] = "end" /\ ok THEN dbfile' ELSE base[s]]

\* The child ends and serverCron reaps it with wait3:
\* backgroundSaveDoneHandler.  WEXITSTATUS of a status killed by a signal
\* is 0, so such a child counts as a success; its temp file is removed and
\* dump.rdb is the previous one.
BgSaveDone ==
  /\ child # Nil
  /\ \E k \in ExitKinds :
       /\ dbfile' = IF k = "ok" THEN child ELSE dbfile
       /\ UpdateSlavesWaitingBgsave(k \in {"ok", "signal"}, link)
  /\ UNCHANGED <<data, sdata>>

\* syncWithMaster on the slave: read $<size> and the dump into a temp
\* file, rename it over dump.rdb, emptyDb and rdbLoad it; the master link
\* is then CONNECTED
SlaveLoad(s, dump) == sdata' = [sdata EXCEPT ![s] = dump]

\* sendBulkToSlave until repldboff == repldbsize: the slave is ONLINE
\* once it has the whole dump, which it loads
SendBulk(s) ==
  /\ link[s] = "bulk"
  /\ link' = [link EXCEPT ![s] = "online"]
  /\ SlaveLoad(s, base[s])
  /\ UNCHANGED <<data, child, dbfile, out, base>>

\* Seeded defect: the reply list is sent without checking it holds one.
SendReplyNoCheck(s) ==
  /\ link[s] = "online"
  /\ out' = [out EXCEPT ![s] = @ - 1]
  /\ sdata' = [sdata EXCEPT ![s] = @ + 1]
  /\ UNCHANGED <<data, child, dbfile, link, base>>

\* sendReplyToClient sends the head of the reply list; the slave runs it
\* as a command of its master client
SendReply(s) ==
  /\ link[s] = "online"
  /\ out[s] > 0
  /\ out' = [out EXCEPT ![s] = @ - 1]
  /\ sdata' = [sdata EXCEPT ![s] = @ + 1]
  /\ UNCHANGED <<data, child, dbfile, link, base>>

\* The connection drops (a read or write error on either side, the
\* slave's 3600 s timeout in syncReadLine, SLAVEOF host port): freeClient
\* on the master drops the slave from server.slaves with its reply list;
\* the slave is back in REDIS_REPL_CONNECT.  Both ends are closed at once.
Disconnect(s) ==
  /\ link[s] # "none"
  /\ link' = [link EXCEPT ![s] = "none"]
  /\ out' = [out EXCEPT ![s] = 0]
  /\ UNCHANGED <<data, child, dbfile, base, sdata>>

Next ==
  \/ Write
  \/ BgSave
  \/ BgSaveDone
  \/ \E s \in Slaves :
       \/ SlaveConnect(s)
       \/ SyncCommand(s)
       \/ SendBulk(s)
       \/ SendReply(s)
       \/ Disconnect(s)

Spec == Init /\ [][Next]_vars

\* The event loop serves each slave's SYNC and writable socket, the child
\* ends and is reaped by the cron, and a slave's cron keeps reconnecting.
\* Writes, BGSAVE commands and dropped connections are not forced.
FairSpec ==
  /\ Spec
  /\ WF_vars(BgSaveDone)
  /\ \A s \in Slaves :
       /\ WF_vars(SlaveConnect(s)) /\ WF_vars(SyncCommand(s))
       /\ WF_vars(SendBulk(s)) /\ WF_vars(SendReply(s))

-----------------------------------------------------------------------------
TypeOK ==
  /\ data \in 0..MaxWrites
  /\ child \in 0..MaxWrites \cup {Nil}
  /\ dbfile \in 0..MaxWrites
  /\ link \in [Slaves -> LinkStates]
  /\ out \in [Slaves -> 0..MaxWrites]
  /\ base \in [Slaves -> 0..MaxWrites]
  /\ sdata \in [Slaves -> 0..MaxWrites]

\* Every slave's dump plus its pending stream is the master's data set:
\* a slave waiting for the end of a BGSAVE has collected exactly the
\* writes made since that child forked (so a child runs), one being sent
\* the dump has collected the writes made since the dump's fork, and an
\* online slave's data set plus its unsent writes is the master's.  This
\* is the join of syncCommand, replicationFeedSlaves' skip of "start"
\* slaves and updateSlavesWaitingBgsave.
StreamExact ==
  \A s \in Slaves :
    /\ link[s] = "end" => child # Nil /\ child + out[s] = data
    /\ link[s] = "bulk" => base[s] + out[s] = data
    /\ link[s] = "online" => sdata[s] + out[s] = data

\* spec.md 8, replication convergence: a slave that is online and has
\* been sent every write holds the master's data set.
ReplicaConverges ==
  \A s \in Slaves : link[s] = "online" /\ out[s] = 0 => sdata[s] = data

\* A SYNC is answered: a slave that sent SYNC ends up online or
\* disconnected, whatever BGSAVEs the save points start meanwhile.
SyncCompletes ==
  \A s \in Slaves :
    link[s] \in {"sync", "start", "end", "bulk"} ~> link[s] \in {"online", "none"}
=============================================================================
