------------------------------ MODULE Keyspace ------------------------------
(***************************************************************************)
(* What the key space of a Redis server promises its clients, with no     *)
(* virtual memory in sight.  Every database maps each key to a value or   *)
(* to nothing.  Commands are accepted into a queue of calls and executed  *)
(* one at a time, in order: GET (a lookup) changes nothing, SET           *)
(* overwrites, DEL removes and RENAME moves a value from one key to       *)
(* another.  Nothing else changes the key space.  The detailed VM module  *)
(* (VMThreadedIO) is checked to implement this specification: a value     *)
(* that is swapped out, loaded back or half way through either is still   *)
(* the value the last command left there.                                 *)
(***************************************************************************)
EXTENDS Sequences, SequencesExt

CONSTANTS DBs, Keys, Vals, Absent

VARIABLES
  kv,       \* kv[d][k]: the value of key k in database d
  pending   \* calls accepted and not yet executed, in execution order

vars == <<kv, pending>>

Ops == {"lookup", "set", "del", "rename"}
Call == [op : Ops, d : DBs, k : Keys, k2 : Keys, v : Vals]

TypeOK ==
  /\ kv \in [DBs -> [Keys -> Vals \cup {Absent}]]
  /\ pending \in Seq(Call)

Init ==
  /\ kv = [d \in DBs |-> [k \in Keys |-> Absent]]
  /\ pending = <<>>

\* The key space after one call
Apply(s, m) ==
  CASE s.op = "set" -> [m EXCEPT ![s.d][s.k] = s.v]
    [] s.op = "del" -> [m EXCEPT ![s.d][s.k] = Absent]
    [] s.op = "rename" /\ s.k # s.k2 /\ m[s.d][s.k] # Absent ->
          [m EXCEPT ![s.d][s.k2] = m[s.d][s.k], ![s.d][s.k] = Absent]
    [] OTHER -> m       \* lookups, and RENAME errors (same key, no source)

\* Clients send commands: calls are appended, none is executed.
Accept ==
  /\ IsStrictPrefix(pending, pending')
  /\ UNCHANGED kv

\* The server executes the oldest accepted call.
Execute ==
  /\ pending # <<>>
  /\ pending' = Tail(pending)
  /\ kv' = Apply(Head(pending), kv)

Next == Accept \/ Execute

Spec == Init /\ [][Next]_vars
=============================================================================
