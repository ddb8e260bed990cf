--------------------------- MODULE MCVMThreadedIO ---------------------------
(***************************************************************************)
(* Model-checking instance of VMThreadedIO.  The .cfg files give DBs,      *)
(* Keys, Vals, Clients, Threads and Nil as model values and pick one of    *)
(* the definitions below for the other constants.                          *)
(***************************************************************************)
EXTENDS VMThreadedIO, TLC

CONSTANTS v1, v2

\* v1 serialises into one swap page, v2 into two: a value may straddle
\* pages and runs of free pages matter.
MCValPages == [v \in Vals |-> IF v = v1 THEN 1 ELSE 2]
MCNPages == 3

\* Commands that respect the key space contract of the VM layer, and all
\* of them (RENAME onto a key whose value is not in memory).
MCCommands == {"get", "exec", "set", "del"}
MCAllCommands == {"get", "exec", "set", "del", "rename"}

MCWriteOk == {TRUE}
MCWriteMayFail == {TRUE, FALSE}

\* Jobs in the three lists at once.  Cancelled jobs wait in io_processed
\* for their pipe byte, so without a bound a breadth-first search could
\* pile them up forever.
MaxJobs == 3
MaxJobsSmall == 2
JobBoundSmall == Len(Jobs) <= MaxJobsSmall
JobBound == Len(Jobs) <= MaxJobs

\* States that differ only in the stale bytes of free swap pages are
\* explored once: a page is read only while SwapPagesAccounted says a key
\* owns it, or by a BGSAVE child that saw it owned at the fork.
LiveSwapfile == [p \in Pages |-> IF p \in used \/ snap[p] # Nil THEN swapfile[p] ELSE Nil]
MCView == <<kv, used, LiveSwapfile, newjobs, processing, processed, thr, pipe,
            todo, blocked, iokeys, waiters, ready, crashed, saveVars>>

MCClientSymmetry == Permutations(Clients)

MCSymmetry == Permutations(Clients) \cup Permutations(Threads)
=============================================================================
