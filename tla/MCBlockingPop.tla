---------------------------- MODULE MCBlockingPop ----------------------------
(* Instances of BlockingPop for TLC.                                       *)
EXTENDS BlockingPop, TLC

\* BLPOP timeout arguments: 0 (wait forever), a positive number of seconds,
\* and a negative one
AllTimeouts == {"zero", "positive", "negative"}
NoTimeout == {"zero"}
PositiveTimeout == {"positive"}

\* the commands each run sends
MainOps == {"push", "pop", "bpop", "del"}
RenameOps == {"push", "bpop", "rename"}
RPopLPushOps == {"push", "bpop", "rpoplpush", "pop", "del"}
BlockOps == {"push", "bpop", "pop"}

KeySymmetry == Permutations(Keys)
=============================================================================
