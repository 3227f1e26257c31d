--------------------------- MODULE QueueRefinement ---------------------------
(***************************************************************************)
(* WriteQueue implements SettledWrites: of all its state only the writes,  *)
(* the server's record, the answers and the completions are kept.          *)
(***************************************************************************)
EXTENDS WriteQueue

Promise == INSTANCE SettledWrites

(***************************************************************************)
(* Whatever happens to connections, tokens, the queue and the process, the *)
(* caller of setValue sees only what SettledWrites allows: no write older  *)
(* than an acknowledged one is applied, no answer is taken for a write the *)
(* server has not stored, no completion is called twice or for a write     *)
(* that is settled after it was cancelled.                                 *)
(***************************************************************************)
ImplementsPromise == Promise!Spec
==============================================================================
