----------------------------- MODULE PlainMutex -----------------------------
(***************************************************************************)
(* Locking a std::mutex that the caller holds already is undefined.  The   *)
(* builds the project has produce two outcomes: with the GNU library the   *)
(* thread waits for itself for ever, with Microsoft's the second lock is   *)
(* counted and the call goes on.                                           *)
(***************************************************************************)
VARIABLE relock     \* what a second lock does in this build

relockInit == relock \in {"blocks", "enters"}
SecondLockBlocks == relock = "blocks"
=============================================================================
