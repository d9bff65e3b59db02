----------------------------- MODULE AtomicDisk -----------------------------
(***************************************************************************)
(* What the logging layer (log.c) promises to the file system: at most one *)
(* transaction at a time; its block writes are visible at once to whoever  *)
(* reads through the buffer cache, and reach the disk all together or, if  *)
(* the machine goes down before the commit, not at all.                    *)
(***************************************************************************)
CONSTANTS Proc,     \* processes that call begin_trans / commit_trans
          Block,    \* sectors outside the log area
          Val,      \* contents of one sector
          NoProc    \* nobody is in a transaction

VARIABLES committed,  \* what a reboot at this moment would find
          view,       \* what bread() returns at this moment
          owner,      \* the process inside begin_trans .. commit_trans
          sealed      \* the owner's transaction has been committed

avars == <<committed, view, owner, sealed>>

AInit ==
  /\ committed \in [Block -> Val]
  /\ view = committed
  /\ owner = NoProc
  /\ sealed = FALSE

ABegin(p) ==
  /\ owner = NoProc
  /\ owner' = p
  /\ UNCHANGED <<committed, view, sealed>>

AWrite(p, b, v) ==
  /\ owner = p
  /\ ~sealed
  /\ view' = [view EXCEPT ![b] = v]
  /\ UNCHANGED <<committed, owner, sealed>>

\* Every write of the transaction becomes durable in this one step.
ACommit(p) ==
  /\ owner = p
  /\ ~sealed
  /\ committed' = view
  /\ sealed' = TRUE
  /\ UNCHANGED <<view, owner>>

AEnd(p) ==
  /\ owner = p
  /\ view = committed
  /\ owner' = NoProc
  /\ sealed' = FALSE
  /\ UNCHANGED <<committed, view>>

\* A power failure loses what was not committed, and nothing else.
ACrash ==
  /\ view' = committed
  /\ owner' = NoProc
  /\ sealed' = FALSE
  /\ UNCHANGED committed

ANext ==
  \/ \E p \in Proc :
       \/ ABegin(p)
       \/ \E b \in Block, v \in Val : AWrite(p, b, v)
       \/ ACommit(p)
       \/ AEnd(p)
  \/ ACrash

ASpec == AInit /\ [][ANext]_avars
=============================================================================
