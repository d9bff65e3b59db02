------------------------------ MODULE BlockStore ------------------------------
(***************************************************************************)
(* What the buffer cache promises its callers: every sector has one        *)
(* current contents, bread() hands it to one process at a time, and only   *)
(* the process that has it can change it.                                  *)
(***************************************************************************)
CONSTANTS Proc, Sector, Val, NoSector

VARIABLES store,   \* current contents of each sector
          has      \* the sector each process has from bread(), or NoSector

svars == <<store, has>>

SInit ==
  /\ store \in [Sector -> Val]
  /\ has = [p \in Proc |-> NoSector]

SRead(p, s) ==
  /\ has[p] = NoSector
  /\ \A q \in Proc : has[q] # s
  /\ has' = [has EXCEPT ![p] = s]
  /\ UNCHANGED store

SWrite(p, v) ==
  /\ has[p] # NoSector
  /\ store' = [store EXCEPT ![has[p]] = v]
  /\ UNCHANGED has

SRelease(p) ==
  /\ has[p] # NoSector
  /\ has' = [has EXCEPT ![p] = NoSector]
  /\ UNCHANGED store

SNext ==
  \E p \in Proc : \/ \E s \in Sector : SRead(p, s)
                  \/ \E v \in Val : SWrite(p, v)
                  \/ SRelease(p)

SSpec == SInit /\ [][SNext]_svars
===============================================================================
