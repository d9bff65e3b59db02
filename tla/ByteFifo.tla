------------------------------ MODULE ByteFifo ------------------------------
(***************************************************************************)
(* What a pipe promises: bytes come out in the order they went in, none    *)
(* lost, doubled or made up, and a reader is told of the end of the file   *)
(* only when nobody can write any more and everything has been read.       *)
(***************************************************************************)
EXTENDS Naturals, Sequences

CONSTANTS Proc, Byte, Cap

VARIABLES q,      \* the bytes in the pipe
          out,    \* what each process got from its last read
          ropen, wopen

fvars == <<q, out, ropen, wopen>>

FInit ==
  /\ q = <<>>
  /\ out = [p \in Proc |-> <<>>]
  /\ ropen = TRUE
  /\ wopen = TRUE

FPut ==
  /\ wopen
  /\ \E k \in 1 .. Cap - Len(q) : \E s \in [1 .. k -> Byte] : q' = q \o s
  /\ UNCHANGED <<out, ropen, wopen>>

FGet(p) ==
  /\ ropen
  /\ \E k \in 1 .. Len(q) :
       /\ out' = [out EXCEPT ![p] = SubSeq(q, 1, k)]
       /\ q' = SubSeq(q, k + 1, Len(q))
  /\ UNCHANGED <<ropen, wopen>>

FEof(p) ==
  /\ ropen
  /\ q = <<>> /\ ~wopen
  /\ out' = [out EXCEPT ![p] = <<>>]
  /\ UNCHANGED <<q, ropen, wopen>>

FClose ==
  /\ ropen' \in {ropen, FALSE}
  /\ wopen' \in {wopen, FALSE}
  /\ UNCHANGED <<q, out>>

FNext == FPut \/ FClose \/ \E p \in Proc : FGet(p) \/ FEof(p)

FSpec == FInit /\ [][FNext]_fvars
=============================================================================
