------------------------------- MODULE Leases --------------------------------
(***************************************************************************)
(* What the lock plans p2 and p3 promise: a name has at most one owner; a  *)
(* client gives up only names it holds, and giving one up takes it away    *)
(* from nobody else.  What they do not promise: that a client still owns   *)
(* what it holds (a lease may lapse), or holds what it owns (it may never  *)
(* have learnt that it got it, or may have failed to release it).          *)
(***************************************************************************)

CONSTANTS
  Clients, Names,
  NoClient         \* "nobody", not one of the Clients

VARIABLES
  owner,  \* name -> the client it is locked for
  held    \* client -> the names it will release

leaseVars == <<owner, held>>

Init ==
  /\ owner = [n \in Names |-> NoClient]
  /\ held  = [c \in Clients |-> {}]

(* the client may or may not hear of it *)
Acquire(c, n) ==
  /\ owner[n] = NoClient
  /\ owner' = [owner EXCEPT ![n] = c]
  /\ held' \in {held, [held EXCEPT ![c] = @ \cup {n}]}

(* it may fail to release others, and forget them *)
Release(c, n) ==
  /\ n \in held[c]
  /\ owner' = [owner EXCEPT ![n] = IF @ = c THEN NoClient ELSE @]
  /\ \E kept \in SUBSET (held[c] \ {n}) : held' = [held EXCEPT ![c] = kept]

(* the time of a lease is over *)
Lapse(n) ==
  /\ owner' = [owner EXCEPT ![n] = NoClient]
  /\ UNCHANGED held

(* the client goes away without releasing what it held *)
Abandon(c) ==
  /\ held' \in [Clients -> SUBSET Names]
  /\ held'[c] \subseteq held[c] /\ \A d \in Clients \ {c} : held'[d] = held[d]
  /\ UNCHANGED owner

Next ==
  \/ \E c \in Clients, n \in Names : Acquire(c, n) \/ Release(c, n)
  \/ \E n \in Names : Lapse(n)
  \/ \E c \in Clients : Abandon(c)

Spec == Init /\ [][Next]_leaseVars
=============================================================================
