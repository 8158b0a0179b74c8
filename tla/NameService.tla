---------------------------- MODULE NameService -----------------------------
(***************************************************************************)
(* What the channel directory of the broker promises its clients, without  *)
(* threads, locks or objects: a connected client claims a free name once,  *)
(* keeps it for as long as it is connected, and gives it up by leaving.    *)
(***************************************************************************)
CONSTANTS Id, NoId, Name

VARIABLES
  joined,   \* clients that have ever connected
  live,     \* clients that are connected
  owner     \* who has each name; NoId when it is free

nsVars == <<joined, live, owner>>

NSInit ==
  /\ joined = {}
  /\ live = {}
  /\ owner = [n \in Name |-> NoId]

Join(c) ==
  /\ c \notin joined
  /\ joined' = joined \cup {c}
  /\ live' = live \cup {c}
  /\ UNCHANGED owner

Claim(c, n) ==
  /\ c \in live
  /\ owner[n] = NoId
  /\ \A m \in Name : owner[m] # c
  /\ owner' = [owner EXCEPT ![n] = c]
  /\ UNCHANGED <<joined, live>>

Leave(D) ==
  /\ D # {}
  /\ D \subseteq live
  /\ live' = live \ D
  /\ owner' = [n \in Name |-> IF owner[n] \in D THEN NoId ELSE owner[n]]
  /\ UNCHANGED joined

NSNext ==
  \/ \E c \in Id : Join(c) \/ \E n \in Name : Claim(c, n)
  \/ \E D \in SUBSET Id : Leave(D)

NSSpec == NSInit /\ [][NSNext]_nsVars
=============================================================================
