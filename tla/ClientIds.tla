------------------------------ MODULE ClientIds ------------------------------
(***************************************************************************)
(* What a cospace promises about the ClientIds it hands out (spec 4.5: a   *)
(* client is known to the cospace and its services by its id): a socket   *)
(* gets an id at most once, the id is one no other socket holds, and it    *)
(* never changes.  CospaceActor implements this specification under the   *)
(* mapping ids <- cid.                                                     *)
(***************************************************************************)
CONSTANTS
    Clients,  \* the sockets that may join
    IdSpace,  \* the ids that may be handed out
    Nil       \* no id yet

VARIABLE ids

Init == ids = [c \in Clients |-> Nil]

\* Client c, which has no id, gets the id i, which no client holds.
Assign(c, i) ==
    /\ ids[c] = Nil
    /\ \A d \in Clients : ids[d] # i
    /\ ids' = [ids EXCEPT ![c] = i]

Next == \E c \in Clients, i \in IdSpace : Assign(c, i)

Spec == Init /\ [][Next]_ids

=============================================================================
