--------------------------- MODULE CospaceLifecycle ---------------------------
(***************************************************************************)
(* What the cospace registry promises about one id (spec 4.6): an id is    *)
(* scheduled once, and leaves SCHEDULED at most once, either for HOSTED or *)
(* through a failing phase for FAILED; HOSTED and FAILED are final.  The   *)
(* failing phase is the one the registry goes through between removing an  *)
(* id from `scheduled` and inserting it into `failed`, when the id is in   *)
(* no map.  CospaceManager implements this specification under the         *)
(* mapping life <- Life.                                                   *)
(***************************************************************************)
CONSTANT Ids   \* the ids that may be scheduled

VARIABLE life  \* where each id is in its lifecycle

Phases == {"fresh", "scheduled", "hosted", "failing", "failed"}

Init == life = [c \in Ids |-> "fresh"]

\* Id c moves from phase p to phase q.
Move(c, p, q) ==
    /\ life[c] = p
    /\ life' = [life EXCEPT ![c] = q]

Next ==
    \E c \in Ids :
        \/ Move(c, "fresh", "scheduled")
        \/ Move(c, "scheduled", "hosted")
        \/ Move(c, "scheduled", "failing")
        \/ Move(c, "failing", "failed")

Spec == Init /\ [][Next]_life

===============================================================================
