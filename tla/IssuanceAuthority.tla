-------------------------- MODULE IssuanceAuthority --------------------------
(***************************************************************************)
(* What the staging certificate flow promises, order by order, whatever    *)
(* crashes, restarts, lost answers and retries happen underneath.          *)
(*                                                                         *)
(* An order gives one finalize authority once.  The authority is either    *)
(* spent, by sending the one finalize request, or forfeited, for ever: it  *)
(* is never minted again.  A spent order ends with its certificate saved   *)
(* or expires.  At most one order is active.                               *)
(***************************************************************************)
CONSTANTS Urls, NoUrl

VARIABLES
    stage,  \* how far each order has come
    active  \* the order of the current request

Stages == {"unknown", "located", "leased", "forfeited", "spent", "saved",
           "deleted", "expired"}

Init ==
    /\ stage = [u \in Urls |-> "unknown"]
    /\ active = NoUrl

Move(u, from, to) ==
    /\ stage[u] \in from
    /\ stage' = [stage EXCEPT ![u] = to]

Locate(u) == active = NoUrl /\ active' = u /\ Move(u, {"unknown"}, "located")

\* The only ways to a finalize authority, and out of it.
Lease(u)   == active = u /\ Move(u, {"located"}, "leased") /\ UNCHANGED active
Spend(u)   == active = u /\ Move(u, {"leased"}, "spent") /\ UNCHANGED active
Forfeit(u) == active = u /\ Move(u, {"leased"}, "forfeited") /\ UNCHANGED active

Save(u)    == active = u /\ Move(u, {"spent"}, "saved") /\ UNCHANGED active
Delete(u)  == Move(u, {"saved"}, "deleted") /\ UNCHANGED active

Close(u) ==
    /\ active = u
    /\ active' = NoUrl
    /\ \/ stage[u] \in {"saved", "deleted"} /\ UNCHANGED stage
       \/ Move(u, {"located", "forfeited", "spent"}, "expired")

Next ==
    \E u \in Urls :
        \/ Locate(u) \/ Lease(u) \/ Spend(u) \/ Forfeit(u)
        \/ Save(u) \/ Delete(u) \/ Close(u)

Spec == Init /\ [][Next]_<<stage, active>>
==============================================================================
