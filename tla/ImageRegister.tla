---------------------------- MODULE ImageRegister ----------------------------
(***************************************************************************)
(* What replacing the inventory image promises: one value that grows a     *)
(* commit at a time.  A power loss takes it back to what has settled on    *)
(* disk, and what was promised to a caller has settled.                    *)
(***************************************************************************)
CONSTANT Commits    \* the changes ever made to the image, each made once

VARIABLES
    image,      \* the commits in the image a reader finds
    settled,    \* the commits in the image that outlives a power loss
    promised    \* the commits reported as saved

Init ==
    /\ image = {}
    /\ settled = {}
    /\ promised = {}

Commit ==
    /\ \E c \in Commits \ image : image' = image \cup {c}
    /\ UNCHANGED <<settled, promised>>

Settle ==
    /\ settled' = image
    /\ UNCHANGED <<image, promised>>

Promise ==
    /\ \E c \in settled : promised' = promised \cup {c}
    /\ UNCHANGED <<image, settled>>

Lose ==
    /\ image' = settled
    /\ UNCHANGED <<settled, promised>>

Next == Commit \/ Settle \/ Promise \/ Lose

Spec == Init /\ [][Next]_<<image, settled, promised>>
=============================================================================
