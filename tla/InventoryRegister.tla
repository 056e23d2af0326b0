------------------------- MODULE InventoryRegister -------------------------
(***************************************************************************)
(* What the artifact store promises for one scan id: a register that is    *)
(* empty or holds one whole inventory.  A writer must have opened the      *)
(* register while it was empty.  A power loss takes the register back to   *)
(* the value the disk kept, never to a part of a value.                    *)
(***************************************************************************)
CONSTANTS Writers, Inventories, None

VARIABLES
  visible,  \* what a reader sees
  kept,     \* what a reader would see after a power loss
  open      \* writers that found the register empty

Init == visible = None /\ kept = None /\ open = {}

Open(w) ==
  /\ visible = None
  /\ open' = open \cup {w}
  /\ UNCHANGED <<visible, kept>>

Publish(w) ==
  /\ w \in open
  /\ visible' \in Inventories
  /\ open' = open \ {w}
  /\ UNCHANGED kept

Close(ws) == open' = open \ ws /\ UNCHANGED <<visible, kept>>

Keep == kept' = visible /\ UNCHANGED <<visible, open>>

PowerLoss == visible' = kept /\ open' = {} /\ UNCHANGED kept

Next ==
  \/ \E w \in Writers : Open(w) \/ Publish(w)
  \/ \E ws \in SUBSET Writers : Close(ws)
  \/ Keep
  \/ PowerLoss

Spec == Init /\ [][Next]_<<visible, kept, open>>
=============================================================================
