--------------------------- MODULE IdentityChange ---------------------------
(***************************************************************************)
(* What sbpeye promises of a change of circular identities: it is made     *)
(* while the service is closed, after what it changes has been saved; it   *)
(* happens at once, and once it has been saved the service does not open   *)
(* before it has happened.  An unsaved one may be given up.                *)
(***************************************************************************)
VARIABLES
  open,    \* the service answers its readers
  saved,   \* the change is decided, and what it replaces is saved
  scheme   \* what circulars are known by: "old", or "new", or they are "gone"

Init == open = TRUE /\ saved = FALSE /\ scheme = "old"

Close == open /\ open' = FALSE /\ UNCHANGED <<saved, scheme>>

Save == ~open /\ ~saved /\ saved' = TRUE /\ UNCHANGED <<open, scheme>>

Make ==
  /\ ~open /\ saved /\ scheme = "old"
  /\ scheme' \in {"new", "gone"}
  /\ UNCHANGED <<open, saved>>

Open ==
  /\ ~open
  /\ saved => scheme # "old"
  /\ open' = TRUE
  /\ UNCHANGED <<saved, scheme>>

Next == Close \/ Save \/ Make \/ Open

Spec == Init /\ [][Next]_<<open, saved, scheme>>

=============================================================================
