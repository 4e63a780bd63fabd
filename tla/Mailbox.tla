------------------------------- MODULE Mailbox -------------------------------
(***************************************************************************)
(* What the comms bus promises about the copies of a directive, one copy   *)
(* per recipient.  A copy arrives once, is read once, and once it is gone  *)
(* it is gone for good: nothing a ship has read or lost comes back unread. *)
(***************************************************************************)
CONSTANTS Ship, Post

VARIABLE box        \* box[s, p]: the fate of the copy of post p for ship s

Init == box = [c \in Ship \X Post |-> "none"]

Move(c, from, to) == box[c] = from /\ box' = [box EXCEPT ![c] = to]

Deliver(c) == Move(c, "none", "unread")
Read(c) == Move(c, "unread", "read")
Discard(c) == Move(c, "unread", "removed") \/ Move(c, "read", "removed")

Next == \E c \in Ship \X Post : Deliver(c) \/ Read(c) \/ Discard(c)

Spec == Init /\ [][Next]_box
=============================================================================
