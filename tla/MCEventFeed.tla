----------------------------- MODULE MCEventFeed -----------------------------
(* Small instances of EventFeed. *)
EXTENDS EventFeed

Plain == [kind |-> "receipt", code |-> "absent", correlation |-> "absent",
          amount |-> "absent", mandate |-> "absent", authorisation |-> "absent"]
\* A draft that names an amount on an event that cannot have one.
Priced == [Plain EXCEPT !.amount = "good"]
MCDrafts == {Plain, Priced}
=============================================================================
