--------------------------- MODULE MCConnectRace ---------------------------
(* Timeouts for the runs of ConnectRace: None, and one with a deadline. *)
EXTENDS ConnectRace

MCNoneOrThree == {Never, 3}
=============================================================================
