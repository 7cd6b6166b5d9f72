---------------------------- MODULE MCSeatBooking ----------------------------
(***************************************************************************)
(* Small instances of SeatBooking for TLC.                                 *)
(***************************************************************************)
EXTENDS SeatBooking, TLC

CONSTANTS u1, u2

\* No definition names a seat, so the seats are interchangeable.
SeatSymmetry == Permutations(Seats)

\* One login per user that outlives the model, as with a fresh 24 h login.
OneLogin == [u \in Users |-> {99}]

\* One login per user; that of u1 ends before a late booking session of u1 would.
EndingLogin == [u \in Users |-> IF u = u1 THEN {7} ELSE {99}]

\* u1 is logged in on two devices; one of the logins ends before a booking
\* session granted at the start does.
TwoLogins == [u \in Users |-> IF u = u1 THEN {3, 99} ELSE {99}]
=============================================================================
