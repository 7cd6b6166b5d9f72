------------------------------ MODULE MCSeatFeed ------------------------------
(* Two seats, two sockets of the seat map and one dashboard, one request.    *)
EXTENDS SeatFeed
=============================================================================
