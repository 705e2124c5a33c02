--------------------------- MODULE MCShmNotifier ---------------------------
(* Two readers, sockets that hold one message, and two writes: the second  *)
(* write finds a socket full, and one reader comes or leaves while the     *)
(* list is walked to the other.                                            *)
EXTENDS ShmNotifier

CONSTANTS r1, r2
=============================================================================
