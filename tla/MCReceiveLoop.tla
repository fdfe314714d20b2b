--------------------------- MODULE MCReceiveLoop ---------------------------
EXTENDS ReceiveLoop

(* The second push is too long for the buffer; the third fills it.         *)
MCLengths == <<2, 5, 3>>

=============================================================================
