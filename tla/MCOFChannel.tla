----------------------------- MODULE MCOFChannel -----------------------------
(***************************************************************************)
(* A header of two bytes whose second holds the length; one message that   *)
(* is only a header (as HELLO), one that just fits the buffer and one that *)
(* does not.                                                               *)
(***************************************************************************)
EXTENDS OFChannel

MCMsgs == {"hello", "packet_in", "stats_reply"}
MCLength == [m \in MCMsgs |->
                CASE m = "hello" -> 2 [] m = "packet_in" -> 4 [] OTHER -> 5]

=============================================================================
