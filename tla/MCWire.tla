------------------------------- MODULE MCWire -------------------------------
(* Wire for TLC: a VERIFY, whose body looks like the start of a header,    *)
(* and a message without a body, such as a PING.                           *)
EXTENDS Wire

Messages == {[code |-> MsgVERIFY, data |-> <<2, 0, 0>>], [code |-> 12, data |-> <<>>]}
=============================================================================
