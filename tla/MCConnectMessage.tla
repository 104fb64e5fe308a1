-------------------------- MODULE MCConnectMessage --------------------------
(* Lengths for ConnectMessage: no, a short and a long client identifier,   *)
(* and fields that take the message over the 128 bytes of a short length.  *)
EXTENDS ConnectMessage

MCIdLens == {0, 23, 24}
MCFieldLens == {0, 50}
MCWillQoses == {0, 1, 2, 3}
=============================================================================
