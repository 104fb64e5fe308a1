---------------------------- MODULE MCClientLife ----------------------------
(* Small instances of ClientLife, and of ClientConnect in it.              *)
EXTENDS ClientLife

MCKeepAlives == {0, 5}
MCDescriptors == {0, 3, 4, 5}
=============================================================================
