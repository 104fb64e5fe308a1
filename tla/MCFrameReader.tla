--------------------------- MODULE MCFrameReader ---------------------------
(* A length field that goes to two bytes at 4 instead of 128, and a buffer *)
(* of seven bytes: PINGRESP, PUBACK, SUBACK (five bytes, one recv), a      *)
(* PUBLISH with a length field of two bytes that just fits, and a CONNACK  *)
(* so long that it overruns the buffer and its second recv returns more    *)
(* than the buffer holds.  Bytes of a topic or a payload that are taken    *)
(* for the beginning of a message give a PINGREQ or an unknown type.       *)
EXTENDS FrameReader

MCMessage ==
    {<<208, 0>>,
     <<64, 2, 0, 1>>,
     <<144, 3, 0, 1, 0>>,
     <<48, 4, 1, 0, 1, 192, 2>>,
     <<32, 6, 2, 0, 0, 0, 0, 0, 0, 0, 0, 0, 0>>}
=============================================================================
