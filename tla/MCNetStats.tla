----------------------------- MODULE MCNetStats -----------------------------
(***************************************************************************)
(* Two CPUs and six frames: three of one protocol, one of them over IPv6   *)
(* with the shortest whole header; one of a second protocol, for which the *)
(* map has no room once the first is in; an IPv6 frame one byte too short; *)
(* and one that is not IP.                                                 *)
(***************************************************************************)
EXTENDS NetStats

CONSTANTS u1, u2

MCFrame(type, proto, len) == [eth_type |-> type, proto |-> proto, len |-> len]
MCFrameOf == <<MCFrame("IP", 6, 34), MCFrame("IP", 6, 60), MCFrame("IPV6", 6, 54),
               MCFrame("IP", 17, 100), MCFrame("IPV6", 17, 53), MCFrame("ARP", 0, 42)>>
MCFrames == DOMAIN MCFrameOf
=============================================================================
