-------------------------- MODULE MCSyslogDelivery ---------------------------
(* The lab's two address families.                                         *)
EXTENDS SyslogDelivery

Dual == <<"ipv4", "ipv6">>
==============================================================================
