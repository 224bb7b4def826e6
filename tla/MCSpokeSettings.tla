-------------------------- MODULE MCSpokeSettings --------------------------
(* Two operators; every kind of request, two of them with the same value.  *)
EXTENDS SpokeSettings

AllProtocols == {"vision", "hysteria2"}
Transports == [vision |-> "tcp", hysteria2 |-> "udp"]
Start == [enabled |-> {"vision"}, sni |-> "a", vision |-> 1, hysteria2 |-> 2,
          alias |-> "a", monitor |-> "off"]
AllRequests ==
  {[kind |-> "select", enabled |-> {"vision", "hysteria2"}, port |-> 3],
   [kind |-> "select", enabled |-> {"hysteria2"}, port |-> 3],
   [kind |-> "edit", proto |-> "vision", port |-> 3, cred |-> "new"],
   [kind |-> "sni", value |-> "b"],
   [kind |-> "sni", value |-> "a"],
   [kind |-> "alias", value |-> "b"],
   [kind |-> "monitor", value |-> "on"],
   [kind |-> "regenerate"],
   [kind |-> "hubSelect", enabled |-> {"vision", "hysteria2"}, port |-> 1],
   [kind |-> "hubSelect", enabled |-> {"hysteria2"}, port |-> 1],
   [kind |-> "hubSelect", enabled |-> {"vision"}, port |-> 3],
   [kind |-> "hubRegenerate"]}

(* Three operators: two patches, there and back again, and a form.         *)
FormAndPatches ==
  {[kind |-> "edit", proto |-> "vision", port |-> 3, cred |-> "old"],
   [kind |-> "edit", proto |-> "vision", port |-> 1, cred |-> "old"],
   [kind |-> "sni", value |-> "b"]}
=============================================================================
