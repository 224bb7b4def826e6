--------------------------- MODULE MCCertDelivery ---------------------------
(***************************************************************************)
(* The daily timer and one operator, over the hub's domain and that of a   *)
(* spoke, which the operator adds.                                         *)
(***************************************************************************)
EXTENDS CertDelivery
=============================================================================
