------------------------------ MODULE MCConfig ------------------------------
EXTENDS Config

MCRecords == <<<<7, 255>>, <<100, 7>>>>

(* The setting by its two names, and a name below a missing item. *)
MCFieldNames ==
  {<<[name |-> "net", index |-> -1], [name |-> "mac", index |-> -1]>>,
   <<[name |-> "dns", index |-> 1]>>,
   <<[name |-> "lan", index |-> 0], [name |-> "mac", index |-> -1]>>}
=============================================================================
