---------------------------- MODULE MCCheckTable ----------------------------
(* A small instance: a direct check and a service with two children. *)
EXTENDS CheckTable

MCDirect == {"ping"}
MCServices == {"adb"}
MCChildrenOf == [s \in MCServices |-> {"phone", "tablet"}]
MCOneChildOf == [s \in MCServices |-> {"phone"}]
=============================================================================
