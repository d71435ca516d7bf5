------------------------------ MODULE MCRuntimeLog -----------------------------
EXTENDS RuntimeLog

(* The settings: nothing said, a host, a service to take it from, checks   *)
(* to take it from, switched off.                                          *)
MCConfigs ==
  {[explicit |-> e, base |-> b, targets |-> t, enabled |-> "default"] :
     e \in {None, "logs"}, b \in {None}, t \in {<<None>>, <<None, "web">>}}
  \cup {[explicit |-> None, base |-> "service", targets |-> <<>>, enabled |-> "default"],
        [explicit |-> "logs", base |-> "service", targets |-> <<>>, enabled |-> "off"]}
MCAliasOf == [h \in {"logs"} |-> "server"]
=============================================================================
