--------------------------- MODULE MCCredentials ---------------------------
(***************************************************************************)
(* Credentials on a small instance: certificates on a server with a list,  *)
(* tokens and opkssh certificates on one with the shared signals.          *)
(***************************************************************************)
EXTENDS Credentials

ListOrSignals == {<<{"list"}, "ca">>, <<{"list"}, "x509">>,
                  <<{"signals"}, "opk">>, <<{"signals"}, "token">>}
Lives == [ca |-> 5, x509 |-> 3, opk |-> 3, token |-> 3]
=============================================================================
