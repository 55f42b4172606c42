--------------------------- MODULE MCAppLifecycle ---------------------------
(* Two catchable signals, one that ends an application by default and one  *)
(* that is ignored by default, each with its default action or a handler.  *)
(* The handler of SIGINT blocks both, that of SIGCHLD only itself. A       *)
(* mailbox of one message is full after one.                               *)
EXTENDS AppLifecycle

MCCatchable == {INT, CHLD}
MCRequests ==
  [signal : MCCatchable, action : {DefaultAction}]
    \cup [signal : {INT}, action : [disposition : {"HANDLER"}, mask : {{CHLD}}]]
    \cup [signal : {CHLD}, action : [disposition : {"HANDLER"}, mask : {{}}]]
=============================================================================
