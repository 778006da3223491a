------------------------------- MODULE MCJob -------------------------------
(* Documents with a version below, at and above the application's, short of a *)
(* part and with one that wraps; for this board and another; and with every   *)
(* way to name, half name or not name a server.                               *)
EXTENDS OTAJob

MCParams == [mqtt |-> [host |-> "broker", port |-> 1], http |-> [host |-> "web", port |-> 2]]
MCVersion == <<1, 2, 3>>
MCDocuments ==
  [version : {<<>>, <<1, 3>>, <<0, 9, 9>>, <<1, 1, 9>>, <<1, 2, 3>>, <<1, 2, 4>>, <<1, 3, 0>>,
              <<2, 0, 0>>, <<17, 2, 3>>},
   board : {"kit", "other"}, connection : Types \cup {"absent", "", "other"},
   host : {"", "broker", "web", "files"}, port : {-1, 0, 1, 2, 3, 17}]
=============================================================================
