----------------------------- MODULE MCPrograms -----------------------------
(***************************************************************************)
(* Instance of Programs for TLC: of the four servers the HTTP server and   *)
(* one of the datagram servers, in the order start_all starts them and     *)
(* run_traffic_demo.py asks them.                                          *)
(***************************************************************************)
EXTENDS Programs, TLC

HttpAndUdp == <<"stream", "datagram">>
UdpThenHttp == <<2, 1>>

Interchangeable == Permutations(Prog)
=============================================================================
