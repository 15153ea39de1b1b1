----------------------------- MODULE MCWebServer -----------------------------
(* What two browsers do at the same time, in any order.                     *)
EXTENDS WebServer, TLC

CONSTANTS r1, r2, r3, r4

MCScript(a, b, c, d) == r1 :> a @@ r2 :> b @@ r3 :> c @@ r4 :> d

(* A file is received, then downloaded.                                     *)
MCReceive == {MCScript("start_receive", "accept_receive", "download_received", None)}

(* The last two: a receive that is accepted, declined and downloaded, and   *)
(* two that are accepted.                                                   *)
MCScripts ==
  {MCScript("create_share", "cancel_share", "start_receive", None),
   MCScript("create_share", "progress_sse", "start_receive", None),
   MCScript("create_share", "get_status", "ctrl_c", None),
   MCScript("start_receive", "get_share_code", "create_share", None),
   MCScript("start_receive", "accept_receive", "decline_receive", "download_received"),
   MCScript("start_receive", "start_receive", "accept_receive", "accept_receive")}

=============================================================================
