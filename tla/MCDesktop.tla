----------------------------- MODULE MCDesktop -----------------------------
(* The users of the window: one looks at repositories, one runs scans, one has a directory *)
(* analyzed.                                                                               *)
EXTENDS Desktop

MCUsers == {{"search", "open", "shut", "watch", "re-evaluate"}, {"scan", "pause"},
            {"analyze", "cancel", "retry"}}
=============================================================================
