------------------------------ MODULE MCWorker ------------------------------
(***************************************************************************)
(* Worker with the requests of the runs.                                   *)
(***************************************************************************)
EXTENDS WorkerService, TLC

Request(method, bad, head, body, op, len, out) ==
    [method |-> method, bad |-> bad, head |-> head, body |-> body,
     op |-> op, len |-> len, out |-> out]

Get     == Request("GET", FALSE, 1, 0, "plain", 2, 0)
GetSlow == Request("GET", FALSE, 2, 0, "plain", 1, 0)
GetLong == Request("GET", FALSE, 3, 0, "plain", 1, 0)
GetBad  == Request("GET", TRUE, 1, 0, "plain", 1, 0)
GetBig  == Request("GET", FALSE, 1, 0, "big", 1, 0)
GetCgi  == Request("GET", FALSE, 1, 0, "modula", 1, 1)
GetFail == Request("GET", FALSE, 1, 0, "fail", 1, 0)
Post    == Request("POST", FALSE, 1, 1, "modula", 1, 1)
PostBad == Request("POST", TRUE, 1, 1, "modula", 1, 1)

GetOnly      == {Get}
AllRequests  == {Get, GetSlow, GetLong, GetBad, GetBig, GetFail, GetCgi, Post, PostBad}
PostRequests == {GetCgi, Post}

Perms == Permutations(Client)
=============================================================================
