---------------------------- MODULE MCProgram ----------------------------
(* A small instance of Program: one setting of the session, two paths.     *)
EXTENDS Program

Setting(n, v) == [name |-> n, value |-> v]
Path(p)       == Setting("default_download_path", p)

\* set the path; set a rate limit and the path twice; no credentials; an add
SmallRequests ==
    {[op |-> "set", auth |-> TRUE, settings |-> <<Path("new")>>],
     [op |-> "set", auth |-> TRUE,
      settings |-> <<Path("./"), Setting("rate", "limited"), Path("new")>>],
     [op |-> "set", auth |-> FALSE, settings |-> <<Path("new")>>],
     [op |-> "add", auth |-> TRUE, settings |-> <<>>]}
===========================================================================
