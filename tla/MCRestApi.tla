--------------------------- MODULE MCRestApi ---------------------------
(* Requests of two clients' worth: every handler, with ids that exist, ids *)
(* that do not, and id 0, bodies of one and of two members.                *)
EXTENDS RestApi, TLC

CONSTANTS t1, t2, upload_limit, download_limit

Plain(op) == [op |-> op, auth |-> TRUE, param |-> "valid", ids |-> <<>>,
              settings |-> <<>>, specs |-> <<>>, parts |-> <<>>,
              ends |-> "complete"]

NoAuth   == [Plain("torrents_delete") EXCEPT !.auth = FALSE, !.ids = <<1>>]
BadParam == [Plain("torrents_stop") EXCEPT !.param = "invalid"]

ById(op, is) == [Plain(op) EXCEPT !.ids = is]

Given(e, i, n, v) == [entry |-> e, id |-> i, name |-> n, value |-> v]
Configure(b) == [Plain("torrents_settings_set") EXCEPT !.settings = b]

Source(type, t, f, r, p) == [type |-> type, torrent |-> t, file |-> f,
                             reachable |-> r, save_path |-> p]
Magnet(t)  == Source("magnet", t, 0, TRUE, FALSE)
File(f)    == Source("file", None, f, TRUE, TRUE)
Web(t, r) == Source("http", t, 0, r, FALSE)
Add(ss)    == [Plain("torrents_add") EXCEPT !.specs = ss]

Upload(ps, e) == [Plain("torrents_upload_files") EXCEPT !.parts = ps, !.ends = e]

SomeRequests ==
    {NoAuth, BadParam,
     Plain("torrents_stop"), ById("torrents_start", <<2, 1>>),
     ById("torrents_recheck", <<1, 3>>), ById("queue_torrents_set", <<2>>),
     Plain("torrents_status_get"), Plain("torrents_info_get"),
     ById("torrents_files_get", <<1, 2>>), Plain("torrents_peers_get"),
     ById("torrents_trackers_get", <<3>>), Plain("torrents_settings_get"),
     ById("torrents_delete", <<1>>), ById("torrents_delete", <<2, 1, 2>>),
     ById("torrents_delete", <<1, 0, 2>>), ById("torrents_status_get", <<2, 0>>),
     Configure(<<Given(1, 1, upload_limit, 1), Given(1, 1, download_limit, 2),
                 Given(2, 2, upload_limit, 2)>>),
     Configure(<<Given(1, 1, upload_limit, 1), Given(2, 0, upload_limit, 2)>>),
     Configure(<<Given(1, 2, download_limit, 1), Given(2, 3, download_limit, 2)>>)}

SomeAdds == {Add(<<Magnet(t1)>>), Add(<<Web(t2, TRUE), Magnet(t1)>>),
             Add(<<Magnet(t2), Web(t1, FALSE)>>), Add(<<File(1), Magnet(t2)>>),
             Add(<<Source("other", None, 0, TRUE, FALSE), File(2)>>),
             Add(<<Source("other", None, 0, TRUE, TRUE)>>)}

SomeUploads == {Upload(<<t1>>, "complete"), Upload(<<None>>, "complete"),
                Upload(<<t2>>, "truncated"), Upload(<<>>, "noBoundary")}

MCRequests == SomeRequests \cup SomeAdds \cup SomeUploads
===========================================================================
