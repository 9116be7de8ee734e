------------------------ MODULE MCTorrentRegistry ------------------------
(* The requests of the model: one without ids, one with a single id, one   *)
(* with ids in descending order and the first of them again, and one with  *)
(* the id 0 that the URL pattern [0-9,]* admits, then a torrent's id, then *)
(* an id nobody has until three torrents were added.                       *)
EXTENDS TorrentRegistry

MCRequests == {<<>>, <<1>>, <<2, 1, 2>>, <<0, 1, 3>>}
===========================================================================
