------------------------------ MODULE MCIndexer2 ------------------------------
(***************************************************************************)
(* An instance of Indexer2 for TLC: a list page names two seasons, the     *)
(* page of one of them names the other, which is then asked for in two     *)
(* ways, and both name one video.                                          *)
(***************************************************************************)
EXTENDS Indexer2

CONSTANTS w1, w2, list, s1, s2, video

TwoWorkers == {w1, w2}
Pages == {list, s1, s2, video}
Item(op, u) == [operation |-> op, url |-> u]
TheRoots == <<Item("GetBangumiList", list)>>

\* getSeasonList goes on with getSeasonDetail.
PageNames(r) ==
    CASE r.operation = "GetBangumiList" -> <<Item("GetSeasonList", s1), Item("GetSeasonList", s2)>>
      [] r.operation = "GetSeasonList" /\ r.url = s1 ->
            <<Item("GetSeasonDetail", s2), Item("GetVideoDetail", video)>>
      [] r.url = s2 -> <<Item("GetVideoDetail", video)>>
      [] OTHER -> << >>
===============================================================================
