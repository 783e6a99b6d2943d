--------------------------- MODULE MCResourceSync ---------------------------
(* Instances of ResourceSync for TLC: ids are sequences of words.           *)
EXTENDS ResourceSync

NoIds == {}
OneId == {<<"lobby">>}
TwoIds == {<<"lobby">>, <<"mc", "games">>}
=============================================================================
