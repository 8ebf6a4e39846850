------------------------- MODULE MCNotifications -------------------------
EXTENDS Notifications

(* A live subscription, replays without an end, and replays whose stopTime *)
(* may be ahead or past when they are asked for.                           *)
SmallWindows ==
    {<<None, None>>, <<0, None>>, <<0, 1>>, <<1, 2>>}
=============================================================================
