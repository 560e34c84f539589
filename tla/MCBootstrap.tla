---------------------------- MODULE MCBootstrap ----------------------------
(* A small instance of Bootstrap for TLC: two builds, two widgets that share a
   source, one of them also linked to a source without a URL.  The administrator
   of a behaviour works either on widgets and settings or on views and playlists:
   no statement reads or writes rows of both kinds, and in the second case no URL
   is left to be migrated. *)
EXTENDS Bootstrap

VARIABLE busy

MCLinks == [w \in Widgets |->
              IF w = "kitchen" THEN <<"empty", "clip">> ELSE <<"clip">>]

BoundedInit ==
  /\ Init /\ busy \in {"widgets", "views"}
  /\ busy = "views" => \A w \in Widgets : url[w] = "own"
BoundedNext ==
  /\ UNCHANGED busy
  /\ \/ Start \/ Crash \/ Boot
     \/ busy = "widgets" /\ (ServeWidgets \/ ServeSettings)
     \/ busy = "views" /\ (ServeViews \/ ServePlaylists)
BoundedSpec == BoundedInit /\ [][BoundedNext]_<<vars, busy>>
=============================================================================
