------------------------ MODULE MCSubscriptionRefresh ------------------------
(* The instance of SubscriptionRefresh that TLC checks.                    *)
EXTENDS SubscriptionRefresh

One == CHOOSE s \in Subs : TRUE
OneContent == CHOOSE c \in Contents : TRUE

\* One subscription and everything that can happen to it; batches of several,
\* and the end of the program; several refreshed one by one beside starts.
MCScopes ==
    { [subs |-> {One}, contents |-> Contents, kinds |-> Kinds],
      [subs |-> Subs, contents |-> {OneContent}, kinds |-> {"refresh_all", "end"}],
      [subs |-> Subs, contents |-> {OneContent}, kinds |-> {"refresh", "start"}] }
=============================================================================
