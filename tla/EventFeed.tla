------------------------------ MODULE EventFeed ------------------------------
(***************************************************************************)
(* What the server promises the clients that subscribe to its events: a    *)
(* subscriber reads every event broadcast while it is subscribed that      *)
(* concerns its session, in the order of the broadcasts, with no gap.  It  *)
(* may lose its subscription in the middle of a broadcast; from then on it *)
(* is sent no event, so what it read stays a gapless beginning.            *)
(*                                                                         *)
(* Connections implements this with bounded queues, connection tasks and   *)
(* writer tasks; ClientCopy relies on it.                                  *)
(***************************************************************************)
EXTENDS Naturals, Sequences

CONSTANTS
  Conn,       \* connections
  Session,    \* sessions
  All,        \* a subscription to every session
  None,       \* no subscription
  Batch       \* the sequences of events that are broadcast

VARIABLES
  interest,   \* what each connection is subscribed to
  feed,       \* what each connection was sent and has not read
  open        \* whether a connection can still be sent anything

feedVars == <<interest, feed, open>>

Interests == Session \cup {All, None}

(***************************************************************************)
(* An event carries the sessions it is about; one about no session is for  *)
(* every subscriber.                                                       *)
(***************************************************************************)
Wants(i, e) == i # None /\ (e.about = {} \/ i = All \/ i \in e.about)

Wanted(i, es) ==
  LET kept[k \in 0 .. Len(es)] ==
        IF k = 0 THEN <<>>
        ELSE IF Wants(i, es[k]) THEN Append(kept[k - 1], es[k]) ELSE kept[k - 1]
  IN kept[Len(es)]

FeedInit ==
  /\ interest = [c \in Conn |-> None]
  /\ feed = [c \in Conn |-> <<>>]
  /\ open = [c \in Conn |-> FALSE]

Open(c) ==
  /\ open' = [open EXCEPT ![c] = TRUE]
  /\ feed' = [feed EXCEPT ![c] = <<>>]
  /\ UNCHANGED interest

Subscribe(c, i) ==
  /\ interest' = [interest EXCEPT ![c] = i]
  /\ UNCHANGED <<feed, open>>

Unsubscribe(c) ==
  /\ interest' = [interest EXCEPT ![c] = None]
  /\ UNCHANGED <<feed, open>>

(***************************************************************************)
(* Each subscriber is sent the events it wants and stays subscribed, or is *)
(* sent the first n[c] of them and is not subscribed any more.  Those      *)
(* subscribed to a retired session are unsubscribed after they were told.  *)
(***************************************************************************)
Broadcast(es, retired) ==
  \E n \in [Conn -> 0 .. Len(es)] :
    /\ \A c \in Conn : n[c] <= Len(Wanted(interest[c], es))
    /\ \A c \in Conn : ~open[c] => n[c] = 0
    /\ feed' = [c \in Conn |->
                  feed[c] \o SubSeq(Wanted(interest[c], es), 1, n[c])]
    /\ interest' = [c \in Conn |->
                      IF /\ n[c] = Len(Wanted(interest[c], es))
                         /\ interest[c] \notin retired
                      THEN interest[c] ELSE None]
    /\ UNCHANGED open

(***************************************************************************)
(* Answers and notices to one connection share its feed and are not part   *)
(* of what is broadcast.                                                   *)
(***************************************************************************)
Notice == [about |-> {}, kind |-> "notice"]

Send(c) ==
  /\ open[c]
  /\ feed' = [feed EXCEPT ![c] = Append(@, Notice)]
  /\ UNCHANGED <<interest, open>>

Read(c) ==
  /\ feed[c] # <<>>
  /\ feed' = [feed EXCEPT ![c] = Tail(@)]
  /\ UNCHANGED <<interest, open>>

Close(c) ==
  /\ open' = [open EXCEPT ![c] = FALSE]
  /\ feed' = [feed EXCEPT ![c] = <<>>]
  /\ UNCHANGED interest

FeedNext ==
  \/ \E c \in Conn : Open(c) \/ Unsubscribe(c) \/ Send(c) \/ Read(c) \/ Close(c)
  \/ \E c \in Conn, i \in Session \cup {All} : Subscribe(c, i)
  \/ \E es \in Batch, retired \in SUBSET Session : Broadcast(es, retired)

FeedSpec == FeedInit /\ [][FeedNext]_feedVars
==============================================================================
