------------------------------- MODULE PubSub -------------------------------
(***************************************************************************)
(* The media path of the RTMP relay (xaionaro-go-rtmp/yutoppgortmp/        *)
(* pubsub.go): one publisher, whose message loop hands each tag to the     *)
(* subscribers of its Pubsub, the queue and the sender of each subscriber, *)
(* and the goroutines that close them.                                     *)
(*                                                                         *)
(* A tag is known by its number, in the order of publication.  Publish     *)
(* takes the map of the subscribers under Pubsub.m and walks it without:   *)
(* the map may change during the walk.                                     *)
(***************************************************************************)
EXTENDS Naturals, Sequences, FiniteSets

CONSTANTS
    Subs,         \* the subscribers there may be
    MaxTags,      \* the publisher falls silent after this many tags
    QueueLength   \* sendQueueLength

ASSUME QueueLengthAssumption == QueueLength \in Nat \ {0}

\* The sequence headers of the two codecs, a key frame, and whatever needs an
\* earlier key frame or none: inter frames, sound, metadata.
Kinds == {"avc", "aac", "key", "other"}

VARIABLES
    up,                 \* the process
    kinds,              \* the tags published, by their kind
    cache,              \* what Pub keeps for those who join
    subs,               \* Pubsub.subs
    walking, due, seen, \* Publish walks the map: whom it held at first, who was met
    cur, out,           \* ... and the tags to be submitted to the one just met
    made,               \* the Subs that were created
    inited,             \* those whose initOnce is used up,
    burst, from,        \* ... with which tags, while which tag was published
    queue,              \* Sub.sendQueue
    hand,               \* the tag a sender took from the queue, 0 if none
    sent,               \* what was written to the connection of each
    dropped, unsent,    \* what a full queue, what a failed write lost
    senders,            \* the senderLoops that run
    ctxDone,            \* Sub.cancelFunc was called
    closed,             \* Sub.closed
    connClosed,         \* the connection is closed
    closer              \* where each call of Sub.Close is

walk  == <<walking, due, seen, cur, out>>
feeds == <<inited, burst, from>>
lines == <<queue, dropped>>
exits == <<hand, sent, unsent, senders>>
ends  == <<ctxDone, closed, connClosed>>
vars == <<up, kinds, cache, subs, walk, made, feeds, lines, exits, ends, closer>>

-----------------------------------------------------------------------------

\* Who may be closing a subscriber: the goroutine Submit spawns, of which all
\* but the first find it closed, and that of its handler's OnClose.
Closers == {"submit", "handler"}

Published == Len(kinds)
Tags == 1..Published
Tag0 == 0..Published      \* 0: nil

TypeOK ==
    /\ up \in BOOLEAN
    /\ kinds \in Seq(Kinds)
    /\ cache.sincePrevKeyFrame \subseteq Seq(Tags)
    /\ \A f \in DOMAIN cache \ {"sincePrevKeyFrame"} : cache[f] \in Tag0
    /\ walking \in BOOLEAN
    /\ due \subseteq made /\ seen \subseteq made
    /\ out \in Seq(Tags) /\ (out # <<>> => cur \in seen)
    /\ subs \subseteq made /\ inited \subseteq made /\ made \subseteq Subs
    /\ burst \in [Subs -> Seq(Tags)]
    /\ from \in [Subs -> Tag0]
    /\ queue \in [Subs -> Seq(Tags)]
    /\ \A s \in Subs : Len(queue[s]) <= QueueLength
    /\ hand \in [Subs -> Tag0]
    /\ sent \in [Subs -> Seq(Tags)]
    /\ dropped \in [Subs -> SUBSET Tags] /\ unsent \in [Subs -> SUBSET Tags]
    /\ senders \subseteq made /\ ctxDone \subseteq made
    /\ closed \subseteq ctxDone \cap connClosed /\ connClosed \subseteq made
    /\ closer \in [Subs \X Closers -> {"none", "cancel", "lock", "remove", "done"}]

\* A slice is nil, which is the empty set, or a sequence, which is the one
\* element of a set.
NoCache == [avcSeqHeaderBeforeKey |-> 0, aacSeqHeaderBeforeKey |-> 0,
            avcSeqHeaderAfterKey |-> 0, aacSeqHeaderAfterKey |-> 0,
            lastKeyFrame |-> 0, sincePrevKeyFrame |-> {}]

Init ==
    /\ up = TRUE
    /\ kinds = <<>> /\ cache = NoCache
    /\ subs = {} /\ made = {}
    /\ walking = FALSE /\ due = {} /\ seen = {} /\ out = <<>>
    /\ cur \in Subs
    /\ inited = {}
    /\ burst = [s \in Subs |-> <<>>] /\ from = [s \in Subs |-> 0]
    /\ queue = [s \in Subs |-> <<>>] /\ dropped = [s \in Subs |-> {}]
    /\ hand = [s \in Subs |-> 0]
    /\ sent = [s \in Subs |-> <<>>] /\ unsent = [s \in Subs |-> {}]
    /\ senders = {} /\ ctxDone = {} /\ closed = {} /\ connClosed = {}
    /\ closer = [sc \in Subs \X Closers |-> "none"]

-----------------------------------------------------------------------------
(***************************************************************************)
(* Publishing.                                                             *)
(***************************************************************************)

\* addTagAfterKeyFrame: nothing is appended to nil.
AddTagAfterKeyFrame(c, t) ==
    [c EXCEPT !.sincePrevKeyFrame = {Append(s, t) : s \in @}]

\* A slip: the header that follows the key frame is kept with it.
Remember_HeaderNow(c, t, kind) ==
    CASE kind = "aac" -> AddTagAfterKeyFrame([c EXCEPT !.aacSeqHeaderAfterKey = t], t)
      [] kind = "avc" -> AddTagAfterKeyFrame(
                             [c EXCEPT !.avcSeqHeaderAfterKey = t,
                                       !.avcSeqHeaderBeforeKey = t], t)
      [] kind = "key" -> [c EXCEPT !.lastKeyFrame = t]
      [] OTHER -> AddTagAfterKeyFrame(c, t)

OrKeep(new, old) == IF new # 0 THEN new ELSE old

\* What Publish does with the cache; nil[:0] is nil.
Remember(c, t, kind) ==
    CASE kind = "aac" -> AddTagAfterKeyFrame([c EXCEPT !.aacSeqHeaderAfterKey = t], t)
      [] kind = "avc" -> AddTagAfterKeyFrame([c EXCEPT !.avcSeqHeaderAfterKey = t], t)
      [] kind = "key" ->
            [c EXCEPT !.lastKeyFrame = t,
                      !.sincePrevKeyFrame = {<<>> : s \in @},
                      !.avcSeqHeaderBeforeKey = OrKeep(c.avcSeqHeaderAfterKey, @),
                      !.aacSeqHeaderBeforeKey = OrKeep(c.aacSeqHeaderAfterKey, @)]
      [] OTHER -> AddTagAfterKeyFrame(c, t)

Publish(kind) ==
    /\ up /\ ~walking
    /\ Published < MaxTags
    /\ kinds' = Append(kinds, kind)
    /\ cache' = Remember(cache, Published + 1, kind)
    /\ walking' = TRUE /\ due' = subs /\ seen' = {}
    /\ UNCHANGED <<up, subs, cur, out, made, feeds, lines, exits, ends, closer>>

Present(t) == IF t = 0 THEN <<>> ELSE <<t>>
Since(c) == IF c.sincePrevKeyFrame = {} THEN <<>>
            ELSE CHOOSE s \in c.sincePrevKeyFrame : TRUE

\* initTags of InitSub.
InitTags(c) ==
    (IF c.lastKeyFrame # 0
     THEN Present(c.avcSeqHeaderBeforeKey) \o <<c.lastKeyFrame>>
            \o Present(c.aacSeqHeaderBeforeKey)
     ELSE Present(c.avcSeqHeaderAfterKey) \o Present(c.aacSeqHeaderAfterKey))
    \o Since(c)

\* The walk meets s, of those in the map it did not meet before.
Meets(s) == up /\ walking /\ out = <<>> /\ s \in subs \ seen

\* A slip: who is initialised gets the current tag too.
Visit_InitAndSubmit(s) ==
    /\ Meets(s)
    /\ seen' = seen \cup {s} /\ cur' = s
    /\ inited' = inited \cup {s}
    /\ IF s \in inited THEN out' = <<Published>> /\ UNCHANGED <<burst, from>>
       ELSE /\ out' = InitTags(cache) \o <<Published>>
            /\ burst' = [burst EXCEPT ![s] = InitTags(cache)]
            /\ from' = [from EXCEPT ![s] = Published]
    /\ UNCHANGED <<up, kinds, cache, subs, walking, due, made, lines, exits, ends, closer>>

\* InitSub submits what was cached, and only its absence the current tag.
Visit(s) ==
    /\ Meets(s)
    /\ seen' = seen \cup {s} /\ cur' = s
    /\ inited' = inited \cup {s}
    /\ IF s \in inited THEN out' = <<Published>> /\ UNCHANGED <<burst, from>>
       ELSE /\ out' = InitTags(cache)
            /\ burst' = [burst EXCEPT ![s] = InitTags(cache)]
            /\ from' = [from EXCEPT ![s] = Published]
    /\ UNCHANGED <<up, kinds, cache, subs, walking, due, made, lines, exits, ends, closer>>

StartsCloser(s, c) ==
    closer' = IF closer[<<s, c>>] = "none" THEN [closer EXCEPT ![<<s, c>>] = "cancel"] ELSE closer

\* A slip: one tag too many.
HasRoom_OffByOne(s) == Len(queue[s]) <= QueueLength

HasRoom(s) == Len(queue[s]) < QueueLength

Enqueue == queue' = [queue EXCEPT ![cur] = Append(@, Head(out))]
Drop    == dropped' = [dropped EXCEPT ![cur] = @ \cup {Head(out)}]

\* Slips: a full queue is waited for; who lost a tag is not
\* closed; what the queue holds gives way to what is new.
Submit_Blocks ==
    /\ up /\ out # <<>> /\ HasRoom(cur)
    /\ out' = Tail(out)
    /\ Enqueue
    /\ UNCHANGED <<up, kinds, cache, subs, walking, due, seen, cur, made, feeds,
                   dropped, exits, ends, closer>>

Submit_DropsOnly ==
    /\ up /\ out # <<>>
    /\ out' = Tail(out)
    /\ IF HasRoom(cur) THEN Enqueue /\ UNCHANGED dropped
       ELSE Drop /\ UNCHANGED queue
    /\ UNCHANGED <<up, kinds, cache, subs, walking, due, seen, cur, made, feeds,
                   exits, ends, closer>>

Submit_MakesRoom ==
    /\ up /\ out # <<>>
    /\ out' = Tail(out)
    /\ IF HasRoom(cur) THEN Enqueue
       ELSE queue' = [queue EXCEPT ![cur] = <<Head(out)>>]
    /\ UNCHANGED <<up, kinds, cache, subs, walking, due, seen, cur, made, feeds,
                   dropped, exits, ends, closer>>

\* The next tag for the one just met, whether it is closed or not.
Submit ==
    /\ up /\ out # <<>>
    /\ out' = Tail(out)
    /\ IF HasRoom(cur) THEN Enqueue /\ UNCHANGED <<dropped, closer>>
       ELSE Drop /\ StartsCloser(cur, "submit") /\ UNCHANGED queue
    /\ UNCHANGED <<up, kinds, cache, subs, walking, due, seen, cur, made, feeds,
                   exits, ends>>

\* Everybody who was in the map and still is was met; who was added meanwhile
\* may have been.
PublishReturns ==
    /\ up /\ walking /\ out = <<>>
    /\ due \cap subs \subseteq seen
    /\ walking' = FALSE /\ due' = {} /\ seen' = {}
    /\ UNCHANGED <<up, kinds, cache, subs, cur, out, made, feeds, lines, exits,
                   ends, closer>>

-----------------------------------------------------------------------------
(***************************************************************************)
(* A subscriber and its sender.                                            *)
(***************************************************************************)

\* Pubsub.Sub.
Sub(s) ==
    /\ up /\ s \notin made
    /\ made' = made \cup {s} /\ subs' = subs \cup {s}
    /\ senders' = senders \cup {s}
    /\ UNCHANGED <<up, kinds, cache, walk, feeds, lines, hand, sent, unsent, ends, closer>>

\* A slip: the latest tag is taken first.
Pull_Newest(s) ==
    /\ up /\ s \in senders /\ hand[s] = 0
    /\ queue[s] # <<>>
    /\ hand' = [hand EXCEPT ![s] = queue[s][Len(queue[s])]]
    /\ queue' = [queue EXCEPT ![s] = SubSeq(@, 1, Len(@) - 1)]
    /\ UNCHANGED <<up, kinds, cache, subs, walk, made, feeds, dropped, sent, unsent,
                   senders, ends, closer>>

Pull(s) ==
    /\ up /\ s \in senders /\ hand[s] = 0
    /\ queue[s] # <<>>
    /\ hand' = [hand EXCEPT ![s] = Head(queue[s])]
    /\ queue' = [queue EXCEPT ![s] = Tail(queue[s])]
    /\ UNCHANGED <<up, kinds, cache, subs, walk, made, feeds, dropped, sent, unsent,
                   senders, ends, closer>>

Lost(s) == unsent' = [unsent EXCEPT ![s] = @ \cup {hand[s]}] /\ UNCHANGED sent

\* onEventCallback: to encode the tag or to write it may fail.
EventCallback(s) ==
    \/ /\ s \notin connClosed
       /\ sent' = [sent EXCEPT ![s] = Append(@, hand[s])]
       /\ UNCHANGED unsent
    \/ Lost(s)

\* Nothing is written once the subscriber is closed, and what failed is logged
\* and not repeated.
OnEvent(s) ==
    /\ up /\ hand[s] # 0
    /\ hand' = [hand EXCEPT ![s] = 0]
    /\ IF s \in closed THEN Lost(s) ELSE EventCallback(s)
    /\ UNCHANGED <<up, kinds, cache, subs, walk, made, feeds, lines, senders, ends, closer>>

\* The context of the loop is done: select may take a tag instead.
SenderReturns(s) ==
    /\ up /\ s \in senders /\ hand[s] = 0
    /\ s \in ctxDone
    /\ senders' = senders \ {s}
    /\ UNCHANGED <<up, kinds, cache, subs, walk, made, feeds, lines, hand, sent,
                   unsent, ends, closer>>

-----------------------------------------------------------------------------
(***************************************************************************)
(* The end of a subscriber.                                                *)
(***************************************************************************)

\* The peer leaves.
Disconnect(s) ==
    /\ up /\ s \in made \ connClosed
    /\ connClosed' = connClosed \cup {s}
    /\ UNCHANGED <<up, kinds, cache, subs, walk, made, feeds, lines, exits, ctxDone,
                   closed, closer>>

\* Handler.OnClose, once its connection is closed.
OnClose(s) ==
    /\ up /\ s \in connClosed /\ closer[<<s, "handler">>] = "none"
    /\ StartsCloser(s, "handler")
    /\ UNCHANGED <<up, kinds, cache, subs, walk, made, feeds, lines, exits, ends>>

\* Sub.Close, first the context of the sender.
Cancel(s, c) ==
    /\ up /\ closer[<<s, c>>] = "cancel"
    /\ ctxDone' = ctxDone \cup {s}
    /\ closer' = [closer EXCEPT ![<<s, c>>] = "lock"]
    /\ UNCHANGED <<up, kinds, cache, subs, walk, made, feeds, lines, exits, closed,
                   connClosed>>

\* ... then, under Sub.locker, the connection and the flag,
CloseConn(s, c) ==
    /\ up /\ closer[<<s, c>>] = "lock"
    /\ \A d \in Closers : closer[<<s, d>>] # "remove"
    /\ connClosed' = connClosed \cup {s}
    /\ closed' = closed \cup {s}
    /\ closer' = [closer EXCEPT ![<<s, c>>] = IF s \in closed THEN "done" ELSE "remove"]
    /\ UNCHANGED <<up, kinds, cache, subs, walk, made, feeds, lines, exits, ctxDone>>

\* ... and RemoveSub, under Pubsub.m too.
RemoveSub(s, c) ==
    /\ up /\ closer[<<s, c>>] = "remove"
    /\ subs' = subs \ {s}
    /\ closer' = [closer EXCEPT ![<<s, c>>] = "done"]
    /\ UNCHANGED <<up, kinds, cache, walk, made, feeds, lines, exits, ends>>

\* The Pubsub is taken down: its map is emptied, at any time.
Deregister ==
    /\ up /\ subs # {}
    /\ subs' = {}
    /\ UNCHANGED <<up, kinds, cache, walk, made, feeds, lines, exits, ends, closer>>

\* The walk goes on while someone writes the map: the Go runtime may notice and
\* end the process.
ConcurrentMapAccess ==
    /\ up /\ walking /\ out = <<>>
    /\ \/ subs # {} \/ made # Subs
       \/ \E s \in Subs, c \in Closers : closer[<<s, c>>] = "remove"
    /\ up' = FALSE
    /\ UNCHANGED <<kinds, cache, subs, walk, made, feeds, lines, exits, ends, closer>>

-----------------------------------------------------------------------------

PublisherStep == (\E s \in Subs : Visit(s)) \/ Submit \/ PublishReturns
SenderStep(s) == Pull(s) \/ OnEvent(s) \/ SenderReturns(s)
CloserStep(s, c) == Cancel(s, c) \/ CloseConn(s, c) \/ RemoveSub(s, c)

\* The process ended, or the publisher is silent and nobody has anything to do.
Quiet ==
    /\ ~up \/ (Published = MaxTags /\ ~walking)
    /\ UNCHANGED vars

Next ==
    \/ \E kind \in Kinds : Publish(kind)
    \/ PublisherStep
    \/ \E s \in Subs : Sub(s) \/ SenderStep(s) \/ Disconnect(s) \/ OnClose(s)
    \/ \E s \in Subs, c \in Closers : CloserStep(s, c)
    \/ Deregister \/ ConcurrentMapAccess \/ Quiet

Spec == Init /\ [][Next]_vars

(***************************************************************************)
(* Goroutines run, and a connection that is closed tells its handler.      *)
(* Nothing is assumed of the publisher's peer, of who joins or leaves, nor *)
(* that a sender's select prefers its context to the tags that are left.   *)
(***************************************************************************)
Fairness ==
    /\ WF_vars(PublisherStep)
    /\ \A s \in Subs :
          /\ WF_vars(SenderStep(s)) /\ WF_vars(OnClose(s))
          /\ \A c \in Closers : WF_vars(CloserStep(s, c))

FairSpec == Spec /\ Fairness

-----------------------------------------------------------------------------
(***************************************************************************)
(* Properties.                                                             *)
(***************************************************************************)

Elems(q) == {q[i] : i \in DOMAIN q}

\* What was submitted to s and not lost, in the order s gets it; the rest of
\* what Publish is submitting to it comes last.
Line(s) == sent[s] \o Present(hand[s]) \o queue[s]
             \o (IF cur = s THEN out ELSE <<>>)

\* The tags Publish is past, for s.
Passed(s) == IF walking /\ s \notin seen THEN Published - 1 ELSE Published

\* A subscriber in the map is handed everything: what was cached when it was
\* initialised and each tag published since are with it, on their way, or lost
\* to its full queue or a failed write.
NothingForgotten ==
    \A s \in inited \cap subs :
        Elems(Line(s)) \cup dropped[s] \cup unsent[s]
            = Elems(burst[s]) \cup {t \in Tags : from[s] < t /\ t <= Passed(s)}

\* Where tag t is due in what s is sent.
Position(s, t) ==
    IF t > from[s] THEN Len(burst[s]) + t - from[s]
    ELSE CHOOSE i \in DOMAIN burst[s] : burst[s][i] = t

\* ... and what s is sent is in order, the cached tags first, and nothing is
\* sent twice, whoever joins, leaves or is closed during the walk.
SentInOrder ==
    \A s \in Subs :
        \A i, j \in DOMAIN Line(s) :
            i < j => Position(s, Line(s)[i]) < Position(s, Line(s)[j])

NewestBefore(kind, t) ==
    LET older == {u \in 1..(t - 1) : kinds[u] = kind}
    IN  IF older = {} THEN <<>> ELSE <<CHOOSE u \in older : \A v \in older : v <= u>>

\* A key frame that is sent to a subscriber that joins comes between the
\* sequence headers that were in force when it was published, not those which
\* followed it.
BurstHasItsHeaders ==
    \A s \in inited :
        \A i \in DOMAIN burst[s] :
            kinds[burst[s][i]] = "key" =>
                LET key == burst[s][i]
                    first == NewestBefore("avc", key) \o <<key>> \o NewestBefore("aac", key)
                IN  /\ Len(first) <= Len(burst[s])
                    /\ SubSeq(burst[s], 1, Len(first)) = first

\* Whatever was due before a tag that s was sent was sent as well, or was lost to
\* a full queue or a failed write: however tags move along and whoever closes s,
\* none goes missing without a trace.
NoSilentGap ==
    \A s \in Subs : \A i \in DOMAIN sent[s] :
        \A t \in Elems(burst[s]) \cup {u \in Tags : from[s] < u} :
            Position(s, t) < Position(s, sent[s][i])
                => t \in Elems(sent[s]) \cup dropped[s] \cup unsent[s]

\* A subscriber that lost a tag to a full queue, or whose handler was told that
\* its connection is gone, is closed and forgotten, or somebody is about to see
\* to it, though two of them may try and the second leaves it to the first.
LossIsNoticed ==
    \A s \in Subs :
        dropped[s] # {} \/ closer[<<s, "handler">>] # "none" =>
            \/ s \in (closed \cap ctxDone) \ subs
            \/ \E c \in Closers : closer[<<s, c>>] \in {"cancel", "lock", "remove"}

\* The line of s from where Publish is to where its sender is.
Under(s) == Present(hand[s]) \o queue[s] \o (IF cur = s THEN out ELSE <<>>)

\* What the media path is to its subscribers: a lossy line each.
Feed == INSTANCE LossyFeed WITH
    published <- Published,
    audience  <- [s \in Subs |-> IF s \notin made THEN "never"
                                 ELSE IF s \in subs THEN "in" ELSE "out"],
    primed    <- inited,
    line      <- [s \in Subs |-> Under(s)],
    delivered <- sent,
    lost      <- [s \in Subs |-> dropped[s] \cup unsent[s]],
    gone      <- connClosed

ImplementsFeed == Feed!FeedSpec

\* A slow subscriber does not hold up the publisher.
PublisherNotBlocked == walking ~> (~walking \/ ~up)

\* Who lost a tag to a full queue, or whose connection is gone, is closed and
\* forgotten, and its sender ends.
LostIsClosed ==
    \A s \in Subs :
        (dropped[s] # {} \/ s \in connClosed)
            ~> (~up \/ (s \in closed /\ s \notin subs \cup senders))

\* "queue is full, cannot send a tag; closing the connection, because cannot
\* restore from this": nothing is sent after a tag that was dropped.
NothingAfterGap ==
    \A s \in Subs : \A t \in dropped[s] :
        \A i \in DOMAIN sent[s] : Position(s, sent[s][i]) < Position(s, t)
=============================================================================
