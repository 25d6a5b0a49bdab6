--------------------------- MODULE PubSubFeedProofs ---------------------------
(***************************************************************************)
(* What becomes of a tag on its way, proved for any number of subscribers, *)
(* of tags, and any length of the queues: none goes missing without a      *)
(* trace, whoever lost one is seen to, and the media path implements       *)
(* LossyFeed, a lossy line for each subscriber.                            *)
(*                                                                         *)
(* It all rests on MediaInv: what a subscriber has is in order, and is     *)
(* what it is owed up to where it left the map.                            *)
(***************************************************************************)
EXTENDS PubSubProofs

-----------------------------------------------------------------------------
(***************************************************************************)
(* Who lost a tag is seen to.                                              *)
(***************************************************************************)

\* A tag is dropped only by a Submit that starts a closer, of which one finds
\* the subscriber open, marks it and takes it out of the map.
Noticed(s) ==
    /\ dropped[s] # {} => closer[<<s, "submit">>] # "none"
    /\ \A c \in Closers : closer[<<s, c>>] \in {"remove", "done"} => s \in closed
    /\ s \in closed => s \notin subs \/ \E c \in Closers : closer[<<s, c>>] = "remove"

NoticeInv == \A s \in Subs : Noticed(s)

\* No closer moves, and nobody enters the map who was closed.
LEMMA NoticeKept ==
    ASSUME NoticeInv, UNCHANGED <<dropped, closer, closed>>,
           subs' \cap closed \subseteq subs
    PROVE  NoticeInv'
  BY DEF NoticeInv, Noticed

LEMMA NoticeStep == TypeInv /\ NoticeInv /\ [Next]_vars => NoticeInv'
<1>. SUFFICES ASSUME TypeInv, NoticeInv, [Next]_vars PROVE NoticeInv'
  OBVIOUS
<1>1. /\ closed \subseteq made /\ closed \subseteq ctxDone /\ subs \subseteq made
      /\ closer \in [Subs \X Closers -> {"none", "cancel", "lock", "remove", "done"}]
      /\ dropped \in [Subs -> SUBSET Tags]
  BY DEF TypeInv, TypeOK
<1>2. ASSUME UNCHANGED <<subs, dropped, closer, closed>> PROVE NoticeInv'
  BY <1>2, NoticeKept
<1>3. ASSUME Submit PROVE NoticeInv'
  <2>1. cur \in Subs /\ "submit" \in Closers /\ UNCHANGED <<subs, closed>>
    BY <1>3 DEF Submit, TypeInv, Closers, ends
  <2>2. CASE UNCHANGED <<dropped, closer>>
    BY <1>2, <2>1, <2>2
  <2>3. CASE Drop /\ StartsCloser(cur, "submit")
    <3>1. \A s \in Subs : s # cur => dropped'[s] = dropped[s]
      BY <1>1, <2>3 DEF Drop
    <3>2. \A s \in Subs, c \in Closers :
            \/ closer'[<<s, c>>] = closer[<<s, c>>]
            \/ closer[<<s, c>>] = "none" /\ closer'[<<s, c>>] = "cancel"
      BY <1>1, <2>1, <2>3 DEF StartsCloser
    <3>3. closer'[<<cur, "submit">>] # "none"
      BY <1>1, <2>1, <2>3 DEF StartsCloser
    <3>4. "submit" \in Closers
      BY DEF Closers
    <3>. SUFFICES ASSUME NEW s \in Subs, Noticed(s) PROVE Noticed(s)'
      BY DEF NoticeInv
    <3>. QED  BY <2>1, <3>1, <3>2, <3>3, <3>4 DEF Noticed
  <2>. QED  BY <1>3, <2>2, <2>3 DEF Submit
<1>4. ASSUME NEW s \in Subs, OnClose(s) PROVE NoticeInv'
  <2>1. "handler" \in Closers /\ UNCHANGED <<subs, dropped, closed>>
    BY <1>4 DEF OnClose, Closers, lines, ends
  <2>2. \A u \in Subs, c \in Closers :
            \/ closer'[<<u, c>>] = closer[<<u, c>>]
            \/ closer[<<u, c>>] = "none" /\ closer'[<<u, c>>] = "cancel"
    BY <1>1, <1>4, <2>1 DEF OnClose, StartsCloser
  <2>3. "submit" \in Closers
    BY DEF Closers
  <2>. SUFFICES ASSUME NEW u \in Subs, Noticed(u) PROVE Noticed(u)'
    BY DEF NoticeInv
  <2>. QED  BY <2>1, <2>2, <2>3 DEF Noticed
<1>5. ASSUME NEW s \in Subs, NEW c \in Closers, Cancel(s, c) PROVE NoticeInv'
  <2>1. /\ closer' = [closer EXCEPT ![<<s, c>>] = "lock"] /\ closer[<<s, c>>] = "cancel"
        /\ UNCHANGED <<subs, dropped, closed>>
    BY <1>5 DEF Cancel, lines
  <2>2. \A u \in Subs, d \in Closers :
            \/ closer'[<<u, d>>] = closer[<<u, d>>]
            \/ closer[<<u, d>>] = "cancel" /\ closer'[<<u, d>>] = "lock"
    BY <1>1, <2>1
  <2>3. "submit" \in Closers
    BY DEF Closers
  <2>. SUFFICES ASSUME NEW u \in Subs, Noticed(u) PROVE Noticed(u)'
    BY DEF NoticeInv
  <2>. QED  BY <2>1, <2>2, <2>3 DEF Noticed
<1>6. ASSUME NEW s \in Subs, NEW c \in Closers, CloseConn(s, c) PROVE NoticeInv'
  <2>1. /\ closer' = [closer EXCEPT ![<<s, c>>] = IF s \in closed THEN "done" ELSE "remove"]
        /\ \A d \in Closers : closer[<<s, d>>] # "remove"
        /\ closed' = closed \cup {s}
        /\ UNCHANGED <<subs, dropped>>
    BY <1>6 DEF CloseConn, lines
  <2>2. \A u \in Subs, d \in Closers :
          closer'[<<u, d>>] = IF u = s /\ d = c THEN IF s \in closed THEN "done" ELSE "remove"
                              ELSE closer[<<u, d>>]
    BY <1>1, <2>1
  <2>3. "submit" \in Closers
    BY DEF Closers
  <2>4. s \in closed => s \notin subs
    BY <2>1 DEF NoticeInv, Noticed
  <2>. SUFFICES ASSUME NEW u \in Subs, Noticed(u) PROVE Noticed(u)'
    BY DEF NoticeInv
  <2>. QED  BY <2>1, <2>2, <2>3, <2>4 DEF Noticed
<1>7. ASSUME NEW s \in Subs, NEW c \in Closers, RemoveSub(s, c) PROVE NoticeInv'
  <2>1. /\ closer' = [closer EXCEPT ![<<s, c>>] = "done"] /\ closer[<<s, c>>] = "remove"
        /\ subs' = subs \ {s}
        /\ UNCHANGED <<dropped, closed>>
    BY <1>7 DEF RemoveSub, lines, ends
  <2>2. \A u \in Subs, d \in Closers :
          closer'[<<u, d>>] = IF u = s /\ d = c THEN "done" ELSE closer[<<u, d>>]
    BY <1>1, <2>1
  <2>3. "submit" \in Closers
    BY DEF Closers
  <2>. SUFFICES ASSUME NEW u \in Subs, Noticed(u) PROVE Noticed(u)'
    BY DEF NoticeInv
  <2>. QED  BY <2>1, <2>2, <2>3 DEF Noticed
<1>8. ASSUME NEW s \in Subs, Sub(s) PROVE NoticeInv'
  BY <1>1, <1>8, NoticeKept DEF Sub, lines, ends
<1>9. ASSUME Deregister PROVE NoticeInv'
  BY <1>9, NoticeKept DEF Deregister, lines, ends
<1>10. ASSUME NEW s \in Subs,
              Visit(s) \/ SenderStep(s) \/ Disconnect(s)
       PROVE  NoticeInv'
  BY <1>2, <1>10 DEF Visit, SenderStep, Pull, OnEvent, SenderReturns, Disconnect, lines, ends
<1>11. ASSUME \/ \E kind \in Kinds : Publish(kind)
              \/ PublishReturns \/ ConcurrentMapAccess \/ UNCHANGED vars
       PROVE  NoticeInv'
  BY <1>2, <1>11 DEF Publish, PublishReturns, ConcurrentMapAccess, vars, lines, ends
<1>. QED
  BY <1>3, <1>4, <1>5, <1>6, <1>7, <1>8, <1>9, <1>10, <1>11
     DEF Next, PublisherStep, CloserStep, Quiet

LEMMA Notices == NoticeInv /\ TypeInv => LossIsNoticed
<1>. SUFFICES ASSUME NoticeInv, TypeInv, NEW s \in Subs,
                     dropped[s] # {} \/ closer[<<s, "handler">>] # "none",
                     \A c \in Closers : closer[<<s, c>>] \notin {"cancel", "lock", "remove"}
              PROVE  s \in (closed \cap ctxDone) \ subs
  BY DEF LossIsNoticed
<1>1. PICK c \in Closers : closer[<<s, c>>] # "none"
  BY DEF Closers, NoticeInv, Noticed
<1>2. closer[<<s, c>>] \in {"none", "cancel", "lock", "remove", "done"}
  BY DEF TypeInv, TypeOK
<1>3. s \in closed
  BY <1>1, <1>2 DEF NoticeInv, Noticed
<1>4. s \in ctxDone
  BY <1>3 DEF TypeInv, TypeOK
<1>. QED  BY <1>3, <1>4 DEF NoticeInv, Noticed

\* However a full queue, a connection that is gone and two closers of the same
\* subscriber meet, it is closed and taken out of the map, or somebody is about
\* to do so: the one who finds it closed already may leave it.
THEOREM LossNoticed == Spec => []LossIsNoticed
<1>1. Init => MediaInv /\ NoticeInv
  BY MediaInit DEF Init, NoticeInv, Noticed
<1>2. (MediaInv /\ NoticeInv) /\ [Next]_vars => (MediaInv /\ NoticeInv)'
  BY MediaStep, NoticeStep DEF MediaInv
<1>3. MediaInv /\ NoticeInv => LossIsNoticed
  BY Notices DEF MediaInv
<1>. QED  BY <1>1, <1>2, <1>3, PTL DEF Spec

-----------------------------------------------------------------------------
(***************************************************************************)
(* No gap without a trace.                                                 *)
(***************************************************************************)

\* What s is given, sooner or later, should it stay.
Due(s) == Elems(burst[s]) \cup {t \in Tags : from[s] < t}

\* Who has a tag has those which come before it, or lost them.
Complete(s) ==
    \A x \in Have(s), t \in Due(s) :
        Place(burst[s], from[s], t) < Place(burst[s], from[s], x) => t \in Have(s)

CompleteInv == \A s \in Subs : Complete(s)

\* The places of what is due.
LEMMA PlaceOfDue ==
    ASSUME TypeInv, HeadersInv, NEW s \in Subs
    PROVE  /\ burst[s] \in Seq(1..from[s]) /\ from[s] \in Nat /\ Len(burst[s]) \in Nat
           /\ \A t \in Elems(burst[s]) :
                 /\ t \in 1..from[s]
                 /\ Place(burst[s], from[s], t) \in 1..Len(burst[s])
           /\ \A t \in Nat : t > from[s] =>
                 Place(burst[s], from[s], t) = Len(burst[s]) + t - from[s]
           /\ \A t \in Due(s) : Place(burst[s], from[s], t) \in Nat
<1>1. from[s] \in Nat /\ Published \in Nat
  BY DEF TypeInv, TypeOK, Tag0, Published
<1>2. BurstFrom(kinds, burst[s], from[s])
  BY DEF HeadersInv
<1>3. /\ burst[s] \in Seq(1..from[s])
      /\ \A i, j \in DOMAIN burst[s] : burst[s][i] = burst[s][j] => i = j
  BY <1>1, <1>2, BurstDistinct
<1>4. /\ \A i \in DOMAIN burst[s] : Place(burst[s], from[s], burst[s][i]) = i
      /\ \A t \in Nat : t > from[s] =>
            Place(burst[s], from[s], t) = Len(burst[s]) + t - from[s]
  BY <1>1, <1>3, PlaceOfBurst
<1>5. Len(burst[s]) \in Nat /\ DOMAIN burst[s] = 1..Len(burst[s])
  BY <1>3
<1>6. ASSUME NEW t \in Elems(burst[s])
      PROVE  /\ t \in 1..from[s]
             /\ Place(burst[s], from[s], t) \in 1..Len(burst[s])
  <2>1. PICK i \in DOMAIN burst[s] : t = burst[s][i]
    BY DEF Elems
  <2>2. burst[s][i] \in 1..from[s]
    BY ONLY <1>3, <1>5, i \in DOMAIN burst[s], ElementOfSeq
  <2>. QED  BY <1>4, <1>5, <2>1, <2>2
<1>7. ASSUME NEW t \in Tags, from[s] < t PROVE Place(burst[s], from[s], t) \in Nat
  <2>1. t \in Nat /\ t > from[s]
    BY <1>1, <1>7 DEF Tags
  <2>. QED  BY <1>1, <1>4, <1>5, <2>1
<1>. QED  BY <1>1, <1>3, <1>4, <1>5, <1>6, <1>7 DEF Due

\* Nothing is added to what anybody has, nor to what is due.
LEMMA CompleteKept ==
    ASSUME CompleteInv, UNCHANGED <<kinds, burst, from>>,
           \A s \in Subs : Have(s)' = Have(s)
    PROVE  CompleteInv'
<1>1. \A s \in Subs : Due(s)' = Due(s)
  BY DEF Due, Tags, Published
<1>. QED  BY <1>1 DEF CompleteInv, Complete

LEMMA CompleteStep == MediaInv /\ CompleteInv /\ [Next]_vars => CompleteInv'
<1>. SUFFICES ASSUME MediaInv, CompleteInv, [Next]_vars PROVE CompleteInv'
  OBVIOUS
<1>0. TypeInv /\ HeadersInv /\ OrderInv /\ KeptInv /\ Published \in Nat
  BY DEF MediaInv, TypeInv, TypeOK, Published
\* What is published now comes after all that anybody has.
<1>1. ASSUME NEW kind \in Kinds, Publish(kind) PROVE CompleteInv'
  <2>1. /\ Published' = Published + 1
        /\ UNCHANGED <<sent, hand, queue, cur, out, burst, from, dropped, unsent, inited>>
    BY <1>0, <1>1 DEF Publish, Published, feeds, lines, exits, TypeInv, TypeOK
  <2>. SUFFICES ASSUME NEW s \in Subs, NEW x \in Have(s), NEW t \in Due(s)',
                       Place(burst[s], from[s], t) < Place(burst[s], from[s], x)
                PROVE  t \in Have(s)
    BY <2>1 DEF CompleteInv, Complete, Have, Pending
  <2>2. CASE t \in Due(s)
    BY <2>2 DEF CompleteInv, Complete
  <2>3. CASE t \notin Due(s)
    <3>1. t = Published + 1 /\ from[s] < t
      BY <1>0, <2>1, <2>3 DEF Due, Tags
    <3>2. x \in Elems(burst[s]) \/ (x \in Nat /\ from[s] < x /\ x <= Published)
      <4>1. s \in inited /\ Have(s) \subseteq Owed(s)
        BY <1>0 DEF KeptInv
      <4>. QED  BY <4>1 DEF Owed, Tags
    <3>3. /\ from[s] \in Nat /\ Len(burst[s]) \in Nat
          /\ Place(burst[s], from[s], t) = Len(burst[s]) + t - from[s]
          /\ x \in Elems(burst[s]) => Place(burst[s], from[s], x) \in 1..Len(burst[s])
          /\ x \in Nat /\ from[s] < x =>
                Place(burst[s], from[s], x) = Len(burst[s]) + x - from[s]
      <4>1. t \in Nat /\ t > from[s] /\ from[s] \in Nat
        BY <1>0, <3>1, PlaceOfDue
      <4>2. x \in Nat /\ from[s] < x => x > from[s]
        BY <4>1
      <4>. QED  BY ONLY <1>0, <4>1, <4>2, PlaceOfDue, s \in Subs
    <3>. QED  BY <1>0, <3>1, <3>2, <3>3
  <2>. QED  BY <2>2, <2>3
\* Only who is in the map is met, and he misses nothing so far.
<1>2. ASSUME NEW u \in Subs, Visit(u) PROVE CompleteInv'
  <2>. SUFFICES ASSUME NEW s \in Subs PROVE Complete(s)'
    BY DEF CompleteInv
  <2>1. /\ u \in subs /\ UNCHANGED <<kinds, subs>> /\ Published' = Published /\ Tags' = Tags
    BY <1>2 DEF Visit, Meets, Published, Tags
  <2>2. CASE s # u
    <3>1. burst'[s] = burst[s] /\ from'[s] = from[s]
      BY <1>0, <1>2, <2>2 DEF Visit, TypeInv, TypeOK
    <3>2. Have(s)' = Have(s) /\ Due(s)' = Due(s)
      BY <1>0, <1>2, <2>1, <2>2, <3>1, VisitAdds DEF Due
    <3>. QED  BY <3>1, <3>2 DEF CompleteInv, Complete
  <2>3. CASE s = u
    <3>1. Have(s)' = Owed(s)' /\ Passed(s)' = Published
      <4>1. CASE s \in inited
        <5>1. Have(s) = Owed(s)
          BY <1>0, <2>1, <2>3, <4>1 DEF KeptInv
        <5>. QED  BY <1>0, <1>2, <2>3, <4>1, <5>1, VisitAdds
      <4>2. CASE s \notin inited
        BY <1>0, <1>2, <2>3, <4>2, VisitAdds
      <4>. QED  BY <4>1, <4>2
    <3>2. Due(s)' \subseteq Owed(s)'
      BY <1>0, <2>1, <3>1 DEF Due, Owed, Tags
    <3>. QED  BY <3>1, <3>2 DEF Complete
  <2>. QED  BY <2>2, <2>3
<1>3. ASSUME Submit \/ \E s \in Subs : Pull(s) \/ OnEvent(s) PROVE CompleteInv'
  <2>1. UNCHANGED <<kinds, burst, from>>
    BY <1>3 DEF Submit, Pull, OnEvent, feeds
  <2>2. \A s \in Subs : Have(s)' = Have(s)
    BY <1>0, <1>3, SubmitMoves, PullMoves, OnEventMoves DEF Moves
  <2>. QED  BY <2>1, <2>2, CompleteKept
<1>4. ASSUME UNCHANGED <<kinds, sent, hand, queue, cur, out, burst, from, dropped, unsent>>
      PROVE  CompleteInv'
  BY <1>4, CompleteKept DEF Have, Pending
<1>5. ASSUME \/ PublishReturns \/ Deregister \/ ConcurrentMapAccess \/ UNCHANGED vars
             \/ \E s \in Subs : Sub(s) \/ SenderReturns(s) \/ Disconnect(s) \/ OnClose(s)
             \/ \E s \in Subs, c \in Closers : CloserStep(s, c)
      PROVE  CompleteInv'
  BY <1>4, <1>5 DEF PublishReturns, Deregister, ConcurrentMapAccess, vars, Sub, SenderReturns,
     Disconnect, OnClose, CloserStep, Cancel, CloseConn, RemoveSub, walk, feeds, lines, exits
<1>. QED
  BY <1>1, <1>2, <1>3, <1>5 DEF Next, PublisherStep, SenderStep, Quiet

LEMMA NoGap == MediaInv /\ CompleteInv => NoSilentGap
<1>. SUFFICES ASSUME MediaInv, CompleteInv, NEW s \in Subs, NEW i \in DOMAIN sent[s],
                     NEW t \in Due(s),
                     Position(s, t) < Position(s, sent[s][i])
              PROVE  t \in Elems(sent[s]) \cup dropped[s] \cup unsent[s]
  BY DEF NoSilentGap, Due
<1>. DEFINE x == sent[s][i]
            b == burst[s]
            f == from[s]
<1>1. Place(b, f, t) < Place(b, f, x)
  BY DEF Position, Place
<1>2. x \in Elems(sent[s]) /\ x \in Have(s)
  BY DEF Elems, Have
<1>3. t \in Have(s)
  BY <1>1, <1>2 DEF CompleteInv, Complete
<1>4. Place(b, f, t) \in Nat /\ Place(b, f, x) \in Nat
  <2>1. x \in Due(s)
    BY <1>2 DEF MediaInv, KeptInv, Owed, Due
  <2>. QED  BY <2>1, PlaceOfDue DEF MediaInv
<1>5. \A y \in Elems(Present(hand[s])) \cup Elems(queue[s]) \cup Elems(Pending(s)) :
         Place(b, f, x) < Place(b, f, y)
  BY <1>2 DEF MediaInv, OrderInv, Ordered, InOrder, Before
<1>. HIDE DEF x, b, f
<1>6. t \notin Elems(Present(hand[s])) \cup Elems(queue[s]) \cup Elems(Pending(s))
  BY <1>1, <1>4, <1>5
<1>. QED  BY <1>3, <1>6 DEF Have

\* A tag that is missing before one that was sent was lost to a full queue or to
\* a failed write: none is missed by the walk, none is overtaken, and none
\* disappears with a subscriber that is closed while it is being served.
THEOREM NothingSkipped == Spec => []NoSilentGap
<1>1. Init => MediaInv /\ CompleteInv
  <2>1. MediaInv /\ Init => CompleteInv
    BY DEF MediaInv, KeptInv, Init, CompleteInv, Complete
  <2>. QED  BY <2>1, MediaInit
<1>2. (MediaInv /\ CompleteInv) /\ [Next]_vars => (MediaInv /\ CompleteInv)'
  BY MediaStep, CompleteStep
<1>3. MediaInv /\ CompleteInv => NoSilentGap
  BY NoGap
<1>. QED  BY <1>1, <1>2, <1>3, PTL DEF Spec

-----------------------------------------------------------------------------
(***************************************************************************)
(* The line of a subscriber, as LossyFeed sees it.                         *)
(***************************************************************************)

\* The head of a sequence and its tail make the sequence.
LEMMA HeadOntoTail ==
    ASSUME NEW S, NEW q \in Seq(S), q # <<>>
    PROVE  <<Head(q)>> \o Tail(q) = q /\ <<Head(q)>> \in Seq(S)
<1>1. /\ Head(q) \in S /\ Tail(q) \in Seq(S) /\ Len(Tail(q)) = Len(q) - 1
      /\ \A i \in 1..Len(Tail(q)) : Tail(q)[i] = q[i + 1]
      /\ Len(q) \in Nat \ {0} /\ Head(q) = q[1]
  BY HeadTailProperties, EmptySeq
<1>2. <<Head(q)>> \in Seq(S) /\ Len(<<Head(q)>>) = 1 /\ <<Head(q)>>[1] = Head(q)
  BY <1>1
<1>3. /\ <<Head(q)>> \o Tail(q) \in Seq(S)
      /\ Len(<<Head(q)>> \o Tail(q)) = Len(q)
      /\ \A i \in 1..Len(q) :
            (<<Head(q)>> \o Tail(q))[i] = IF i <= 1 THEN <<Head(q)>>[i] ELSE Tail(q)[i - 1]
  <2>1. 1 + Len(Tail(q)) = Len(q)
    BY <1>1
  <2>. QED  BY <1>1, <1>2, <2>1, ConcatProperties
<1>4. ASSUME NEW i \in 1..Len(q) PROVE (<<Head(q)>> \o Tail(q))[i] = q[i]
  <2>1. CASE i = 1
    BY <1>1, <1>2, <1>3, <2>1
  <2>2. CASE i # 1
    <3>1. (i - 1) \in 1..Len(Tail(q)) /\ ~(i <= 1) /\ (i - 1) + 1 = i
      BY <1>1, <2>2
    <3>. QED  BY <1>1, <1>3, <3>1
  <2>. QED  BY <2>1, <2>2
<1>. QED  BY ONLY <1>2, <1>3, <1>4, q \in Seq(S), SeqEqual

\* What Submit moves from the rest of what is submitted to the end of the queue,
\* or takes out between the two.
LEMMA HeadBetween ==
    ASSUME NEW S, NEW p \in Seq(S), NEW q \in Seq(S), q # <<>>
    PROVE  /\ Append(p, Head(q)) \o Tail(q) = p \o q
           /\ Feed!Without(p \o q, Len(p) + 1) = p \o Tail(q)
           /\ Len(p) + 1 \in DOMAIN (p \o q)
           /\ (p \o q)[Len(p) + 1] = Head(q)
<1>1. /\ Head(q) \in S /\ Tail(q) \in Seq(S) /\ Len(Tail(q)) = Len(q) - 1
      /\ \A i \in 1..Len(Tail(q)) : Tail(q)[i] = q[i + 1]
      /\ Len(q) \in Nat \ {0} /\ Head(q) = q[1] /\ Len(p) \in Nat
  BY HeadTailProperties, EmptySeq, LenProperties
<1>2. Append(p, Head(q)) \o Tail(q) = p \o q
  <2>1. <<Head(q)>> \o Tail(q) = q /\ <<Head(q)>> \in Seq(S)
    BY HeadOntoTail
  <2>2. Append(p, Head(q)) = p \o <<Head(q)>>
    BY <1>1, AppendIsConcat
  <2>. QED  BY <1>1, <2>1, <2>2, ConcatAssociative
<1>3. /\ p \o q \in Seq(S) /\ Len(p \o q) = Len(p) + Len(q)
      /\ \A i \in 1..Len(p) + Len(q) :
            (p \o q)[i] = IF i <= Len(p) THEN p[i] ELSE q[i - Len(p)]
  BY ConcatProperties
<1>4. /\ p \o Tail(q) \in Seq(S) /\ Len(p \o Tail(q)) = Len(p) + Len(q) - 1
      /\ \A i \in 1..Len(p) + Len(Tail(q)) :
            (p \o Tail(q))[i] = IF i <= Len(p) THEN p[i] ELSE Tail(q)[i - Len(p)]
  BY <1>1, ConcatProperties
<1>5. Len(p) + 1 \in DOMAIN (p \o q) /\ (p \o q)[Len(p) + 1] = Head(q)
  <2>1. /\ Len(p) + 1 \in 1..Len(p) + Len(q) /\ ~(Len(p) + 1 <= Len(p))
        /\ (Len(p) + 1) - Len(p) = 1
    BY <1>1
  <2>2. DOMAIN (p \o q) = 1..Len(p) + Len(q)
    BY <1>3, LenProperties
  <2>. QED  BY <1>1, <1>3, <2>1, <2>2
<1>. DEFINE e(j) == IF j < Len(p) + 1 THEN (p \o q)[j] ELSE (p \o q)[j + 1]
            n == Len(p) + Len(q) - 1
<1>6. Feed!Without(p \o q, Len(p) + 1) = [j \in 1..n |-> e(j)]
  BY <1>3 DEF Feed!Without
<1>7. \A j \in 1..n : e(j) = (p \o Tail(q))[j] /\ e(j) \in S
  <2>. SUFFICES ASSUME NEW j \in 1..n PROVE e(j) = (p \o Tail(q))[j] /\ e(j) \in S
    OBVIOUS
  <2>1. (p \o Tail(q))[j] \in S
    <3>1. j \in 1..Len(p \o Tail(q))
      BY <1>4
    <3>. QED  BY ONLY <1>4, <3>1, ElementOfSeq
  <2>2. CASE j < Len(p) + 1
    <3>1. /\ j <= Len(p) /\ j \in 1..Len(p) + Len(q) /\ j \in 1..Len(p) + Len(Tail(q))
      BY <1>1, <2>2
    <3>. QED  BY <1>3, <1>4, <2>1, <2>2, <3>1
  <2>3. CASE ~(j < Len(p) + 1)
    <3>1. /\ ~(j <= Len(p)) /\ ~(j + 1 <= Len(p))
          /\ j + 1 \in 1..Len(p) + Len(q) /\ j \in 1..Len(p) + Len(Tail(q))
          /\ j - Len(p) \in 1..Len(Tail(q)) /\ (j - Len(p)) + 1 = (j + 1) - Len(p)
      BY <1>1, <2>3
    <3>. QED  BY <1>1, <1>3, <1>4, <2>1, <2>3, <3>1
  <2>. QED  BY <2>2, <2>3
<1>. HIDE DEF e
<1>8. [j \in 1..n |-> e(j)] = p \o Tail(q)
  <2>1. n \in Nat /\ n = Len(p \o Tail(q))
    BY <1>1, <1>4
  <2>2. p \o Tail(q) = [j \in 1..n |-> (p \o Tail(q))[j]]
    BY <1>4, <2>1, LenProperties
  <2>. QED  BY <1>7, <2>2
<1>. QED  BY <1>2, <1>5, <1>6, <1>8

LEMMA UnderParts ==
    ASSUME TypeInv, NEW s \in Subs
    PROVE  /\ Present(hand[s]) \in Seq(Tags) /\ queue[s] \in Seq(Tags)
           /\ Pending(s) \in Seq(Tags) /\ out \in Seq(Tags)
           /\ Present(hand[s]) \o queue[s] \in Seq(Tags)
           /\ Under(s) = (Present(hand[s]) \o queue[s]) \o Pending(s)
           /\ Under(s) \in Seq(Tags)
           /\ Elems(Under(s)) = Elems(Present(hand[s])) \cup Elems(queue[s])
                                  \cup Elems(Pending(s))
<1>1. Present(hand[s]) \in Seq(Tags) /\ queue[s] \in Seq(Tags) /\ Pending(s) \in Seq(Tags)
      /\ out \in Seq(Tags)
  <2>1. <<>> \in Seq(Tags) /\ \A t \in Tags : <<t>> \in Seq(Tags)
    OBVIOUS
  <2>2. hand[s] = 0 \/ hand[s] \in Tags
    BY DEF TypeInv, TypeOK, Tags, Tag0, Published
  <2>. QED  BY <2>1, <2>2 DEF TypeInv, TypeOK, Present, Pending
<1>2. Under(s) = (Present(hand[s]) \o queue[s]) \o Pending(s)
  BY DEF Under, Pending
<1>. DEFINE h == Present(hand[s])
            q == queue[s]
            o == Pending(s)
<1>. HIDE DEF h, q, o
<1>3. h \in Seq(Tags) /\ q \in Seq(Tags) /\ o \in Seq(Tags)
  BY <1>1 DEF h, q, o
<1>4. h \o q \in Seq(Tags) /\ Elems(h \o q) = Elems(h) \cup Elems(q)
  BY ONLY <1>3, ElemsConcat
<1>5. (h \o q) \o o \in Seq(Tags) /\ Elems((h \o q) \o o) = Elems(h \o q) \cup Elems(o)
  <2>. DEFINE p == h \o q
  <2>. HIDE DEF p
  <2>1. p \in Seq(Tags)
    BY <1>4 DEF p
  <2>2. p \o o \in Seq(Tags) /\ Elems(p \o o) = Elems(p) \cup Elems(o)
    BY ONLY <1>3, <2>1, ElemsConcat
  <2>. QED  BY <2>2 DEF p
<1>. QED  BY <1>1, <1>2, <1>4, <1>5 DEF h, q, o

\* What LossyFeed calls given is what a subscriber has.
LEMMA GivenIsHave == ASSUME TypeInv, NEW s \in Subs PROVE Feed!Given(s) = Have(s)
<1>1. \A x : Feed!Of(x) = Elems(x)
  BY DEF Feed!Of, Elems
<1>2. Feed!Given(s) = Elems(Under(s)) \cup Elems(sent[s]) \cup (dropped[s] \cup unsent[s])
  BY <1>1 DEF Feed!Given
<1>. QED  BY <1>2, UnderParts DEF Have

-----------------------------------------------------------------------------
(***************************************************************************)
(* Each step of the media path is one of LossyFeed, or none.               *)
(***************************************************************************)

FeedStep == [Feed!FeedNext]_(Feed!feedVars)

\* The tags, as LossyFeed sees them, stay.
TagsStay == /\ UNCHANGED <<kinds, sent, dropped, unsent>>
            /\ \A s \in Subs : Under(s)' = Under(s)

\* ... and so do the people.
PeopleStay == UNCHANGED <<subs, made, inited, connClosed>>

LEMMA NothingSeen == TagsStay /\ PeopleStay => FeedStep
<1>. SUFFICES ASSUME TagsStay, PeopleStay PROVE UNCHANGED Feed!feedVars
  BY DEF FeedStep
<1>. QED
  BY DEF TagsStay, PeopleStay, Feed!feedVars, Feed!people, Feed!tags, Published

LEMMA PublishSeen ==
    ASSUME TypeInv, NEW kind \in Kinds, Publish(kind)
    PROVE  FeedStep
<1>1. /\ Published' = Published + 1
      /\ UNCHANGED <<sent, hand, queue, cur, out, dropped, unsent>> /\ PeopleStay
  BY DEF Publish, Published, feeds, lines, exits, ends, TypeInv, TypeOK, PeopleStay
<1>2. \A s \in Subs : Under(s)' = Under(s)
  BY <1>1 DEF Under
<1>3. Feed!PublishTag
  BY <1>1, <1>2 DEF Feed!PublishTag, Feed!people, Feed!tags, PeopleStay
<1>. QED  BY <1>3 DEF FeedStep, Feed!FeedNext

LEMMA PeopleSeen ==
    ASSUME TypeInv, TagsStay, UNCHANGED inited,
           \/ \E s \in Subs : Sub(s) \/ Disconnect(s)
           \/ \E s \in Subs, c \in Closers : CloseConn(s, c) \/ RemoveSub(s, c)
           \/ Deregister
    PROVE  FeedStep
<1>1. Published' = Published /\ subs \subseteq made /\ made \subseteq Subs
  BY DEF TagsStay, Published, TypeInv, TypeOK
<1>2. ASSUME NEW s \in Subs, Sub(s) PROVE FeedStep
  <2>1. Feed!Join(s)
    BY <1>1, <1>2 DEF Sub, ends, TagsStay, Feed!Join, Feed!tags
  <2>. QED  BY <2>1 DEF FeedStep, Feed!FeedNext
<1>3. ASSUME NEW s \in Subs, UNCHANGED <<subs, made>>, connClosed' = connClosed \cup {s}
      PROVE  FeedStep
  <2>1. CASE s \in connClosed
    <3>1. PeopleStay
      BY <1>3, <2>1 DEF PeopleStay
    <3>. QED  BY <3>1, NothingSeen
  <2>2. CASE s \notin connClosed
    <3>1. Feed!Hangup(s)
      BY <1>1, <1>3, <2>2 DEF TagsStay, Feed!Hangup, Feed!tags
    <3>. QED  BY <3>1 DEF FeedStep, Feed!FeedNext
  <2>. QED  BY <2>1, <2>2
<1>4. ASSUME NEW S \in SUBSET Subs, subs' = subs \ S, UNCHANGED <<made, connClosed>>
      PROVE  FeedStep
  <2>1. CASE S \cap subs = {}
    <3>1. PeopleStay
      BY <1>4, <2>1 DEF PeopleStay
    <3>. QED  BY <3>1, NothingSeen
  <2>2. CASE S \cap subs # {}
    <3>1. PICK T \in SUBSET Subs : T = S \cap subs
      OBVIOUS
    <3>2. Feed!PartWith(T)
      BY <1>1, <1>4, <2>2, <3>1 DEF TagsStay, Feed!PartWith, Feed!tags
    <3>. QED  BY <3>2 DEF FeedStep, Feed!FeedNext
  <2>. QED  BY <2>1, <2>2
<1>5. ASSUME NEW s \in Subs, Disconnect(s) PROVE FeedStep
  BY <1>3, <1>5 DEF Disconnect
<1>6. ASSUME NEW s \in Subs, NEW c \in Closers, CloseConn(s, c) PROVE FeedStep
  BY <1>3, <1>6 DEF CloseConn
<1>7. ASSUME NEW s \in Subs, NEW c \in Closers, RemoveSub(s, c) PROVE FeedStep
  BY <1>4, <1>7 DEF RemoveSub, ends
<1>8. ASSUME Deregister PROVE FeedStep
  <2>1. subs' = subs \ Subs
    BY <1>1, <1>8 DEF Deregister
  <2>. QED  BY <1>4, <1>8, <2>1 DEF Deregister, ends
<1>. QED  BY <1>2, <1>5, <1>6, <1>7, <1>8

\* Who is met for the first time is primed, who was met before is offered the
\* latest tag, which nobody offered it yet.
LEMMA VisitSeen ==
    ASSUME MediaInv, NEW s \in Subs, Visit(s)
    PROVE  FeedStep
<1>0. TypeInv /\ HeadersInv /\ KeptInv
  BY DEF MediaInv
<1>1. /\ s \in subs \ seen /\ walking /\ out = <<>> /\ cur' = s /\ inited' = inited \cup {s}
      /\ UNCHANGED <<kinds, subs, made, sent, hand, queue, dropped, unsent, connClosed>>
      /\ Published' = Published /\ Published \in Nat /\ s \in made
  BY <1>0 DEF Visit, Meets, lines, exits, ends, Published, TypeInv, TypeOK
<1>2. \A u \in Subs : Pending(u) = <<>> /\ Pending(u)' = IF u = s THEN out' ELSE <<>>
  BY <1>1 DEF Pending
<1>3. \A u \in Subs : /\ Under(u) = (Present(hand[u]) \o queue[u]) \o <<>>
                      /\ u # s => Under(u)' = Under(u)
                      /\ Under(s)' = (Present(hand[s]) \o queue[s]) \o out'
  BY <1>1 DEF Under
<1>4. CASE s \in inited
  <2>1. out' = <<Published>> /\ inited' = inited /\ Published \in Tags
    <3>1. kinds # <<>> /\ kinds \in Seq(Kinds)
      BY <1>0, <1>1 DEF TypeInv, TypeOK
    <3>. QED  BY <1>1, <1>4, <3>1 DEF Visit, Tags, Published
  <2>2. Published \notin Feed!Given(s)
    <3>1. /\ Have(s) \subseteq Owed(s) /\ from[s] <= Passed(s) /\ Passed(s) = Published - 1
      BY <1>0, <1>1, <1>4 DEF KeptInv, Passed
    <3>2. \A t \in Elems(burst[s]) : t \in 1..from[s]
      BY <1>0, PlaceOfDue
    <3>3. from[s] \in Nat
      BY <1>0, PlaceOfDue
    <3>4. Published \notin Owed(s)
      BY <1>1, <3>1, <3>2, <3>3 DEF Owed
    <3>. QED  BY <1>0, <3>1, <3>4, GivenIsHave
  <2>3. Under(s)' = Append(Under(s), Published)
    <3>. DEFINE q == Present(hand[s]) \o queue[s]
    <3>1. q \in Seq(Tags)
      BY <1>0, UnderParts
    <3>2. Under(s) = q \o <<>> /\ Under(s)' = q \o <<Published>>
      BY <1>3, <2>1
    <3>. HIDE DEF q
    <3>. QED  BY <2>1, <3>1, <3>2, AppendIsConcat, ConcatEmptySeq
  <2>4. Feed!Offer(s)
    BY <1>1, <1>3, <1>4, <2>1, <2>2, <2>3 DEF Feed!Offer, Feed!people
  <2>. QED  BY <2>4 DEF FeedStep, Feed!FeedNext
<1>5. CASE s \notin inited
  <2>1. out' = InitTags(cache)
    BY <1>5 DEF Visit
  <2>2. /\ InitTags(cache) \in Seq(1..Published)
        /\ \A i, j \in DOMAIN InitTags(cache) :
              InitTags(cache)[i] = InitTags(cache)[j] => i = j
    <3>1. BurstFrom(kinds, InitTags(cache), Published)
      BY <1>0, InitTagsAreBurst DEF HeadersInv
    <3>. QED  BY <1>1, <3>1, BurstDistinct
  <2>3. Have(s) = {}
    BY <1>0, <1>5 DEF KeptInv
  <2>4. Under(s)' = InitTags(cache)
    <3>1. Present(hand[s]) = <<>> /\ queue[s] = <<>>
      <4>1. Elems(Present(hand[s])) = {} /\ Elems(queue[s]) = {}
        BY <2>3 DEF Have
      <4>2. \A q \in Seq(Tags) : Elems(q) = {} => q = <<>>
        <5>. SUFFICES ASSUME NEW q \in Seq(Tags), q # <<>> PROVE Elems(q) # {}
          OBVIOUS
        <5>1. Head(q) \in Elems(q)
          BY ElemsHeadTail
        <5>. QED  BY <5>1
      <4>. QED  BY <1>0, <4>1, <4>2, UnderParts
    <3>2. (<<>> \o <<>>) \o InitTags(cache) = InitTags(cache)
      BY <2>2, ConcatEmptySeq, EmptySeq
    <3>. QED  BY <1>3, <2>1, <3>1, <3>2
  <2>5. Feed!Given(s) = {}
    BY <1>0, <2>3, GivenIsHave
  <2>6. Feed!Prime(s)
    <3>. HIDE DEF InitTags
    <3>. QED  BY <1>1, <1>3, <1>5, <2>2, <2>4, <2>5 DEF Feed!Prime, Feed!OnlyLineOf
  <2>. QED  BY <2>6 DEF FeedStep, Feed!FeedNext
<1>. QED  BY <1>4, <1>5

\* Submit moves a tag along the line, or loses it.
LEMMA SubmitSeen ==
    ASSUME TypeInv, Submit
    PROVE  FeedStep
<1>0. PICK s \in Subs : s = cur
  BY DEF TypeInv
<1>. DEFINE p == Present(hand[s]) \o queue[s]
<1>1. /\ out # <<>> /\ out' = Tail(out) /\ cur' = cur /\ cur = s
      /\ UNCHANGED <<kinds, subs, made, inited, sent, hand, unsent, connClosed>>
      /\ Published' = Published
  BY <1>0 DEF Submit, feeds, exits, ends, Published
<1>2. /\ queue \in [Subs -> Seq(Tags)] /\ dropped \in [Subs -> SUBSET Tags]
      /\ out \in Seq(Tags) /\ p \in Seq(Tags)
      /\ Present(hand[s]) \in Seq(Tags) /\ queue[s] \in Seq(Tags)
  BY <1>1, UnderParts DEF TypeInv, TypeOK
<1>3. Pending(s) = out /\ Pending(s)' = Tail(out) /\ Under(s) = p \o out
  BY <1>1 DEF Pending, Under
<1>4. \A u \in Subs \ {s} : Pending(u)' = Pending(u)
  BY <1>1 DEF Pending
<1>5. CASE queue' = [queue EXCEPT ![s] = Append(@, Head(out))] /\ dropped' = dropped
  <2>1. Under(s)' = Under(s)
    <3>. DEFINE h == Present(hand[s])
                q == queue[s]
    <3>1. Under(s)' = (h \o Append(q, Head(out))) \o Tail(out)
      BY <1>1, <1>2, <1>5 DEF Under
    <3>. HIDE DEF h
    <3>2. Head(out) \in Tags /\ h \in Seq(Tags) /\ q \in Seq(Tags) /\ p = h \o q
      BY <1>1, <1>2, HeadTailProperties DEF h
    <3>. HIDE DEF q, p
    <3>3. <<Head(out)>> \in Seq(Tags) /\ Append(q, Head(out)) = q \o <<Head(out)>>
      BY <3>2, AppendIsConcat
    <3>4. h \o Append(q, Head(out)) = p \o <<Head(out)>>
      <4>. DEFINE w == <<Head(out)>>
      <4>1. w \in Seq(Tags) /\ Append(q, Head(out)) = q \o w
        BY <3>3
      <4>. HIDE DEF w
      <4>2. h \o (q \o w) = (h \o q) \o w
        BY <3>2, <4>1, ConcatAssociative
      <4>3. h \o Append(q, Head(out)) = p \o w
        BY <3>2, <4>1, <4>2
      <4>. QED  BY <4>3 DEF w
    <3>5. p \in Seq(Tags) /\ Append(p, Head(out)) = p \o <<Head(out)>>
      BY <1>2, <3>2, AppendIsConcat
    <3>6. Append(p, Head(out)) \o Tail(out) = p \o out
      BY ONLY <1>1, <1>2, <3>5, HeadBetween
    <3>. QED  BY ONLY <1>3, <3>1, <3>4, <3>5, <3>6
  <2>2. \A u \in Subs : Under(u)' = Under(u)
    BY <1>1, <1>2, <1>4, <1>5, <2>1 DEF Under, Pending
  <2>3. TagsStay /\ PeopleStay
    BY <1>1, <1>5, <2>2 DEF TagsStay, PeopleStay
  <2>. QED  BY <2>3, NothingSeen
<1>6. CASE dropped' = [dropped EXCEPT ![s] = @ \cup {Head(out)}] /\ queue' = queue
  <2>1. Under(s)' = p \o Tail(out)
    BY <1>1, <1>6 DEF Under
  <2>. DEFINE i == Len(p) + 1
  <2>2. /\ i \in DOMAIN Under(s) /\ Under(s)[i] = Head(out)
        /\ Under(s)' = Feed!Without(Under(s), i)
    <3>. HIDE DEF p
    <3>1. /\ Feed!Without(p \o out, i) = p \o Tail(out)
          /\ i \in DOMAIN (p \o out) /\ (p \o out)[i] = Head(out)
      BY ONLY <1>1, <1>2, HeadBetween
    <3>. QED  BY <1>3, <2>1, <3>1
  <2>3. \A u \in Subs : u # s => Under(u)' = Under(u)
    BY <1>1, <1>4, <1>6 DEF Under, Pending
  <2>. HIDE DEF i, p
  <2>4. [u \in Subs |-> dropped[u] \cup unsent[u]]'
          = [[u \in Subs |-> dropped[u] \cup unsent[u]]
                EXCEPT ![s] = @ \cup {Under(s)[i]}]
    BY <1>1, <1>2, <1>6, <2>2
  <2>5. [u \in Subs |-> Under(u)]'
          = [[u \in Subs |-> Under(u)] EXCEPT ![s] = Feed!Without(@, i)]
    BY <1>1, <2>2, <2>3
  <2>6. Feed!Lose(s)
    BY <1>1, <2>2, <2>4, <2>5 DEF Feed!Lose, Feed!people
  <2>. QED  BY <1>1, <2>6 DEF FeedStep, Feed!FeedNext
<1>. QED  BY <1>0, <1>5, <1>6 DEF Submit, Enqueue, Drop

\* Pull moves one from hand to hand,
LEMMA PullSeen ==
    ASSUME TypeInv, NEW s \in Subs, Pull(s)
    PROVE  FeedStep
<1>1. /\ hand[s] = 0 /\ queue[s] # <<>>
      /\ hand' = [hand EXCEPT ![s] = Head(queue[s])]
      /\ queue' = [queue EXCEPT ![s] = Tail(queue[s])]
      /\ UNCHANGED <<kinds, subs, made, inited, sent, dropped, unsent, connClosed, cur, out>>
  BY DEF Pull, walk, feeds, ends
<1>2. queue \in [Subs -> Seq(Tags)] /\ DOMAIN hand = Subs /\ queue[s] \in Seq(Tags)
  BY DEF TypeInv, TypeOK
<1>3. Under(s)' = Under(s)
  <2>1. Head(queue[s]) \in Tags /\ Head(queue[s]) # 0
    <3>1. Head(queue[s]) \in Tags
      BY <1>1, <1>2, HeadTailProperties
    <3>. QED  BY <3>1 DEF Tags
  <2>2. /\ Present(hand[s]) = <<>> /\ Present(hand'[s]) = <<Head(queue[s])>>
        /\ queue'[s] = Tail(queue[s]) /\ Pending(s)' = Pending(s)
    BY <1>1, <1>2, <2>1 DEF Present, Pending
  <2>3. <<>> \o queue[s] = queue[s] /\ <<Head(queue[s])>> \o Tail(queue[s]) = queue[s]
    BY <1>1, <1>2, HeadOntoTail, ConcatEmptySeq
  <2>. QED  BY <2>2, <2>3 DEF Under, Pending
<1>4. \A u \in Subs : Under(u)' = Under(u)
  BY <1>1, <1>2, <1>3 DEF Under
<1>. QED  BY <1>1, <1>4, NothingSeen DEF TagsStay, PeopleStay

\* ... and OnEvent delivers the first of the line or loses it.
LEMMA OnEventSeen ==
    ASSUME TypeInv, NEW s \in Subs, OnEvent(s)
    PROVE  FeedStep
<1>. DEFINE x == hand[s]
            r == queue[s] \o Pending(s)
<1>1. /\ x # 0 /\ hand' = [hand EXCEPT ![s] = 0]
      /\ UNCHANGED <<kinds, subs, made, inited, queue, dropped, connClosed, cur, out>>
      /\ Published' = Published
  BY DEF OnEvent, walk, feeds, lines, ends, Published
<1>2. \/ /\ s \notin connClosed
         /\ sent' = [sent EXCEPT ![s] = Append(@, x)] /\ unsent' = unsent
      \/ sent' = sent /\ unsent' = [unsent EXCEPT ![s] = @ \cup {x}]
  BY DEF OnEvent, Lost, EventCallback
<1>3. /\ sent \in [Subs -> Seq(Tags)] /\ DOMAIN hand = Subs
      /\ unsent \in [Subs -> SUBSET Tags]
      /\ x \in Tags /\ <<x>> \in Seq(Tags)
  <2>1. /\ sent \in [Subs -> Seq(Tags)] /\ DOMAIN hand = Subs
        /\ unsent \in [Subs -> SUBSET Tags]
    BY DEF TypeInv, TypeOK
  <2>2. x \in 0..Len(kinds) /\ Len(kinds) \in Nat
    BY DEF TypeInv, TypeOK, Tag0, Published
  <2>3. x \in Tags
    BY <1>1, <2>2 DEF Tags, Published
  <2>. QED  BY <2>1, <2>3
<1>4. queue[s] \in Seq(Tags) /\ Pending(s) \in Seq(Tags)
  BY UnderParts
<1>5. Under(s) = <<x>> \o r /\ Under(s)' = r /\ r \in Seq(Tags)
  <2>1. Under(s) = (<<x>> \o queue[s]) \o Pending(s)
    BY <1>1 DEF Under, Pending, Present
  <2>2. Under(s)' = (<<>> \o queue[s]) \o Pending(s)
    BY <1>1, <1>3 DEF Under, Pending, Present
  <2>. DEFINE q == queue[s]
              o == Pending(s)
  <2>. HIDE DEF q, o, x
  <2>3. q \in Seq(Tags) /\ o \in Seq(Tags)
    BY <1>4 DEF q, o
  <2>4. /\ (<<x>> \o q) \o o = <<x>> \o (q \o o) /\ <<>> \o q = q
        /\ q \o o \in Seq(Tags)
    BY ONLY <1>3, <2>3, ConcatAssociative, ConcatEmptySeq, ConcatProperties
  <2>. QED  BY <2>1, <2>2, <2>4 DEF q, o
<1>. HIDE DEF r, x
<1>6. /\ Under(s) # <<>> /\ Head(Under(s)) = x /\ Tail(Under(s)) = r
      /\ 1 \in DOMAIN Under(s) /\ Under(s)[1] = x
      /\ Feed!Without(Under(s), 1) = r
  <2>. DEFINE q == <<x>> \o r
  <2>1. /\ <<>> \in Seq(Tags) /\ <<x>> # <<>> /\ Head(<<x>>) = x /\ Tail(<<x>>) = <<>>
        /\ Len(<<>>) = 0 /\ <<>> \o r = r
    BY <1>5, ConcatEmptySeq, EmptySeq
  <2>2. q \in Seq(Tags) /\ q # <<>> /\ q[1] = x /\ Len(q) = Len(r) + 1 /\ Len(r) \in Nat
    BY <1>3, <1>5
  <2>3. Head(q) = x
    BY <2>2
  <2>. HIDE DEF q
  <2>4. /\ Tail(q) \in Seq(Tags) /\ Len(Tail(q)) = Len(r)
        /\ \A i \in 1..Len(r) : Tail(q)[i] = q[i + 1]
    BY <2>2, HeadTailProperties
  <2>5. \A i \in 1..Len(r) : q[i + 1] = r[i]
    BY <1>3, <1>5, <2>2 DEF q
  <2>6. Tail(q) = r
    <3>1. Len(Tail(q)) = Len(r) /\ \A i \in 1..Len(Tail(q)) : Tail(q)[i] = r[i]
      BY <2>4, <2>5
    <3>. QED  BY ONLY <1>5, <2>4, <3>1, SeqEqual
  <2>7. Feed!Without(q, 1) = r
    <3>1. Len(q) - 1 = Len(r) /\ \A j \in 1..Len(r) : ~(j < 1)
      BY <2>2
    <3>2. Feed!Without(q, 1) = [j \in 1..Len(r) |-> q[j + 1]]
      BY <3>1 DEF Feed!Without
    <3>3. r = [j \in 1..Len(r) |-> r[j]]
      BY <1>5, LenProperties
    <3>. QED  BY <2>5, <3>2, <3>3
  <2>8. 1 \in DOMAIN q
    BY <2>2
  <2>. QED  BY <1>5, <2>2, <2>3, <2>6, <2>7, <2>8 DEF q
<1>7. \A u \in Subs : u # s => Under(u)' = Under(u)
  BY <1>1, <1>3 DEF Under
<1>8. [u \in Subs |-> Under(u)]' = [[u \in Subs |-> Under(u)] EXCEPT ![s] = r]
  BY <1>5, <1>7
<1>9. CASE /\ s \notin connClosed
           /\ sent' = [sent EXCEPT ![s] = Append(@, x)] /\ unsent' = unsent
  <2>1. Feed!Deliver(s)
    BY <1>1, <1>6, <1>8, <1>9 DEF Feed!Deliver, Feed!people
  <2>. QED  BY <2>1 DEF FeedStep, Feed!FeedNext
<1>10. CASE sent' = sent /\ unsent' = [unsent EXCEPT ![s] = @ \cup {x}]
  <2>1. [u \in Subs |-> dropped[u] \cup unsent[u]]'
          = [[u \in Subs |-> dropped[u] \cup unsent[u]]
                EXCEPT ![s] = @ \cup {Under(s)[1]}]
    BY <1>1, <1>3, <1>6, <1>10
  <2>2. [u \in Subs |-> Under(u)]'
          = [[u \in Subs |-> Under(u)] EXCEPT ![s] = Feed!Without(@, 1)]
    BY <1>6, <1>8
  <2>3. Feed!Lose(s)
    BY <1>1, <1>6, <1>10, <2>1, <2>2 DEF Feed!Lose, Feed!people
  <2>. QED  BY <2>3 DEF FeedStep, Feed!FeedNext
<1>. QED  BY <1>2, <1>9, <1>10

LEMMA StepSeen == MediaInv /\ [Next]_vars => FeedStep
<1>. SUFFICES ASSUME MediaInv, [Next]_vars PROVE FeedStep
  OBVIOUS
<1>0. TypeInv
  BY DEF MediaInv
<1>1. ASSUME UNCHANGED <<kinds, sent, hand, queue, cur, out, dropped, unsent>>
      PROVE  TagsStay
  BY <1>1 DEF TagsStay, Under
<1>2. ASSUME \/ PublishReturns \/ ConcurrentMapAccess \/ UNCHANGED vars
             \/ \E s \in Subs : SenderReturns(s) \/ OnClose(s)
             \/ \E s \in Subs, c \in Closers : Cancel(s, c)
      PROVE  FeedStep
  <2>1. UNCHANGED <<kinds, sent, hand, queue, cur, out, dropped, unsent>> /\ PeopleStay
    BY <1>2 DEF PublishReturns, ConcurrentMapAccess, vars, SenderReturns, OnClose, Cancel,
       walk, feeds, lines, exits, ends, PeopleStay
  <2>. QED  BY <1>1, <2>1, NothingSeen
<1>3. ASSUME \/ \E s \in Subs : Sub(s) \/ Disconnect(s)
             \/ \E s \in Subs, c \in Closers : CloseConn(s, c) \/ RemoveSub(s, c)
             \/ Deregister
      PROVE  FeedStep
  <2>1. UNCHANGED <<kinds, sent, hand, queue, cur, out, dropped, unsent, inited>>
    BY <1>3 DEF Sub, Disconnect, CloseConn, RemoveSub, Deregister,
       walk, feeds, lines, exits
  <2>. QED  BY <1>0, <1>1, <1>3, <2>1, PeopleSeen
<1>. QED
  BY <1>0, <1>2, <1>3, PublishSeen, VisitSeen, SubmitSeen, PullSeen, OnEventSeen
     DEF Next, PublisherStep, SenderStep, CloserStep, Quiet

\* The media path is a lossy line to each of its subscribers: caches, queues,
\* senders and a walk without a mutex give nobody a tag that is not due, let
\* none overtake another, and deliver none twice or after it was lost.
THEOREM FeedRefinement == Spec => ImplementsFeed
<1>1. Init => Feed!FeedInit
  <2>. SUFFICES ASSUME Init PROVE Feed!FeedInit
    OBVIOUS
  <2>1. \A s \in Subs : Under(s) = <<>>
    <3>1. <<>> \o <<>> = <<>>
      BY ConcatEmptySeq, EmptySeq
    <3>. QED  BY <3>1 DEF Init, Under, Present
  <2>. QED  BY <2>1 DEF Init, Feed!FeedInit, Published
<1>2. MediaInv /\ [Next]_vars => [Feed!FeedNext]_(Feed!feedVars)
  BY StepSeen DEF FeedStep
<1>. QED
  BY <1>1, <1>2, MediaInvariant, PTL DEF Spec, ImplementsFeed, Feed!FeedSpec
=============================================================================
