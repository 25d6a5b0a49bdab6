---------------------------- MODULE PubSubProofs ----------------------------
(***************************************************************************)
(* The media path, proved for any number of subscribers, of tags, and any  *)
(* length of the queues: what a subscriber is sent is in order, what it is *)
(* not sent is accounted for, and a key frame comes with its headers.      *)
(*                                                                         *)
(* The line of a subscriber is cut into what was sent to it, the tag its   *)
(* sender holds, its queue, and what Publish is submitting to it.  Steps   *)
(* move a tag from the head of one part to the end of the one before, or   *)
(* lose it; only Visit adds to the end of the line.                        *)
(***************************************************************************)
EXTENDS PubSub, SequenceTheorems, TLAPS

-----------------------------------------------------------------------------
(***************************************************************************)
(* Sequences, by their elements and by the place of each in a line.        *)
(***************************************************************************)

\* Position, of what has the burst b, and f as the last tag before those it is
\* given one by one.
Place(b, f, t) ==
    IF t > f THEN Len(b) + t - f ELSE CHOOSE i \in DOMAIN b : b[i] = t

Rising(b, f, q) ==
    \A i, j \in DOMAIN q : i < j => Place(b, f, q[i]) < Place(b, f, q[j])

Before(b, f, A, B) == \A x \in A, y \in B : Place(b, f, x) < Place(b, f, y)

LEMMA ElemsEmpty == Elems(<<>>) = {}
  BY DEF Elems

LEMMA ElemsOne == \A x : Elems(<<x>>) = {x}
  BY DEF Elems

LEMMA ElemsTwo == \A x, y : Elems(<<x, y>>) = {x, y}
  BY DEF Elems

LEMMA ElemsAppend ==
    ASSUME NEW S, NEW q \in Seq(S), NEW x \in S
    PROVE  Elems(Append(q, x)) = Elems(q) \cup {x}
<1>1. /\ Len(q) \in Nat /\ DOMAIN q = 1..Len(q)
      /\ DOMAIN Append(q, x) = 1..(Len(q) + 1)
      /\ \A i \in 1..Len(q) : Append(q, x)[i] = q[i]
      /\ Append(q, x)[Len(q) + 1] = x
  OBVIOUS
<1>2. \A i \in 1..(Len(q) + 1) : i \in 1..Len(q) \/ i = Len(q) + 1
  BY <1>1
<1>3. 1..Len(q) \subseteq 1..(Len(q) + 1) /\ Len(q) + 1 \in 1..(Len(q) + 1)
  BY <1>1
<1>. QED  BY <1>1, <1>2, <1>3 DEF Elems

LEMMA ElemsHeadTail ==
    ASSUME NEW S, NEW q \in Seq(S), q # <<>>
    PROVE  /\ Elems(q) = {Head(q)} \cup Elems(Tail(q))
           /\ Head(q) \in S /\ Tail(q) \in Seq(S)
           /\ Len(Tail(q)) = Len(q) - 1
<1>1. /\ Len(q) \in Nat \ {0} /\ Head(q) = q[1] /\ Head(q) \in S /\ Tail(q) \in Seq(S)
      /\ Len(Tail(q)) = Len(q) - 1
      /\ \A i \in 1..Len(Tail(q)) : Tail(q)[i] = q[i + 1]
  OBVIOUS
<1>2. \A i \in 1..Len(q) : i = 1 \/ (i - 1) \in 1..Len(Tail(q))
  BY <1>1
<1>3. DOMAIN q = 1..Len(q) /\ DOMAIN Tail(q) = 1..Len(Tail(q))
  BY <1>1
<1>4. ASSUME NEW i \in 1..Len(q) PROVE q[i] \in {Head(q)} \cup Elems(Tail(q))
  <2>1. CASE i = 1
    BY <1>1, <2>1
  <2>2. CASE (i - 1) \in 1..Len(Tail(q))
    <3>1. Tail(q)[i - 1] = q[i]
      BY <1>1, <2>2
    <3>. QED  BY <1>3, <2>2, <3>1 DEF Elems
  <2>. QED  BY <1>2, <2>1, <2>2
<1>5. ASSUME NEW i \in 1..Len(Tail(q)) PROVE Tail(q)[i] \in Elems(q)
  <2>1. (i + 1) \in 1..Len(q) /\ Tail(q)[i] = q[i + 1]
    BY <1>1
  <2>. QED  BY <1>3, <2>1 DEF Elems
<1>6. Head(q) \in Elems(q)
  BY <1>1, <1>3 DEF Elems
<1>. QED  BY <1>1, <1>3, <1>4, <1>5, <1>6 DEF Elems

LEMMA ElemsConcat ==
    ASSUME NEW S, NEW p \in Seq(S), NEW q \in Seq(S)
    PROVE  Elems(p \o q) = Elems(p) \cup Elems(q) /\ p \o q \in Seq(S)
<1>1. /\ p \o q \in Seq(S) /\ Len(p \o q) = Len(p) + Len(q)
      /\ Len(p) \in Nat /\ Len(q) \in Nat
      /\ \A i \in 1..Len(p) : (p \o q)[i] = p[i]
      /\ \A i \in 1..Len(q) : (p \o q)[Len(p) + i] = q[i]
  OBVIOUS
<1>2. /\ DOMAIN p = 1..Len(p) /\ DOMAIN q = 1..Len(q)
      /\ DOMAIN (p \o q) = 1..(Len(p) + Len(q))
  BY <1>1
<1>3. ASSUME NEW i \in 1..(Len(p) + Len(q)) PROVE (p \o q)[i] \in Elems(p) \cup Elems(q)
  <2>1. CASE i <= Len(p)
    BY <1>1, <1>2, <2>1 DEF Elems
  <2>2. CASE i > Len(p)
    <3>1. (i - Len(p)) \in 1..Len(q) /\ Len(p) + (i - Len(p)) = i
      BY <1>1, <2>2
    <3>2. (p \o q)[i] = q[i - Len(p)]
      BY <1>1, <3>1
    <3>. QED  BY <1>2, <3>1, <3>2 DEF Elems
  <2>. QED  BY <1>1, <2>1, <2>2
<1>4. ASSUME NEW i \in 1..Len(p) PROVE p[i] \in Elems(p \o q)
  <2>1. i \in 1..(Len(p) + Len(q)) /\ (p \o q)[i] = p[i]
    BY <1>1
  <2>. QED  BY <1>2, <2>1 DEF Elems
<1>5. ASSUME NEW i \in 1..Len(q) PROVE q[i] \in Elems(p \o q)
  <2>1. (Len(p) + i) \in 1..(Len(p) + Len(q)) /\ (p \o q)[Len(p) + i] = q[i]
    BY <1>1
  <2>. QED  BY <1>2, <2>1 DEF Elems
<1>. QED  BY <1>1, <1>2, <1>3, <1>4, <1>5 DEF Elems

LEMMA RisingShort ==
    ASSUME NEW b, NEW f
    PROVE  Rising(b, f, <<>>) /\ \A x : Rising(b, f, <<x>>)
  BY DEF Rising

LEMMA RisingAppend ==
    ASSUME NEW S, NEW q \in Seq(S), NEW x \in S, NEW b, NEW f,
           Rising(b, f, q), Before(b, f, Elems(q), {x})
    PROVE  Rising(b, f, Append(q, x))
<1>1. /\ Len(q) \in Nat /\ DOMAIN q = 1..Len(q)
      /\ DOMAIN Append(q, x) = 1..(Len(q) + 1)
      /\ \A i \in 1..Len(q) : Append(q, x)[i] = q[i]
      /\ Append(q, x)[Len(q) + 1] = x
  OBVIOUS
<1>2. \A i \in 1..Len(q) : Place(b, f, q[i]) < Place(b, f, x)
  BY <1>1 DEF Before, Elems
<1>3. SUFFICES ASSUME NEW i \in 1..(Len(q) + 1), NEW j \in 1..(Len(q) + 1), i < j
               PROVE  Place(b, f, Append(q, x)[i]) < Place(b, f, Append(q, x)[j])
  BY <1>1 DEF Rising
<1>4. i \in 1..Len(q) /\ (j \in 1..Len(q) \/ j = Len(q) + 1)
  BY <1>1, <1>3
<1>. QED  BY <1>1, <1>2, <1>3, <1>4 DEF Rising

LEMMA RisingTail ==
    ASSUME NEW S, NEW q \in Seq(S), q # <<>>, NEW b, NEW f, Rising(b, f, q)
    PROVE  Rising(b, f, Tail(q)) /\ Before(b, f, {Head(q)}, Elems(Tail(q)))
<1>1. /\ Len(q) \in Nat \ {0} /\ Head(q) = q[1]
      /\ DOMAIN q = 1..Len(q) /\ DOMAIN Tail(q) = 1..(Len(q) - 1)
      /\ \A i \in 1..(Len(q) - 1) : Tail(q)[i] = q[i + 1]
  OBVIOUS
<1>2. \A i, j \in 1..Len(q) : i < j => Place(b, f, q[i]) < Place(b, f, q[j])
  BY <1>1 DEF Rising
<1>3. \A i \in 1..(Len(q) - 1) : (i + 1) \in 1..Len(q) /\ 1 < i + 1
  BY <1>1
<1>4. \A i, j \in 1..(Len(q) - 1) : i < j => i + 1 < j + 1
  BY <1>1
<1>5. Rising(b, f, Tail(q))
  BY <1>1, <1>2, <1>3, <1>4 DEF Rising
<1>6. Before(b, f, {Head(q)}, Elems(Tail(q)))
  BY <1>1, <1>2, <1>3 DEF Before, Elems
<1>. QED  BY <1>5, <1>6

LEMMA RisingConcat ==
    ASSUME NEW S, NEW p \in Seq(S), NEW q \in Seq(S), NEW b, NEW f,
           Rising(b, f, p), Rising(b, f, q), Before(b, f, Elems(p), Elems(q))
    PROVE  Rising(b, f, p \o q)
<1>1. /\ Len(p) \in Nat /\ Len(q) \in Nat
      /\ DOMAIN p = 1..Len(p) /\ DOMAIN q = 1..Len(q)
      /\ DOMAIN (p \o q) = 1..(Len(p) + Len(q))
      /\ \A i \in 1..Len(p) : (p \o q)[i] = p[i]
      /\ \A i \in 1..Len(q) : (p \o q)[Len(p) + i] = q[i]
  OBVIOUS
<1>2. \A i \in 1..Len(p), j \in 1..Len(q) : Place(b, f, p[i]) < Place(b, f, q[j])
  BY <1>1 DEF Before, Elems
<1>3. SUFFICES ASSUME NEW i \in 1..(Len(p) + Len(q)), NEW j \in 1..(Len(p) + Len(q)), i < j
               PROVE  Place(b, f, (p \o q)[i]) < Place(b, f, (p \o q)[j])
  BY <1>1 DEF Rising
<1>4. \A k \in 1..(Len(p) + Len(q)) :
        \/ k \in 1..Len(p) /\ (p \o q)[k] = p[k]
        \/ /\ (k - Len(p)) \in 1..Len(q) /\ k > Len(p)
           /\ (p \o q)[k] = q[k - Len(p)]
  <2>1. SUFFICES ASSUME NEW k \in 1..(Len(p) + Len(q)), k > Len(p)
                 PROVE  /\ (k - Len(p)) \in 1..Len(q)
                        /\ (p \o q)[k] = q[k - Len(p)]
    BY <1>1
  <2>2. (k - Len(p)) \in 1..Len(q) /\ Len(p) + (k - Len(p)) = k
    BY <1>1, <2>1
  <2>. QED  BY <1>1, <2>2
<1>5. CASE j \in 1..Len(p)
  BY <1>1, <1>3, <1>4, <1>5 DEF Rising
<1>6. CASE i \in 1..Len(p) /\ j > Len(p)
  BY <1>1, <1>2, <1>4, <1>6
<1>7. CASE i > Len(p) /\ j > Len(p)
  <2>1. i - Len(p) < j - Len(p)
    BY <1>1, <1>3
  <2>. QED  BY <1>1, <1>4, <1>7, <2>1 DEF Rising
<1>. QED  BY <1>1, <1>3, <1>5, <1>6, <1>7

-----------------------------------------------------------------------------
(***************************************************************************)
(* Types.  A nil slice stays nil: sincePrevKeyFrame never holds anything.  *)
(***************************************************************************)

CacheType ==
    cache \in [avcSeqHeaderBeforeKey : Tag0, aacSeqHeaderBeforeKey : Tag0,
               avcSeqHeaderAfterKey : Tag0, aacSeqHeaderAfterKey : Tag0,
               lastKeyFrame : Tag0, sincePrevKeyFrame : {{}}]

TypeInv ==
    /\ TypeOK /\ CacheType
    /\ cur \in Subs
    /\ out # <<>> => walking
    /\ walking => kinds # <<>>
    /\ \A s \in Subs, c \in Closers :
          /\ closer[<<s, c>>] # "none" => s \in made
          /\ closer[<<s, c>>] \in {"lock", "remove"} => s \in ctxDone

\* The cache after each kind of tag.
LEMMA RememberFields ==
    ASSUME NEW c, c \in [avcSeqHeaderBeforeKey : Nat, aacSeqHeaderBeforeKey : Nat,
                         avcSeqHeaderAfterKey : Nat, aacSeqHeaderAfterKey : Nat,
                         lastKeyFrame : Nat, sincePrevKeyFrame : {{}}],
           NEW t \in Nat, NEW kind \in Kinds
    PROVE  Remember(c, t, kind) =
             [avcSeqHeaderBeforeKey |->
                 IF kind = "key" THEN OrKeep(c.avcSeqHeaderAfterKey, c.avcSeqHeaderBeforeKey)
                 ELSE c.avcSeqHeaderBeforeKey,
              aacSeqHeaderBeforeKey |->
                 IF kind = "key" THEN OrKeep(c.aacSeqHeaderAfterKey, c.aacSeqHeaderBeforeKey)
                 ELSE c.aacSeqHeaderBeforeKey,
              avcSeqHeaderAfterKey |-> IF kind = "avc" THEN t ELSE c.avcSeqHeaderAfterKey,
              aacSeqHeaderAfterKey |-> IF kind = "aac" THEN t ELSE c.aacSeqHeaderAfterKey,
              lastKeyFrame |-> IF kind = "key" THEN t ELSE c.lastKeyFrame,
              sincePrevKeyFrame |-> {}]
<1>1. {Append(s, t) : s \in {}} = {} /\ {<<>> : s \in {}} = {}
  OBVIOUS
<1>2. CASE kind = "avc"
  BY <1>1, <1>2 DEF Remember, AddTagAfterKeyFrame
<1>3. CASE kind = "aac"
  BY <1>1, <1>3 DEF Remember, AddTagAfterKeyFrame
<1>4. CASE kind = "key"
  BY <1>1, <1>4 DEF Remember
<1>5. CASE kind = "other"
  BY <1>1, <1>5 DEF Remember, AddTagAfterKeyFrame
<1>. QED  BY <1>2, <1>3, <1>4, <1>5 DEF Kinds

LEMMA TypeInit == Init => TypeInv
<1>. SUFFICES ASSUME Init PROVE TypeInv
  OBVIOUS
<1>1. Published = 0 /\ Tags = {} /\ Tag0 = {0}
  BY DEF Init, Published, Tags, Tag0
<1>2. \A S : <<>> \in Seq(S) /\ Len(<<>>) = 0
  OBVIOUS
<1>3. CacheType
  BY <1>1 DEF Init, CacheType, NoCache
<1>4. \A f \in DOMAIN cache \ {"sincePrevKeyFrame"} : cache[f] \in Tag0
  BY <1>3 DEF CacheType
<1>5. TypeOK
  <2>1. kinds \in Seq(Kinds) /\ cache.sincePrevKeyFrame \subseteq Seq(Tags)
    BY <1>2, <1>3 DEF Init, CacheType
  <2>2. /\ burst \in [Subs -> Seq(Tags)] /\ queue \in [Subs -> Seq(Tags)]
        /\ sent \in [Subs -> Seq(Tags)] /\ out \in Seq(Tags)
        /\ \A s \in Subs : Len(queue[s]) <= QueueLength
    BY <1>2, QueueLengthAssumption DEF Init
  <2>3. /\ from \in [Subs -> Tag0] /\ hand \in [Subs -> Tag0]
        /\ dropped \in [Subs -> SUBSET Tags] /\ unsent \in [Subs -> SUBSET Tags]
        /\ closer \in [Subs \X Closers -> {"none", "cancel", "lock", "remove", "done"}]
    BY <1>1 DEF Init
  <2>. QED  BY <1>4, <2>1, <2>2, <2>3 DEF Init, TypeOK
<1>. QED  BY <1>3, <1>5 DEF Init, TypeInv

LEMMA TypeStep == TypeInv /\ [Next]_vars => TypeInv'
<1>. SUFFICES ASSUME TypeInv, [Next]_vars PROVE TypeInv'
  OBVIOUS
<1>1. ASSUME NEW kind \in Kinds, Publish(kind) PROVE TypeInv'
  <2>1. /\ Published \in Nat /\ Published' = Published + 1
        /\ kinds' \in Seq(Kinds)
    BY <1>1 DEF Publish, Published, TypeInv, TypeOK,
      walk, feeds, lines, exits, ends
  <2>2. Tags \subseteq Tags' /\ Tag0 \subseteq Tag0' /\ Published' \in Tag0'
    BY <2>1 DEF Tags, Tag0
  <2>3. Seq(Tags) \subseteq Seq(Tags')
    BY <2>2
  <2>4. CacheType'
    <3>1. cache' = Remember(cache, Published + 1, kind)
      BY <1>1 DEF Publish
    <3>2. cache \in [avcSeqHeaderBeforeKey : Nat, aacSeqHeaderBeforeKey : Nat,
                     avcSeqHeaderAfterKey : Nat, aacSeqHeaderAfterKey : Nat,
                     lastKeyFrame : Nat, sincePrevKeyFrame : {{}}]
      BY <2>1 DEF TypeInv, CacheType, Tag0
    <3>3. CacheType
      BY DEF TypeInv
    <3>4. /\ cache.avcSeqHeaderBeforeKey \in Tag0' /\ cache.aacSeqHeaderBeforeKey \in Tag0'
          /\ cache.avcSeqHeaderAfterKey \in Tag0' /\ cache.aacSeqHeaderAfterKey \in Tag0'
          /\ cache.lastKeyFrame \in Tag0'
      BY <2>2, <3>3 DEF CacheType
    <3>5. Published + 1 \in Nat /\ Published + 1 \in Tag0'
      BY <2>1, <2>2
    <3>6. \A x, y \in Tag0' : OrKeep(x, y) \in Tag0'
      BY DEF OrKeep
    <3>7. cache' \in [avcSeqHeaderBeforeKey : Tag0', aacSeqHeaderBeforeKey : Tag0',
                      avcSeqHeaderAfterKey : Tag0', aacSeqHeaderAfterKey : Tag0',
                      lastKeyFrame : Tag0', sincePrevKeyFrame : {{}}]
      BY ONLY <3>1, <3>2, <3>4, <3>5, <3>6, kind \in Kinds, RememberFields
    <3>. QED  BY <3>7 DEF CacheType
  <2>5. \A f \in DOMAIN cache' \ {"sincePrevKeyFrame"} : cache'[f] \in Tag0'
    BY <2>4 DEF CacheType
  <2>6. cache'.sincePrevKeyFrame \subseteq Seq(Tags')
    BY <2>4 DEF CacheType
  <2>7. TypeOK'
    <3>1. out' = <<>> /\ <<>> \in Seq(Tags')
      BY <1>1 DEF Publish, TypeInv
    <3>2. /\ burst' \in [Subs -> Seq(Tags')] /\ queue' \in [Subs -> Seq(Tags')]
          /\ sent' \in [Subs -> Seq(Tags')]
      BY <1>1, <2>3 DEF Publish, TypeInv, TypeOK,
      walk, feeds, lines, exits, ends
    <3>3. /\ from' \in [Subs -> Tag0'] /\ hand' \in [Subs -> Tag0']
      BY <1>1, <2>2 DEF Publish, TypeInv, TypeOK,
      walk, feeds, lines, exits, ends
    <3>4. dropped' \in [Subs -> SUBSET Tags'] /\ unsent' \in [Subs -> SUBSET Tags']
      BY <1>1, <2>2 DEF Publish, TypeInv, TypeOK,
      walk, feeds, lines, exits, ends
    <3>. QED
      BY <1>1, <2>1, <2>5, <2>6, <3>1, <3>2, <3>3, <3>4 DEF Publish, TypeInv, TypeOK,
      walk, feeds, lines, exits, ends
  <2>8. kinds' # <<>>
    BY <2>1 DEF Published
  <2>. QED
    BY <1>1, <2>4, <2>7, <2>8 DEF Publish, TypeInv, TypeOK, feeds, lines, exits, ends
\* Nobody else publishes.
<1>2. ASSUME UNCHANGED <<kinds, cache>>
      PROVE  /\ Published' = Published /\ Tags' = Tags /\ Tag0' = Tag0
             /\ CacheType' /\ kinds' \in Seq(Kinds)
             /\ cache'.sincePrevKeyFrame \subseteq Seq(Tags')
             /\ \A f \in DOMAIN cache' \ {"sincePrevKeyFrame"} : cache'[f] \in Tag0'
  BY <1>2 DEF Published, Tags, Tag0, CacheType, TypeInv, TypeOK
<1>3. ASSUME NEW s \in Subs, Visit(s) PROVE TypeInv'
  <2>1. InitTags(cache) \in Seq(Tags)
    <3>1. \A t \in Tag0 : Present(t) \in Seq(Tags)
      <4>1. \A t \in Tag0 : t = 0 \/ t \in Tags
        BY DEF Tags, Tag0, Published, TypeInv, TypeOK
      <4>2. <<>> \in Seq(Tags) /\ \A t \in Tags : <<t>> \in Seq(Tags)
        OBVIOUS
      <4>. QED  BY <4>1, <4>2 DEF Present
    <3>2. Since(cache) = <<>>
      BY DEF Since, TypeInv, CacheType
    <3>3. cache.lastKeyFrame # 0 => <<cache.lastKeyFrame>> \in Seq(Tags)
      BY DEF TypeInv, CacheType, Tags, Tag0, Published, TypeOK
    <3>. QED  BY <3>1, <3>2, <3>3 DEF InitTags, TypeInv, CacheType
  <2>2. s \in made /\ Published \in Tag0 /\ (walking => Published \in Tags)
    BY <1>3 DEF Visit, Meets, Tags, Tag0, Published, TypeInv, TypeOK,
      walk, feeds, lines, exits, ends
  <2>3. out' \in Seq(Tags)
    <3>1. walking => <<Published>> \in Seq(Tags)
      BY <2>2
    <3>. QED  BY <1>3, <2>1, <3>1 DEF Visit, Meets
  <2>4. burst' \in [Subs -> Seq(Tags)] /\ from' \in [Subs -> Tag0]
    BY <1>3, <2>1, <2>2 DEF Visit, TypeInv, TypeOK
  <2>5. TypeOK'
    BY <1>2, <1>3, <2>2, <2>3, <2>4 DEF Visit, Meets, TypeInv, TypeOK,
      walk, feeds, lines, exits, ends
  <2>. QED  BY <1>2, <1>3, <2>5 DEF Visit, Meets, TypeInv, lines, exits, ends
<1>4. ASSUME Submit PROVE TypeInv'
  <2>1. /\ Head(out) \in Tags /\ Tail(out) \in Seq(Tags) /\ out # <<>>
    BY <1>4 DEF Submit, TypeInv, TypeOK,
      walk, feeds, lines, exits, ends
  <2>2. cur \in seen /\ cur \in made /\ cur \in Subs /\ walking
    BY <2>1 DEF TypeInv, TypeOK
  <2>3. CASE HasRoom(cur)
    <3>1. /\ queue' = [queue EXCEPT ![cur] = Append(queue[cur], Head(out))]
          /\ dropped' = dropped /\ closer' = closer
      BY <1>4, <2>3 DEF Submit, Enqueue
    <3>2. /\ Append(queue[cur], Head(out)) \in Seq(Tags)
          /\ Len(Append(queue[cur], Head(out))) <= QueueLength
      BY <2>1, <2>2, <2>3, QueueLengthAssumption DEF HasRoom, TypeInv, TypeOK,
      walk, feeds, lines, exits, ends
    <3>3. /\ queue' \in [Subs -> Seq(Tags)]
          /\ \A s \in Subs : Len(queue'[s]) <= QueueLength
      BY <2>2, <3>1, <3>2 DEF TypeInv, TypeOK
    <3>. QED  BY <1>2, <1>4, <2>1, <2>2, <3>1, <3>3 DEF Submit, TypeInv, TypeOK,
      walk, feeds, lines, exits, ends
  <2>4. CASE ~HasRoom(cur)
    <3>1. /\ queue' = queue
          /\ dropped' = [dropped EXCEPT ![cur] = dropped[cur] \cup {Head(out)}]
          /\ closer' = IF closer[<<cur, "submit">>] = "none"
                       THEN [closer EXCEPT ![<<cur, "submit">>] = "cancel"] ELSE closer
      BY <1>4, <2>4 DEF Submit, Drop, StartsCloser
    <3>2. dropped' \in [Subs -> SUBSET Tags]
      BY <2>1, <2>2, <3>1 DEF TypeInv, TypeOK
    <3>3. "submit" \in Closers
      BY DEF Closers
    <3>4. closer' \in [Subs \X Closers -> {"none", "cancel", "lock", "remove", "done"}]
      BY <2>2, <3>1, <3>3 DEF TypeInv, TypeOK
    <3>5. \A s \in Subs, c \in Closers :
             /\ closer'[<<s, c>>] # "none" => s \in made
             /\ closer'[<<s, c>>] \in {"lock", "remove"} => s \in ctxDone
      BY <2>2, <3>1, <3>3 DEF TypeInv, TypeOK
    <3>. QED  BY <1>2, <1>4, <2>1, <2>2, <3>1, <3>2, <3>4, <3>5 DEF Submit, TypeInv, TypeOK,
      walk, feeds, lines, exits, ends
  <2>. QED  BY <2>3, <2>4
<1>5. ASSUME PublishReturns PROVE TypeInv'
  BY <1>2, <1>5 DEF PublishReturns, TypeInv, TypeOK,
      walk, feeds, lines, exits, ends
<1>6. ASSUME NEW s \in Subs, Sub(s) PROVE TypeInv'
  BY <1>2, <1>6 DEF Sub, TypeInv, TypeOK,
      walk, feeds, lines, exits, ends
<1>7. ASSUME NEW s \in Subs, Pull(s) PROVE TypeInv'
  <2>1. /\ Head(queue[s]) \in Tags /\ Tail(queue[s]) \in Seq(Tags)
        /\ Len(Tail(queue[s])) <= QueueLength
    <3>1. queue[s] \in Seq(Tags) /\ queue[s] # <<>> /\ Len(queue[s]) <= QueueLength
      BY <1>7 DEF Pull, TypeInv, TypeOK,
      walk, feeds, lines, exits, ends
    <3>. QED  BY <3>1, ElemsHeadTail, QueueLengthAssumption
  <2>2. Tags \subseteq Tag0
    BY DEF Tags, Tag0, Published, TypeInv, TypeOK,
      walk, feeds, lines, exits, ends
  <2>3. /\ queue' \in [Subs -> Seq(Tags)] /\ hand' \in [Subs -> Tag0]
        /\ \A u \in Subs : Len(queue'[u]) <= QueueLength
    BY <1>7, <2>1, <2>2 DEF Pull, TypeInv, TypeOK,
      walk, feeds, lines, exits, ends
  <2>. QED  BY <1>2, <1>7, <2>3 DEF Pull, TypeInv, TypeOK,
      walk, feeds, lines, exits, ends
<1>8. ASSUME NEW s \in Subs, OnEvent(s) PROVE TypeInv'
  <2>1. hand[s] \in Tags /\ 0 \in Tag0
    BY <1>8 DEF OnEvent, Tags, Tag0, Published, TypeInv, TypeOK,
      walk, feeds, lines, exits, ends
  <2>2. \/ sent' = [sent EXCEPT ![s] = Append(@, hand[s])] /\ unsent' = unsent
        \/ sent' = sent /\ unsent' = [unsent EXCEPT ![s] = @ \cup {hand[s]}]
    BY <1>8 DEF OnEvent, Lost, EventCallback
  <2>3. Append(sent[s], hand[s]) \in Seq(Tags)
    BY <2>1 DEF TypeInv, TypeOK
  <2>4. sent' \in [Subs -> Seq(Tags)] /\ unsent' \in [Subs -> SUBSET Tags]
    <3>1. /\ sent \in [Subs -> Seq(Tags)] /\ unsent \in [Subs -> SUBSET Tags]
          /\ unsent[s] \cup {hand[s]} \in SUBSET Tags
      BY <2>1 DEF TypeInv, TypeOK
    <3>2. CASE sent' = [sent EXCEPT ![s] = Append(@, hand[s])] /\ unsent' = unsent
      BY <2>3, <3>1, <3>2
    <3>3. CASE sent' = sent /\ unsent' = [unsent EXCEPT ![s] = @ \cup {hand[s]}]
      BY <3>1, <3>3
    <3>. QED  BY <2>2, <3>2, <3>3
  <2>5. hand' \in [Subs -> Tag0]
    BY <1>8, <2>1 DEF OnEvent, TypeInv, TypeOK,
      walk, feeds, lines, exits, ends
  <2>. QED  BY <1>2, <1>8, <2>4, <2>5 DEF OnEvent, TypeInv, TypeOK,
      walk, feeds, lines, exits, ends
<1>9. ASSUME NEW s \in Subs, SenderReturns(s) PROVE TypeInv'
  BY <1>2, <1>9 DEF SenderReturns, TypeInv, TypeOK,
      walk, feeds, lines, exits, ends
<1>10. ASSUME NEW s \in Subs, Disconnect(s) PROVE TypeInv'
  BY <1>2, <1>10 DEF Disconnect, TypeInv, TypeOK,
      walk, feeds, lines, exits, ends
<1>11. ASSUME NEW s \in Subs, OnClose(s) PROVE TypeInv'
  <2>1. closer' = [closer EXCEPT ![<<s, "handler">>] = "cancel"]
    BY <1>11 DEF OnClose, StartsCloser
  <2>2. s \in made /\ "handler" \in Closers
    BY <1>11 DEF OnClose, Closers, TypeInv, TypeOK,
      walk, feeds, lines, exits, ends
  <2>. QED  BY <1>2, <1>11, <2>1, <2>2 DEF OnClose, TypeInv, TypeOK,
      walk, feeds, lines, exits, ends
<1>12. ASSUME NEW s \in Subs, NEW c \in Closers, Cancel(s, c) PROVE TypeInv'
  BY <1>2, <1>12 DEF Cancel, TypeInv, TypeOK,
      walk, feeds, lines, exits, ends
<1>13. ASSUME NEW s \in Subs, NEW c \in Closers, CloseConn(s, c) PROVE TypeInv'
  BY <1>2, <1>13 DEF CloseConn, TypeInv, TypeOK,
      walk, feeds, lines, exits, ends
<1>14. ASSUME NEW s \in Subs, NEW c \in Closers, RemoveSub(s, c) PROVE TypeInv'
  BY <1>2, <1>14 DEF RemoveSub, TypeInv, TypeOK,
      walk, feeds, lines, exits, ends
<1>15. ASSUME Deregister PROVE TypeInv'
  BY <1>2, <1>15 DEF Deregister, TypeInv, TypeOK,
      walk, feeds, lines, exits, ends
<1>16. ASSUME ConcurrentMapAccess PROVE TypeInv'
  <2>1. UNCHANGED <<kinds, cache, subs, walk, made, feeds, lines, exits, ends, closer>>
        /\ up' = FALSE
    BY <1>16 DEF ConcurrentMapAccess
  <2>2. TypeOK'
    BY <1>2, <2>1 DEF TypeInv, TypeOK, walk, feeds, lines, exits, ends
  <2>. QED  BY <1>2, <2>1, <2>2 DEF TypeInv, walk, feeds, lines, exits, ends
<1>17. ASSUME UNCHANGED vars PROVE TypeInv'
  <2>1. TypeOK'
    BY <1>2, <1>17 DEF vars, TypeInv, TypeOK, walk, feeds, lines, exits, ends
  <2>. QED  BY <1>2, <1>17, <2>1 DEF vars, TypeInv, walk, feeds, lines, exits, ends
<1>. QED
  BY <1>1, <1>3, <1>4, <1>5, <1>6, <1>7, <1>8, <1>9, <1>10, <1>11, <1>12, <1>13,
     <1>14, <1>15, <1>16, <1>17 DEF Next, PublisherStep, SenderStep, CloserStep, Quiet

-----------------------------------------------------------------------------
(***************************************************************************)
(* Headers.  The cache holds the latest of each kind, and with the last    *)
(* key frame the latest before it.                                         *)
(***************************************************************************)

Latest(ks, kind, n, x) ==
    /\ x \in 0..n
    /\ x # 0 => ks[x] = kind
    /\ \A u \in (x + 1)..n : ks[u] # kind

BurstFrom(ks, b, n) ==
    \E a, k, c \in 0..n :
        /\ b = Present(a) \o Present(k) \o Present(c)
        /\ k = 0 => Latest(ks, "avc", n, a) /\ Latest(ks, "aac", n, c)
        /\ k # 0 => /\ ks[k] = "key"
                    /\ Latest(ks, "avc", k - 1, a) /\ Latest(ks, "aac", k - 1, c)

CacheInv ==
    /\ Latest(kinds, "avc", Published, cache.avcSeqHeaderAfterKey)
    /\ Latest(kinds, "aac", Published, cache.aacSeqHeaderAfterKey)
    /\ Latest(kinds, "key", Published, cache.lastKeyFrame)
    /\ cache.lastKeyFrame = 0 => /\ cache.avcSeqHeaderBeforeKey = 0
                                 /\ cache.aacSeqHeaderBeforeKey = 0
    /\ cache.lastKeyFrame # 0 =>
          /\ Latest(kinds, "avc", cache.lastKeyFrame - 1, cache.avcSeqHeaderBeforeKey)
          /\ Latest(kinds, "aac", cache.lastKeyFrame - 1, cache.aacSeqHeaderBeforeKey)

HeadersInv == CacheInv /\ \A s \in Subs : BurstFrom(kinds, burst[s], from[s])

\* What was the latest stays so,
LEMMA LatestKept ==
    ASSUME NEW ks \in Seq(Kinds), NEW kind \in Kinds, NEW n \in 0..Len(ks), NEW x,
           NEW k, Latest(ks, k, n, x)
    PROVE  Latest(Append(ks, kind), k, n, x)
<1>1. \A u \in 1..n : Append(ks, kind)[u] = ks[u]
  OBVIOUS
<1>2. x \in 0..n /\ (x # 0 => x \in 1..n) /\ (x + 1)..n \subseteq 1..n
  BY DEF Latest
<1>. QED  BY <1>1, <1>2 DEF Latest

\* ... or gives way to what comes.
LEMMA LatestNext ==
    ASSUME NEW ks \in Seq(Kinds), NEW kind \in Kinds, NEW x, NEW k,
           Latest(ks, k, Len(ks), x)
    PROVE  Latest(Append(ks, kind), k, Len(ks) + 1, IF kind = k THEN Len(ks) + 1 ELSE x)
<1>. DEFINE n == Len(ks)
<1>1. n \in Nat /\ Append(ks, kind)[n + 1] = kind
  OBVIOUS
<1>2. Latest(Append(ks, kind), k, n, x)
  BY <1>1, LatestKept
<1>. HIDE DEF n
<1>3. CASE kind = k
  BY <1>1, <1>3 DEF Latest, n
<1>4. CASE kind # k
  <2>1. x \in 0..n /\ \A u \in (x + 1)..(n + 1) : u = n + 1 \/ u \in (x + 1)..n
    BY <1>1, <1>2 DEF Latest
  <2>. QED  BY <1>1, <1>2, <1>4, <2>1 DEF Latest, n
<1>. QED  BY <1>3, <1>4

LEMMA BurstKept ==
    ASSUME NEW ks \in Seq(Kinds), NEW kind \in Kinds, NEW n \in 0..Len(ks), NEW b,
           BurstFrom(ks, b, n)
    PROVE  BurstFrom(Append(ks, kind), b, n)
<1>1. PICK a \in 0..n, k \in 0..n, c \in 0..n :
        /\ b = Present(a) \o Present(k) \o Present(c)
        /\ k = 0 => Latest(ks, "avc", n, a) /\ Latest(ks, "aac", n, c)
        /\ k # 0 => /\ ks[k] = "key"
                    /\ Latest(ks, "avc", k - 1, a) /\ Latest(ks, "aac", k - 1, c)
  BY DEF BurstFrom
<1>2. k # 0 => Append(ks, kind)[k] = ks[k] /\ (k - 1) \in 0..Len(ks)
  OBVIOUS
<1>. QED  BY <1>1, <1>2, LatestKept DEF BurstFrom

LEMMA OneMore ==
    ASSUME NEW S, NEW p \in Seq(S), NEW y \in S, NEW r \in Seq(S),
           Len(r) = Len(p) + 1, r[Len(p) + 1] = y,
           \A i \in 1..Len(p) : r[i] = p[i]
    PROVE  p \o <<y>> = r
<1>1. /\ Append(p, y) \in Seq(S) /\ Len(Append(p, y)) = Len(r) /\ Len(p) \in Nat
      /\ \A i \in 1..Len(p) : Append(p, y)[i] = r[i]
      /\ Append(p, y)[Len(p) + 1] = r[Len(p) + 1]
  BY AppendProperties
<1>2. \A i \in 1..Len(r) : i \in 1..Len(p) \/ i = Len(p) + 1
  BY <1>1
<1>3. Append(p, y) = r
  BY <1>1, <1>2, SeqEqual
<1>. QED  BY <1>3, AppendIsConcat

\* A burst, spelled out.
LEMMA Spelled ==
    \A a, k, c \in Nat :
        Present(a) \o Present(k) \o Present(c) =
            IF a = 0 THEN IF k = 0 THEN Present(c)
                          ELSE IF c = 0 THEN <<k>> ELSE <<k, c>>
            ELSE IF k = 0 THEN IF c = 0 THEN <<a>> ELSE <<a, c>>
            ELSE IF c = 0 THEN <<a, k>> ELSE <<a, k, c>>
<1>1. \A p \in Seq(Nat) : <<>> \o p = p /\ p \o <<>> = p
  OBVIOUS
<1>2. ASSUME NEW x \in Nat, NEW y \in Nat PROVE <<x>> \o <<y>> = <<x, y>>
  <2>1. /\ <<x>> \in Seq(Nat) /\ Len(<<x>>) = 1 /\ <<x>>[1] = x
        /\ <<x, y>> \in Seq(Nat) /\ Len(<<x, y>>) = 2
        /\ <<x, y>>[1] = x /\ <<x, y>>[2] = y
    OBVIOUS
  <2>2. 1 + 1 = 2 /\ \A i \in 1..1 : i = 1
    OBVIOUS
  <2>. QED  BY ONLY <2>1, <2>2, y \in Nat, OneMore
<1>3. ASSUME NEW x \in Nat, NEW y \in Nat, NEW z \in Nat
      PROVE  <<x, y>> \o <<z>> = <<x, y, z>>
  <2>1. /\ <<x, y>> \in Seq(Nat) /\ Len(<<x, y>>) = 2
        /\ <<x, y>>[1] = x /\ <<x, y>>[2] = y
        /\ <<x, y, z>> \in Seq(Nat) /\ Len(<<x, y, z>>) = 3
        /\ <<x, y, z>>[1] = x /\ <<x, y, z>>[2] = y /\ <<x, y, z>>[3] = z
    OBVIOUS
  <2>2. 2 + 1 = 3 /\ \A i \in 1..2 : i = 1 \/ i = 2
    OBVIOUS
  <2>. QED  BY ONLY <2>1, <2>2, z \in Nat, OneMore
<1>4. <<>> \in Seq(Nat) /\ \A x, y \in Nat : <<x>> \in Seq(Nat) /\ <<x, y>> \in Seq(Nat)
  OBVIOUS
<1>. TAKE a, k, c \in Nat
<1>5. CASE a = 0
  <2>1. CASE k = 0
    BY <1>1, <1>4, <1>5, <2>1 DEF Present
  <2>2. CASE k # 0
    BY <1>1, <1>2, <1>4, <1>5, <2>2 DEF Present
  <2>. QED  BY <2>1, <2>2
<1>6. CASE a # 0 /\ k = 0
  <2>1. Present(a) \o Present(k) = <<a>>
    BY <1>1, <1>4, <1>6 DEF Present
  <2>. QED  BY <1>1, <1>2, <1>4, <1>6, <2>1 DEF Present
<1>7. CASE a # 0 /\ k # 0
  <2>1. Present(a) \o Present(k) = <<a, k>>
    BY <1>2, <1>7 DEF Present
  <2>2. CASE c = 0
    BY <1>1, <1>4, <1>7, <2>1, <2>2 DEF Present
  <2>3. CASE c # 0
    BY <1>3, <1>7, <2>1, <2>3 DEF Present
  <2>. QED  BY <2>2, <2>3
<1>. QED  BY <1>5, <1>6, <1>7

LEMMA ElemsPresent == \A x : Elems(Present(x)) = {x} \ {0}
  BY ElemsEmpty, ElemsOne DEF Present

LEMMA ElemsSpelled ==
    \A a, k, c \in Nat :
        Elems(Present(a) \o Present(k) \o Present(c)) = {a, k, c} \ {0}
<1>. TAKE a, k, c \in Nat
<1>1. \A x \in Nat : Present(x) \in Seq(Nat)
  <2>1. <<>> \in Seq(Nat) /\ \A x \in Nat : <<x>> \in Seq(Nat)
    OBVIOUS
  <2>. QED  BY <2>1 DEF Present
<1>2. \A p, q \in Seq(Nat) :
        Elems(p \o q) = Elems(p) \cup Elems(q) /\ p \o q \in Seq(Nat)
  BY ElemsConcat
<1>. DEFINE A == Present(a)
            K == Present(k)
            C == Present(c)
<1>3. /\ A \in Seq(Nat) /\ K \in Seq(Nat) /\ C \in Seq(Nat)
      /\ Elems(A) = {a} \ {0} /\ Elems(K) = {k} \ {0} /\ Elems(C) = {c} \ {0}
  BY <1>1, ElemsPresent
<1>. HIDE DEF A, K, C
<1>4. A \o K \in Seq(Nat) /\ Elems(A \o K) = {a, k} \ {0}
  <2>1. A \o K \in Seq(Nat) /\ Elems(A \o K) = Elems(A) \cup Elems(K)
    BY ONLY <1>2, <1>3
  <2>. QED  BY ONLY <1>3, <2>1
<1>5. Elems((A \o K) \o C) = {a, k, c} \ {0}
  <2>1. Elems((A \o K) \o C) = Elems(A \o K) \cup Elems(C)
    BY ONLY <1>2, <1>3, <1>4
  <2>. QED  BY ONLY <1>3, <1>4, <2>1
<1>. QED  BY <1>5 DEF A, K, C

LEMMA ShortDistinct ==
    ASSUME NEW S, NEW x \in S, NEW y \in S, NEW z \in S
    PROVE  LET Fine(q) == q \in Seq(S) /\ \A i, j \in DOMAIN q : q[i] = q[j] => i = j
           IN  /\ Fine(<<>>) /\ Fine(<<x>>)
               /\ x # y => Fine(<<x, y>>)
               /\ x # y /\ x # z /\ y # z => Fine(<<x, y, z>>)
<1>1. /\ DOMAIN <<>> = {} /\ DOMAIN <<x>> = {1}
      /\ DOMAIN <<x, y>> = {1, 2} /\ DOMAIN <<x, y, z>> = {1, 2, 3}
  OBVIOUS
<1>2. /\ <<>> \in Seq(S) /\ <<x>> \in Seq(S)
      /\ <<x, y>> \in Seq(S) /\ <<x, y, z>> \in Seq(S)
  OBVIOUS
<1>. QED  BY <1>1, <1>2

LEMMA BurstDistinct ==
    ASSUME NEW ks, NEW n \in Nat, NEW b, BurstFrom(ks, b, n)
    PROVE  /\ b \in Seq(1..n)
           /\ \A i, j \in DOMAIN b : b[i] = b[j] => i = j
<1>1. PICK a \in 0..n, k \in 0..n, c \in 0..n :
        /\ b = Present(a) \o Present(k) \o Present(c)
        /\ a # 0 => ks[a] = "avc"
        /\ c # 0 => ks[c] = "aac"
        /\ k # 0 => ks[k] = "key"
  BY DEF BurstFrom, Latest
<1>2. /\ a # 0 /\ k # 0 => a # k
      /\ a # 0 /\ c # 0 => a # c
      /\ k # 0 /\ c # 0 => k # c
  BY <1>1
<1>3. /\ a # 0 => a \in 1..n
      /\ k # 0 => k \in 1..n
      /\ c # 0 => c \in 1..n
  OBVIOUS
<1>. DEFINE Fine(q) == q \in Seq(1..n) /\ \A i, j \in DOMAIN q : q[i] = q[j] => i = j
<1>4. /\ \A x \in 1..n : Fine(<<x>>)
      /\ \A x, y \in 1..n : x # y => Fine(<<x, y>>)
      /\ \A x, y, z \in 1..n : x # y /\ x # z /\ y # z => Fine(<<x, y, z>>)
  BY ShortDistinct
<1>5. Fine(<<>>)
  OBVIOUS
<1>6. /\ a \in Nat /\ k \in Nat /\ c \in Nat
      /\ b = IF a = 0 THEN IF k = 0 THEN IF c = 0 THEN <<>> ELSE <<c>>
                           ELSE IF c = 0 THEN <<k>> ELSE <<k, c>>
            ELSE IF k = 0 THEN IF c = 0 THEN <<a>> ELSE <<a, c>>
            ELSE IF c = 0 THEN <<a, k>> ELSE <<a, k, c>>
  <2>1. a \in Nat /\ k \in Nat /\ c \in Nat
    OBVIOUS
  <2>2. Present(c) = IF c = 0 THEN <<>> ELSE <<c>>
    BY DEF Present
  <2>. QED  BY <1>1, <2>1, <2>2, Spelled
<1>. HIDE DEF Fine
<1>7. Fine(b)
  BY <1>2, <1>3, <1>4, <1>5, <1>6
<1>. QED  BY <1>7 DEF Fine

\* What Visit is to submit comes from the cache.
LEMMA InitTagsAreBurst ==
    ASSUME TypeInv, CacheInv
    PROVE  BurstFrom(kinds, InitTags(cache), Published)
<1>. DEFINE k == cache.lastKeyFrame
            a == IF k = 0 THEN cache.avcSeqHeaderAfterKey ELSE cache.avcSeqHeaderBeforeKey
            c == IF k = 0 THEN cache.aacSeqHeaderAfterKey ELSE cache.aacSeqHeaderBeforeKey
<1>1. a \in 0..Published /\ k \in 0..Published /\ c \in 0..Published /\ Published \in Nat
  BY DEF TypeInv, CacheType, Tag0, TypeOK, Published
<1>2. Since(cache) = <<>>
  BY DEF Since, TypeInv, CacheType
<1>3. InitTags(cache) = Present(a) \o Present(k) \o Present(c)
  <2>2. \A S : \A p \in Seq(S) : p \o <<>> = p
    OBVIOUS
  <2>3. CASE k = 0
    BY <1>1, <1>2, <2>3, Spelled DEF InitTags, Present
  <2>4. CASE k # 0
    BY <1>1, <1>2, <2>4, Spelled DEF InitTags, Present
  <2>. QED  BY <2>3, <2>4
<1>4. /\ k = 0 => Latest(kinds, "avc", Published, a) /\ Latest(kinds, "aac", Published, c)
      /\ k # 0 => /\ kinds[k] = "key"
                  /\ Latest(kinds, "avc", k - 1, a) /\ Latest(kinds, "aac", k - 1, c)
  BY DEF CacheInv, Latest
<1>. HIDE DEF a, k, c
<1>. QED  BY <1>1, <1>3, <1>4 DEF BurstFrom

LEMMA HeadersInit == Init => HeadersInv
<1>. SUFFICES ASSUME Init PROVE HeadersInv
  OBVIOUS
<1>1. Published = 0 /\ CacheInv
  BY DEF Init, NoCache, CacheInv, Published, Latest
<1>2. <<>> = Present(0) \o Present(0) \o Present(0)
  BY Spelled DEF Present
<1>3. \A kind : Latest(kinds, kind, 0, 0)
  BY DEF Latest
<1>. QED  BY <1>1, <1>2, <1>3 DEF Init, HeadersInv, BurstFrom

LEMMA HeadersStep == TypeInv /\ HeadersInv /\ [Next]_vars => HeadersInv'
<1>. SUFFICES ASSUME TypeInv, HeadersInv, [Next]_vars PROVE HeadersInv'
  OBVIOUS
<1>0. /\ kinds \in Seq(Kinds) /\ Published \in Nat
      /\ \A s \in Subs : from[s] \in 0..Published
  BY DEF TypeInv, TypeOK, Tag0, Published
<1>1. ASSUME NEW kind \in Kinds, Publish(kind) PROVE HeadersInv'
  <2>1. /\ kinds' = Append(kinds, kind) /\ Published' = Published + 1
        /\ cache' = Remember(cache, Published + 1, kind)
        /\ burst' = burst /\ from' = from
    BY <1>0, <1>1 DEF Publish, Published, feeds
  <2>2. cache \in [avcSeqHeaderBeforeKey : Nat, aacSeqHeaderBeforeKey : Nat,
                   avcSeqHeaderAfterKey : Nat, aacSeqHeaderAfterKey : Nat,
                   lastKeyFrame : Nat, sincePrevKeyFrame : {{}}]
    BY <1>0 DEF TypeInv, CacheType, Tag0
  <2>3. /\ cache'.avcSeqHeaderBeforeKey =
              (IF kind = "key" THEN OrKeep(cache.avcSeqHeaderAfterKey, cache.avcSeqHeaderBeforeKey)
               ELSE cache.avcSeqHeaderBeforeKey)
        /\ cache'.aacSeqHeaderBeforeKey =
              (IF kind = "key" THEN OrKeep(cache.aacSeqHeaderAfterKey, cache.aacSeqHeaderBeforeKey)
               ELSE cache.aacSeqHeaderBeforeKey)
        /\ cache'.avcSeqHeaderAfterKey =
              (IF kind = "avc" THEN Published + 1 ELSE cache.avcSeqHeaderAfterKey)
        /\ cache'.aacSeqHeaderAfterKey =
              (IF kind = "aac" THEN Published + 1 ELSE cache.aacSeqHeaderAfterKey)
        /\ cache'.lastKeyFrame = (IF kind = "key" THEN Published + 1 ELSE cache.lastKeyFrame)
    BY <1>0, <2>1, <2>2, RememberFields
  <2>4. /\ Latest(kinds', "avc", Published', cache'.avcSeqHeaderAfterKey)
        /\ Latest(kinds', "aac", Published', cache'.aacSeqHeaderAfterKey)
        /\ Latest(kinds', "key", Published', cache'.lastKeyFrame)
    BY <1>0, <2>1, <2>3, LatestNext DEF HeadersInv, CacheInv, Published
  <2>5. ASSUME kind = "key" PROVE CacheInv'
    <3>1. /\ Latest(kinds', "avc", Published, cache.avcSeqHeaderAfterKey)
          /\ Latest(kinds', "aac", Published, cache.aacSeqHeaderAfterKey)
      BY <1>0, <2>1, LatestKept DEF HeadersInv, CacheInv, Published
    <3>2. ASSUME NEW h, NEW x \in Nat, NEW y \in Nat,
                 Latest(kinds, h, Published, x),
                 cache.lastKeyFrame = 0 => y = 0,
                 cache.lastKeyFrame # 0 => Latest(kinds, h, cache.lastKeyFrame - 1, y)
          PROVE  OrKeep(x, y) = x
      <4>1. x = 0 => y = 0
        <5>. SUFFICES ASSUME x = 0, y # 0 PROVE FALSE
          OBVIOUS
        <5>1. cache.lastKeyFrame \in 1..Published /\ y \in 1..Published /\ kinds[y] = h
          BY <1>0, <3>2 DEF Latest, TypeInv, CacheType, Tag0
        <5>. QED  BY <3>2, <5>1 DEF Latest
      <4>. QED  BY <4>1 DEF OrKeep
    <3>3. /\ OrKeep(cache.avcSeqHeaderAfterKey, cache.avcSeqHeaderBeforeKey)
                = cache.avcSeqHeaderAfterKey
          /\ OrKeep(cache.aacSeqHeaderAfterKey, cache.aacSeqHeaderBeforeKey)
                = cache.aacSeqHeaderAfterKey
      BY <2>2, <3>2 DEF HeadersInv, CacheInv
    <3>. QED  BY <1>0, <2>1, <2>3, <2>4, <2>5, <3>1, <3>3 DEF CacheInv
  <2>6. ASSUME kind # "key" PROVE CacheInv'
    <3>1. cache.lastKeyFrame # 0 =>
            /\ Latest(kinds', "avc", cache.lastKeyFrame - 1, cache.avcSeqHeaderBeforeKey)
            /\ Latest(kinds', "aac", cache.lastKeyFrame - 1, cache.aacSeqHeaderBeforeKey)
      <4>1. cache.lastKeyFrame # 0 => (cache.lastKeyFrame - 1) \in 0..Len(kinds)
        BY <1>0 DEF TypeInv, CacheType, Tag0, Published
      <4>. QED  BY <1>0, <2>1, <4>1, LatestKept DEF HeadersInv, CacheInv
    <3>. QED  BY <2>3, <2>4, <2>6, <3>1 DEF HeadersInv, CacheInv
  <2>7. CacheInv'
    BY <2>5, <2>6
  <2>8. \A s \in Subs : BurstFrom(kinds', burst'[s], from'[s])
    BY <1>0, <2>1, BurstKept DEF HeadersInv, Published
  <2>. QED  BY <2>7, <2>8 DEF HeadersInv
<1>2. ASSUME UNCHANGED <<kinds, cache>> PROVE CacheInv'
  BY <1>2 DEF HeadersInv, CacheInv, Published
<1>3. ASSUME NEW s \in Subs, Visit(s) PROVE HeadersInv'
  <2>1. kinds' = kinds /\ cache' = cache
    BY <1>3 DEF Visit
  <2>2. \/ burst' = burst /\ from' = from
        \/ /\ burst' = [burst EXCEPT ![s] = InitTags(cache)]
           /\ from' = [from EXCEPT ![s] = Published]
    BY <1>3 DEF Visit
  <2>3. BurstFrom(kinds, InitTags(cache), Published)
    BY InitTagsAreBurst DEF HeadersInv
  <2>4. DOMAIN burst = Subs /\ DOMAIN from = Subs
    BY DEF TypeInv, TypeOK
  <2>5. \A u \in Subs : BurstFrom(kinds, burst'[u], from'[u])
    BY <2>2, <2>3, <2>4 DEF HeadersInv
  <2>. QED  BY <1>2, <2>1, <2>5 DEF HeadersInv
<1>4. ASSUME UNCHANGED <<kinds, cache, burst, from>> PROVE HeadersInv'
  BY <1>2, <1>4 DEF HeadersInv
<1>. QED
  BY <1>1, <1>3, <1>4 DEF Next, PublisherStep, SenderStep, CloserStep, Quiet, Submit,
     PublishReturns, Sub, Pull, OnEvent, SenderReturns, Disconnect, OnClose, Cancel, CloseConn,
     RemoveSub, Deregister, ConcurrentMapAccess, vars, feeds

LEMMA HeadersOfBurst == TypeInv /\ HeadersInv => BurstHasItsHeaders
<1>. SUFFICES ASSUME TypeInv, HeadersInv, NEW s \in inited, NEW i \in DOMAIN burst[s],
                     kinds[burst[s][i]] = "key"
              PROVE  LET key == burst[s][i]
                         first == NewestBefore("avc", key) \o <<key>> \o NewestBefore("aac", key)
                     IN  /\ Len(first) <= Len(burst[s])
                         /\ SubSeq(burst[s], 1, Len(first)) = first
  BY DEF BurstHasItsHeaders
<1>. DEFINE b == burst[s]
            n == from[s]
<1>1. s \in Subs /\ n \in Nat /\ BurstFrom(kinds, b, n)
  BY DEF TypeInv, TypeOK, HeadersInv, Tag0, Published
<1>2. PICK a \in 0..n, k \in 0..n, c \in 0..n :
        /\ b = Present(a) \o Present(k) \o Present(c)
        /\ k = 0 => Latest(kinds, "avc", n, a) /\ Latest(kinds, "aac", n, c)
        /\ k # 0 => /\ kinds[k] = "key"
                    /\ Latest(kinds, "avc", k - 1, a) /\ Latest(kinds, "aac", k - 1, c)
  BY <1>1 DEF BurstFrom
<1>3. k # 0 /\ b[i] = k
  <2>1. a # 0 => kinds[a] = "avc"
    BY <1>2 DEF Latest
  <2>2. c # 0 => kinds[c] = "aac"
    BY <1>2 DEF Latest
  <2>3. b[i] \in {a, k, c} \ {0}
    <3>1. a \in Nat /\ k \in Nat /\ c \in Nat /\ b[i] \in Elems(b)
      BY <1>1 DEF Elems
    <3>. QED  BY <1>2, <3>1, ElemsSpelled
  <2>. QED  BY <1>2, <2>1, <2>2, <2>3
<1>4. ASSUME NEW h, NEW x \in 0..n, Latest(kinds, h, k - 1, x)
      PROVE  NewestBefore(h, k) = Present(x)
  <2>. DEFINE older == {u \in 1..(k - 1) : kinds[u] = h}
  <2>1. CASE x = 0
    <3>1. older = {}
      BY <1>1, <1>4, <2>1 DEF Latest
    <3>. QED  BY <2>1, <3>1 DEF NewestBefore, Present
  <2>2. CASE x # 0
    <3>1. x \in older /\ \A v \in older : v <= x
      BY <1>1, <1>4, <2>2 DEF Latest
    <3>2. \A y \in older : (\A v \in older : v <= y) => y = x
      BY <1>1, <3>1
    <3>. HIDE DEF older
    <3>3. (CHOOSE u \in older : \A v \in older : v <= u) = x
      BY <3>1, <3>2
    <3>. QED  BY <2>2, <3>1, <3>3 DEF NewestBefore, Present, older
  <2>. QED  BY <2>1, <2>2
<1>5. NewestBefore("avc", k) \o <<k>> \o NewestBefore("aac", k) = b
  BY <1>2, <1>3, <1>4 DEF Present
<1>6. b \in Seq(1..n) /\ Len(b) <= Len(b) /\ SubSeq(b, 1, Len(b)) = b
  BY <1>1, BurstDistinct
<1>. QED  BY <1>3, <1>5, <1>6

-----------------------------------------------------------------------------
(***************************************************************************)
(* The line of a subscriber.                                               *)
(***************************************************************************)

Pending(s) == IF cur = s THEN out ELSE <<>>

\* Its four parts, each in order and before the next.
InOrder(b, f, p, h, q, o) ==
    /\ Rising(b, f, p) /\ Rising(b, f, h) /\ Rising(b, f, q) /\ Rising(b, f, o)
    /\ Before(b, f, Elems(p), Elems(h))
    /\ Before(b, f, Elems(p), Elems(q))
    /\ Before(b, f, Elems(p), Elems(o))
    /\ Before(b, f, Elems(h), Elems(q))
    /\ Before(b, f, Elems(h), Elems(o))
    /\ Before(b, f, Elems(q), Elems(o))

Ordered(s) == InOrder(burst[s], from[s], sent[s], Present(hand[s]), queue[s], Pending(s))

OrderInv == \A s \in Subs : Ordered(s)

\* What a subscriber was handed, and what it is owed.
Have(s) == Elems(sent[s]) \cup Elems(Present(hand[s])) \cup Elems(queue[s])
             \cup Elems(Pending(s)) \cup dropped[s] \cup unsent[s]

Owed(s) == Elems(burst[s]) \cup {t \in Tags : from[s] < t /\ t <= Passed(s)}

KeptInv ==
    /\ \A s \in Subs :
          /\ s \notin inited => Have(s) = {}
          /\ s \in inited => from[s] <= Passed(s) /\ Have(s) \subseteq Owed(s)
          /\ s \in inited \cap subs => Owed(s) \subseteq Have(s)
    /\ walking => (inited \cap subs) \ seen \subseteq due

\* The head of a part becomes the last of the part before.
LEMMA HeadMoves ==
    ASSUME NEW b, NEW f, NEW S, NEW p \in Seq(S), NEW q \in Seq(S), q # <<>>,
           Rising(b, f, p), Rising(b, f, q), Before(b, f, Elems(p), Elems(q))
    PROVE  /\ Rising(b, f, Append(p, Head(q))) /\ Rising(b, f, Tail(q))
           /\ Before(b, f, Elems(Append(p, Head(q))), Elems(Tail(q)))
           /\ Elems(Append(p, Head(q))) = Elems(p) \cup {Head(q)}
           /\ Elems(q) = {Head(q)} \cup Elems(Tail(q))
<1>1. /\ Elems(q) = {Head(q)} \cup Elems(Tail(q))
      /\ Head(q) \in S /\ Tail(q) \in Seq(S)
  BY ElemsHeadTail
<1>2. Elems(Append(p, Head(q))) = Elems(p) \cup {Head(q)}
  BY <1>1, ElemsAppend
<1>3. Rising(b, f, Tail(q)) /\ Before(b, f, {Head(q)}, Elems(Tail(q)))
  BY RisingTail
<1>4. Before(b, f, Elems(p), {Head(q)}) /\ Before(b, f, Elems(p), Elems(Tail(q)))
  BY <1>1 DEF Before
<1>5. Rising(b, f, Append(p, Head(q)))
  BY <1>1, <1>4, RisingAppend
<1>6. Before(b, f, Elems(p) \cup {Head(q)}, Elems(Tail(q)))
  BY <1>3, <1>4 DEF Before
<1>. QED  BY <1>1, <1>2, <1>3, <1>5, <1>6

\* Submit, by what it does to a line,
LEMMA OrderSubmitted ==
    ASSUME NEW b, NEW f, NEW S, NEW p, NEW h, NEW q \in Seq(S), NEW o \in Seq(S), o # <<>>,
           InOrder(b, f, p, h, q, o)
    PROVE  /\ InOrder(b, f, p, h, Append(q, Head(o)), Tail(o))
           /\ InOrder(b, f, p, h, q, Tail(o))
<1>1. /\ Rising(b, f, Append(q, Head(o))) /\ Rising(b, f, Tail(o))
      /\ Before(b, f, Elems(Append(q, Head(o))), Elems(Tail(o)))
      /\ Elems(Append(q, Head(o))) = Elems(q) \cup {Head(o)}
      /\ Elems(o) = {Head(o)} \cup Elems(Tail(o))
  BY HeadMoves DEF InOrder
<1>2. /\ Before(b, f, Elems(p), Elems(q) \cup {Head(o)})
      /\ Before(b, f, Elems(h), Elems(q) \cup {Head(o)})
      /\ Before(b, f, Elems(p), Elems(Tail(o)))
      /\ Before(b, f, Elems(h), Elems(Tail(o)))
      /\ Before(b, f, Elems(q), Elems(Tail(o)))
  BY <1>1 DEF InOrder, Before
<1>. QED  BY <1>1, <1>2 DEF InOrder

\* ... Pull,
LEMMA OrderPulled ==
    ASSUME NEW b, NEW f, NEW S, NEW p, NEW q \in Seq(S), NEW o, q # <<>>,
           InOrder(b, f, p, <<>>, q, o)
    PROVE  InOrder(b, f, p, <<Head(q)>>, Tail(q), o)
<1>1. /\ Rising(b, f, Tail(q)) /\ Before(b, f, {Head(q)}, Elems(Tail(q)))
      /\ Elems(q) = {Head(q)} \cup Elems(Tail(q))
  BY RisingTail, ElemsHeadTail DEF InOrder
<1>2. Rising(b, f, <<Head(q)>>) /\ Elems(<<Head(q)>>) = {Head(q)}
  BY RisingShort, ElemsOne
<1>3. /\ Before(b, f, Elems(p), {Head(q)}) /\ Before(b, f, Elems(p), Elems(Tail(q)))
      /\ Before(b, f, {Head(q)}, Elems(o)) /\ Before(b, f, Elems(Tail(q)), Elems(o))
  BY <1>1 DEF InOrder, Before
<1>. QED  BY <1>1, <1>2, <1>3 DEF InOrder

\* ... and OnEvent.
LEMMA OrderSent ==
    ASSUME NEW b, NEW f, NEW S, NEW p \in Seq(S), NEW x \in S, NEW q, NEW o,
           InOrder(b, f, p, <<x>>, q, o)
    PROVE  /\ InOrder(b, f, Append(p, x), <<>>, q, o)
           /\ InOrder(b, f, p, <<>>, q, o)
<1>1. Elems(<<x>>) = {x} /\ Elems(<<>>) = {} /\ Rising(b, f, <<>>)
  BY ElemsOne, ElemsEmpty, RisingShort
<1>2. Elems(Append(p, x)) = Elems(p) \cup {x} /\ Rising(b, f, Append(p, x))
  BY <1>1, ElemsAppend, RisingAppend DEF InOrder
<1>3. /\ Before(b, f, Elems(p) \cup {x}, Elems(q))
      /\ Before(b, f, Elems(p) \cup {x}, Elems(o))
      /\ \A A : Before(b, f, A, {}) /\ Before(b, f, {}, A)
  BY <1>1 DEF InOrder, Before
<1>. QED  BY <1>1, <1>2, <1>3 DEF InOrder

\* The parts make a line.
LEMMA OrderOfLine ==
    ASSUME TypeInv, NEW s \in Subs
    PROVE  /\ Elems(Line(s)) = Elems(sent[s]) \cup Elems(Present(hand[s]))
                                 \cup Elems(queue[s]) \cup Elems(Pending(s))
           /\ Ordered(s) => Rising(burst[s], from[s], Line(s))
<1>. DEFINE p == sent[s]
            h == Present(hand[s])
            q == queue[s]
            o == Pending(s)
            b == burst[s]
            f == from[s]
<1>1. /\ p \in Seq(Tags) /\ h \in Seq(Tags) /\ q \in Seq(Tags) /\ o \in Seq(Tags)
      /\ <<>> \in Seq(Tags)
  <2>1. <<>> \in Seq(Tags) /\ \A t \in Tags : <<t>> \in Seq(Tags)
    OBVIOUS
  <2>2. hand[s] = 0 \/ hand[s] \in Tags
    BY DEF TypeInv, TypeOK, Tags, Tag0, Published
  <2>. QED  BY <2>1, <2>2 DEF TypeInv, TypeOK, Present, Pending
<1>2. Line(s) = ((p \o h) \o q) \o o
  BY DEF Line, Pending
<1>3. \A x, y \in Seq(Tags) : Elems(x \o y) = Elems(x) \cup Elems(y) /\ x \o y \in Seq(Tags)
  BY ElemsConcat
<1>4. \A x, y \in Seq(Tags) :
        Rising(b, f, x) /\ Rising(b, f, y) /\ Before(b, f, Elems(x), Elems(y))
            => Rising(b, f, x \o y)
  BY RisingConcat
<1>5. Ordered(s) => InOrder(b, f, p, h, q, o)
  BY DEF Ordered
<1>. HIDE DEF p, h, q, o, b, f
<1>6. p \o h \in Seq(Tags) /\ Elems(p \o h) = Elems(p) \cup Elems(h)
  BY ONLY <1>1, <1>3
<1>7. (p \o h) \o q \in Seq(Tags) /\ Elems((p \o h) \o q) = Elems(p \o h) \cup Elems(q)
  BY ONLY <1>1, <1>3, <1>6
<1>8. Elems(((p \o h) \o q) \o o) = Elems((p \o h) \o q) \cup Elems(o)
  BY ONLY <1>1, <1>3, <1>7
<1>9. ASSUME Ordered(s) PROVE Rising(b, f, Line(s))
  <2>1. Rising(b, f, p \o h)
    BY <1>1, <1>4, <1>5, <1>9 DEF InOrder
  <2>2. Before(b, f, Elems(p) \cup Elems(h), Elems(q))
    BY <1>5, <1>9 DEF InOrder, Before
  <2>3. Rising(b, f, (p \o h) \o q)
    BY <1>1, <1>4, <1>5, <1>6, <1>9, <2>1, <2>2 DEF InOrder
  <2>4. Before(b, f, Elems(p) \cup Elems(h) \cup Elems(q), Elems(o))
    BY <1>5, <1>9 DEF InOrder, Before
  <2>. QED  BY <1>1, <1>2, <1>4, <1>5, <1>6, <1>7, <1>9, <2>3, <2>4 DEF InOrder
<1>10. Elems(Line(s)) = Elems(p) \cup Elems(h) \cup Elems(q) \cup Elems(o)
  BY ONLY <1>2, <1>6, <1>7, <1>8
<1>. QED  BY <1>9, <1>10 DEF p, h, q, o, b, f

\* The places of a burst, and of what follows it.
LEMMA PlaceOfBurst ==
    ASSUME NEW f \in Nat, NEW b \in Seq(1..f),
           \A i, j \in DOMAIN b : b[i] = b[j] => i = j
    PROVE  /\ \A i \in DOMAIN b : Place(b, f, b[i]) = i
           /\ Rising(b, f, b)
           /\ \A t \in Nat : t > f => Place(b, f, t) = Len(b) + t - f
<1>1. \A i \in DOMAIN b : b[i] \in 1..f /\ ~(b[i] > f) /\ i \in Nat
  OBVIOUS
<1>2. ASSUME NEW i \in DOMAIN b PROVE Place(b, f, b[i]) = i
  <2>1. \A j \in DOMAIN b : b[j] = b[i] <=> j = i
    OBVIOUS
  <2>. QED  BY <1>1, <2>1 DEF Place
<1>3. Rising(b, f, b)
  BY <1>1, <1>2 DEF Rising
<1>. QED  BY <1>2, <1>3 DEF Place

-----------------------------------------------------------------------------
(***************************************************************************)
(* Steps.                                                                  *)
(***************************************************************************)

Unmoved(s) == UNCHANGED <<sent[s], hand[s], queue[s], Pending(s), burst[s], from[s],
                          dropped[s], unsent[s]>>

LEMMA UnmovedKeeps ==
    ASSUME NEW s \in Subs, Unmoved(s)
    PROVE  (Ordered(s) => Ordered(s)') /\ Have(s)' = Have(s)
  BY DEF Unmoved, Ordered, Have

\* The tags move along a line, or are lost from it.
Moves(s) ==
    /\ Ordered(s) => Ordered(s)'
    /\ Have(s)' = Have(s)

LEMMA SubmitMoves == TypeInv /\ Submit => \A s \in Subs : Moves(s)
<1>. SUFFICES ASSUME TypeInv, Submit, NEW s \in Subs PROVE Moves(s)
  OBVIOUS
<1>1. /\ out # <<>> /\ out \in Seq(Tags) /\ out' = Tail(out) /\ cur' = cur /\ cur \in Subs
      /\ UNCHANGED <<sent, hand, burst, from, unsent>>
  BY DEF Submit, feeds, exits, TypeInv, TypeOK
<1>2. \/ /\ queue' = [queue EXCEPT ![cur] = Append(@, Head(out))] /\ dropped' = dropped
      \/ /\ dropped' = [dropped EXCEPT ![cur] = @ \cup {Head(out)}] /\ queue' = queue
  BY DEF Submit, Enqueue, Drop
<1>3. queue \in [Subs -> Seq(Tags)] /\ DOMAIN dropped = Subs
  BY DEF TypeInv, TypeOK
<1>4. CASE s # cur
  <2>1. Unmoved(s)
    BY <1>1, <1>2, <1>3, <1>4 DEF Unmoved, Pending
  <2>. QED  BY <2>1, UnmovedKeeps DEF Moves
<1>5. CASE s = cur
  <2>1. Pending(s) = out /\ Pending(s)' = Tail(out)
    BY <1>1, <1>5 DEF Pending
  <2>2. /\ queue[s] \in Seq(Tags) /\ Head(out) \in Tags
        /\ Elems(out) = {Head(out)} \cup Elems(Tail(out))
        /\ Elems(Append(queue[s], Head(out))) = Elems(queue[s]) \cup {Head(out)}
    <3>1. /\ Head(out) \in Tags /\ queue[s] \in Seq(Tags)
          /\ Elems(out) = {Head(out)} \cup Elems(Tail(out))
      BY <1>1, <1>3, ElemsHeadTail
    <3>. QED  BY <3>1, ElemsAppend
  <2>3. CASE /\ queue' = [queue EXCEPT ![cur] = Append(@, Head(out))] /\ dropped' = dropped
    <3>1. queue'[s] = Append(queue[s], Head(out))
      BY <1>3, <1>5, <2>3
    <3>2. Have(s)' = Have(s)
      BY <1>1, <2>1, <2>2, <2>3, <3>1 DEF Have
    <3>3. ASSUME Ordered(s) PROVE Ordered(s)'
      <4>1. InOrder(burst[s], from[s], sent[s], Present(hand[s]), queue[s], out)
        BY <2>1, <3>3 DEF Ordered
      <4>2. InOrder(burst[s], from[s], sent[s], Present(hand[s]),
                    Append(queue[s], Head(out)), Tail(out))
        BY <1>1, <2>2, <4>1, OrderSubmitted
      <4>. QED  BY <1>1, <2>1, <3>1, <4>2 DEF Ordered
    <3>. QED  BY <3>2, <3>3 DEF Moves
  <2>4. CASE /\ dropped' = [dropped EXCEPT ![cur] = @ \cup {Head(out)}] /\ queue' = queue
    <3>1. dropped'[s] = dropped[s] \cup {Head(out)}
      BY <1>3, <1>5, <2>4
    <3>2. Have(s)' = Have(s)
      BY <1>1, <2>1, <2>2, <2>4, <3>1 DEF Have
    <3>3. ASSUME Ordered(s) PROVE Ordered(s)'
      <4>1. InOrder(burst[s], from[s], sent[s], Present(hand[s]), queue[s], out)
        BY <2>1, <3>3 DEF Ordered
      <4>2. InOrder(burst[s], from[s], sent[s], Present(hand[s]), queue[s], Tail(out))
        BY <1>1, <2>2, <4>1, OrderSubmitted
      <4>. QED  BY <1>1, <2>1, <2>4, <4>2 DEF Ordered
    <3>. QED  BY <3>2, <3>3 DEF Moves
  <2>. QED  BY <1>2, <2>3, <2>4
<1>. QED  BY <1>4, <1>5

LEMMA PullMoves ==
    ASSUME TypeInv, NEW u \in Subs, Pull(u), NEW s \in Subs
    PROVE  Moves(s)
<1>1. /\ hand[u] = 0 /\ queue[u] # <<>>
      /\ hand' = [hand EXCEPT ![u] = Head(queue[u])]
      /\ queue' = [queue EXCEPT ![u] = Tail(queue[u])]
      /\ UNCHANGED <<sent, burst, from, dropped, unsent, cur, out>>
  BY DEF Pull, walk, feeds
<1>2. queue \in [Subs -> Seq(Tags)] /\ DOMAIN hand = Subs
  BY DEF TypeInv, TypeOK
<1>3. CASE s # u
  <2>1. Unmoved(s)
    BY <1>1, <1>2, <1>3 DEF Unmoved, Pending
  <2>. QED  BY <2>1, UnmovedKeeps DEF Moves
<1>4. CASE s = u
  <2>1. Head(queue[s]) \in Tags /\ Elems(queue[s]) = {Head(queue[s])} \cup Elems(Tail(queue[s]))
    BY <1>1, <1>2, <1>4, ElemsHeadTail
  <2>2. Head(queue[s]) # 0
    BY <2>1 DEF Tags
  <2>3. /\ Present(hand[s]) = <<>> /\ Present(hand'[s]) = <<Head(queue[s])>>
        /\ queue'[s] = Tail(queue[s]) /\ Pending(s)' = Pending(s)
    BY <1>1, <1>2, <1>4, <2>2 DEF Present, Pending
  <2>4. Have(s)' = Have(s)
    BY <1>1, <2>1, <2>3, ElemsEmpty, ElemsOne DEF Have
  <2>5. Ordered(s) => Ordered(s)'
    BY <1>1, <1>2, <1>4, <2>3, OrderPulled DEF Ordered
  <2>. QED  BY <2>4, <2>5 DEF Moves
<1>. QED  BY <1>3, <1>4

LEMMA OnEventMoves ==
    ASSUME TypeInv, NEW u \in Subs, OnEvent(u), NEW s \in Subs
    PROVE  Moves(s)
<1>1. /\ hand[u] # 0 /\ hand' = [hand EXCEPT ![u] = 0]
      /\ UNCHANGED <<queue, burst, from, dropped, cur, out>>
  BY DEF OnEvent, walk, feeds, lines
<1>2. \/ sent' = [sent EXCEPT ![u] = Append(@, hand[u])] /\ unsent' = unsent
      \/ sent' = sent /\ unsent' = [unsent EXCEPT ![u] = @ \cup {hand[u]}]
  BY DEF OnEvent, Lost, EventCallback
<1>3. /\ sent \in [Subs -> Seq(Tags)] /\ DOMAIN hand = Subs /\ DOMAIN unsent = Subs
      /\ hand[u] \in Tags
  <2>1. sent \in [Subs -> Seq(Tags)] /\ DOMAIN hand = Subs /\ DOMAIN unsent = Subs
    BY DEF TypeInv, TypeOK
  <2>2. hand[u] \in 0..Len(kinds) /\ Len(kinds) \in Nat
    BY DEF TypeInv, TypeOK, Tag0, Published
  <2>. QED  BY <1>1, <2>1, <2>2 DEF Tags, Published
<1>4. CASE s # u
  <2>1. Unmoved(s)
    BY <1>1, <1>2, <1>3, <1>4 DEF Unmoved, Pending
  <2>. QED  BY <2>1, UnmovedKeeps DEF Moves
<1>5. CASE s = u
  <2>1. /\ Present(hand[s]) = <<hand[s]>> /\ Present(hand'[s]) = <<>>
        /\ Pending(s)' = Pending(s) /\ sent[s] \in Seq(Tags) /\ hand[s] \in Tags
    BY <1>1, <1>3, <1>5 DEF Present, Pending
  <2>2. CASE sent' = [sent EXCEPT ![u] = Append(@, hand[u])] /\ unsent' = unsent
    <3>1. sent'[s] = Append(sent[s], hand[s]) /\ Elems(sent'[s]) = Elems(sent[s]) \cup {hand[s]}
      BY <1>3, <1>5, <2>1, <2>2, ElemsAppend
    <3>2. Have(s)' = Have(s)
      BY <1>1, <2>1, <2>2, <3>1, ElemsEmpty, ElemsOne DEF Have
    <3>3. Ordered(s) => Ordered(s)'
      BY <1>1, <2>1, <3>1, OrderSent DEF Ordered
    <3>. QED  BY <3>2, <3>3 DEF Moves
  <2>3. CASE sent' = sent /\ unsent' = [unsent EXCEPT ![u] = @ \cup {hand[u]}]
    <3>1. unsent'[s] = unsent[s] \cup {hand[s]}
      BY <1>3, <1>5, <2>3
    <3>2. Have(s)' = Have(s)
      BY <1>1, <2>1, <2>3, <3>1, ElemsEmpty, ElemsOne DEF Have
    <3>3. Ordered(s) => Ordered(s)'
      BY <1>1, <2>1, <2>3, OrderSent DEF Ordered
    <3>. QED  BY <3>2, <3>3 DEF Moves
  <2>. QED  BY <1>2, <2>2, <2>3
<1>. QED  BY <1>4, <1>5

LEMMA OthersMove ==
    ASSUME UNCHANGED <<sent, hand, queue, cur, out, burst, from, dropped, unsent>>,
           NEW s \in Subs
    PROVE  Moves(s)
<1>1. Unmoved(s)
  BY DEF Unmoved, Pending
<1>. QED  BY <1>1, UnmovedKeeps DEF Moves

\* Who is met is handed the tag that is being published, or its burst.
LEMMA VisitAdds ==
    ASSUME TypeInv, HeadersInv, OrderInv, KeptInv, NEW u \in Subs, Visit(u),
           NEW s \in Subs
    PROVE  /\ Ordered(s)'
           /\ s # u => /\ Have(s)' = Have(s) /\ Owed(s)' = Owed(s) /\ Passed(s)' = Passed(s)
           /\ s = u => from'[s] <= Passed(s)' /\ Passed(s)' = Published
           /\ s = u /\ s \in inited =>
                 /\ Have(s)' = Have(s) \cup {Published}
                 /\ Owed(s)' = Owed(s) \cup {Published}
           /\ s = u /\ s \notin inited => Have(s)' = Owed(s)'
<1>1. /\ out = <<>> /\ walking /\ u \in subs \ seen /\ cur' = u
      /\ seen' = seen \cup {u}
      /\ UNCHANGED <<kinds, walking, sent, hand, queue, dropped, unsent>>
  BY DEF Visit, Meets, lines, exits
<1>2. /\ u \in inited => out' = <<Published>> /\ burst' = burst /\ from' = from
      /\ u \notin inited => /\ out' = InitTags(cache)
                            /\ burst' = [burst EXCEPT ![u] = InitTags(cache)]
                            /\ from' = [from EXCEPT ![u] = Published]
  BY DEF Visit
<1>3. /\ DOMAIN burst = Subs /\ DOMAIN from = Subs /\ from[s] \in Nat
      /\ Published \in Nat /\ Published' = Published /\ Tags' = Tags
  BY <1>1 DEF TypeInv, TypeOK, Tag0, Tags, Published
<1>4. CASE s # u
  <2>1. Unmoved(s)
    BY <1>1, <1>2, <1>3, <1>4 DEF Unmoved, Pending
  <2>2. Passed(s)' = Passed(s)
    BY <1>1, <1>3, <1>4 DEF Passed
  <2>3. Owed(s)' = Owed(s)
    BY <1>3, <2>1, <2>2 DEF Owed, Unmoved
  <2>. QED  BY <1>4, <2>1, <2>2, <2>3, UnmovedKeeps DEF OrderInv
<1>5. CASE s = u
  <2>1. Passed(s) = Published - 1 /\ Passed(s)' = Published
    BY <1>1, <1>3, <1>5 DEF Passed
  <2>2. Pending(s) = <<>> /\ Pending(s)' = out'
    BY <1>1, <1>5 DEF Pending
  <2>3. CASE s \in inited
    <3>1. out' = <<Published>> /\ burst' = burst /\ from' = from
      BY <1>2, <1>5, <2>3
    <3>2. from[s] <= Published - 1 /\ Have(s) \subseteq Owed(s)
      BY <2>1, <2>3 DEF KeptInv
    <3>3. Have(s)' = Have(s) \cup {Published}
      BY <1>1, <2>2, <3>1, ElemsEmpty, ElemsOne DEF Have
    <3>4. Owed(s)' = Owed(s) \cup {Published}
      <4>1. {t \in Tags : from[s] < t /\ t <= Published}
              = {t \in Tags : from[s] < t /\ t <= Published - 1} \cup {Published}
        BY <1>3, <3>2 DEF Tags
      <4>. QED  BY <1>3, <2>1, <3>1, <4>1 DEF Owed
    <3>5. \A t \in Owed(s) : Place(burst[s], from[s], t) < Place(burst[s], from[s], Published)
      <4>1. BurstFrom(kinds, burst[s], from[s])
        BY DEF HeadersInv
      <4>2. /\ burst[s] \in Seq(1..from[s])
            /\ \A i, j \in DOMAIN burst[s] : burst[s][i] = burst[s][j] => i = j
        BY <1>3, <4>1, BurstDistinct
      <4>3. /\ \A i \in DOMAIN burst[s] : Place(burst[s], from[s], burst[s][i]) = i
            /\ \A t \in Nat : t > from[s] => Place(burst[s], from[s], t)
                                               = Len(burst[s]) + t - from[s]
        BY <1>3, <4>2, PlaceOfBurst
      <4>4. ASSUME NEW t \in Elems(burst[s])
            PROVE  Place(burst[s], from[s], t) < Place(burst[s], from[s], Published)
        <5>1. PICK i \in DOMAIN burst[s] : t = burst[s][i]
          BY DEF Elems
        <5>2. i \in 1..Len(burst[s]) /\ Len(burst[s]) \in Nat
          BY <4>2
        <5>. QED  BY <1>3, <3>2, <4>3, <5>1, <5>2
      <4>5. ASSUME NEW t \in Tags, from[s] < t, t <= Published - 1
            PROVE  Place(burst[s], from[s], t) < Place(burst[s], from[s], Published)
        <5>1. t \in Nat /\ Len(burst[s]) \in Nat
          BY <4>2 DEF Tags
        <5>. QED  BY <1>3, <3>2, <4>3, <4>5, <5>1
      <4>. QED  BY <2>1, <4>4, <4>5 DEF Owed
    <3>6. Ordered(s)'
      <4>1. InOrder(burst[s], from[s], sent[s], Present(hand[s]), queue[s], <<>>)
        BY <2>2 DEF OrderInv, Ordered
      <4>2. /\ Elems(sent[s]) \subseteq Owed(s) /\ Elems(Present(hand[s])) \subseteq Owed(s)
            /\ Elems(queue[s]) \subseteq Owed(s)
        BY <3>2 DEF Have
      <4>3. /\ Elems(<<Published>>) = {Published}
            /\ Rising(burst[s], from[s], <<Published>>)
        BY ElemsOne, RisingShort
      <4>4. \A A : A \subseteq Owed(s) => Before(burst[s], from[s], A, {Published})
        BY <3>5 DEF Before
      <4>5. InOrder(burst[s], from[s], sent[s], Present(hand[s]), queue[s], <<Published>>)
        BY <4>1, <4>2, <4>3, <4>4 DEF InOrder
      <4>. QED  BY <1>1, <2>2, <3>1, <4>5 DEF Ordered
    <3>. QED  BY <1>5, <2>1, <2>3, <3>1, <3>2, <3>3, <3>4, <3>6, <1>3
  <2>4. CASE s \notin inited
    <3>1. /\ out' = InitTags(cache) /\ burst'[s] = InitTags(cache) /\ from'[s] = Published
      BY <1>2, <1>3, <1>5, <2>4
    <3>2. Have(s) = {}
      BY <2>4 DEF KeptInv
    <3>3. Have(s)' = Elems(InitTags(cache))
      BY <1>1, <2>2, <3>1, <3>2, ElemsEmpty DEF Have
    <3>4. Owed(s)' = Elems(InitTags(cache))
      <4>1. {t \in Tags : Published < t /\ t <= Published} = {}
        BY <1>3 DEF Tags
      <4>. QED  BY <1>3, <2>1, <3>1, <4>1 DEF Owed
    <3>5. Ordered(s)'
      <4>1. Rising(InitTags(cache), Published, InitTags(cache))
        <5>1. BurstFrom(kinds, InitTags(cache), Published)
          BY InitTagsAreBurst DEF HeadersInv
        <5>2. /\ InitTags(cache) \in Seq(1..Published)
              /\ \A i, j \in DOMAIN InitTags(cache) :
                    InitTags(cache)[i] = InitTags(cache)[j] => i = j
          BY <1>3, <5>1, BurstDistinct
        <5>. QED  BY <1>3, <5>2, PlaceOfBurst
      <4>2. /\ Elems(sent[s]) = {} /\ Elems(Present(hand[s])) = {} /\ Elems(queue[s]) = {}
        BY <3>2 DEF Have
      <4>3. \A b, f, q : Elems(q) = {} => Rising(b, f, q)
        BY DEF Elems, Rising
      <4>4. \A b, f, A : Before(b, f, A, {}) /\ Before(b, f, {}, A)
        BY DEF Before
      <4>5. InOrder(InitTags(cache), Published, sent[s], Present(hand[s]), queue[s],
                    InitTags(cache))
        BY <4>1, <4>2, <4>3, <4>4 DEF InOrder
      <4>. QED  BY <1>1, <2>2, <3>1, <4>5 DEF Ordered
    <3>. QED  BY <1>3, <1>5, <2>1, <2>4, <3>1, <3>3, <3>4, <3>5
  <2>. QED  BY <2>3, <2>4
<1>. QED  BY <1>4, <1>5

MediaInv == TypeInv /\ HeadersInv /\ OrderInv /\ KeptInv

LEMMA MediaInit == Init => MediaInv
<1>. SUFFICES ASSUME Init PROVE MediaInv
  OBVIOUS
<1>1. TypeInv /\ HeadersInv
  BY TypeInit, HeadersInit
<1>2. ASSUME NEW s \in Subs PROVE Ordered(s) /\ Have(s) = {}
  <2>1. /\ sent[s] = <<>> /\ Present(hand[s]) = <<>> /\ queue[s] = <<>> /\ Pending(s) = <<>>
        /\ dropped[s] = {} /\ unsent[s] = {}
    BY DEF Init, Present, Pending
  <2>2. \A b, f : Before(b, f, {}, {}) /\ Rising(b, f, <<>>)
    BY RisingShort DEF Before
  <2>. QED  BY <2>1, <2>2, ElemsEmpty DEF Ordered, InOrder, Have
<1>. QED  BY <1>1, <1>2 DEF MediaInv, OrderInv, KeptInv, Init

\* Where nobody is met and nothing is published, the accounts stay.
LEMMA AccountsKept ==
    ASSUME KeptInv, UNCHANGED <<kinds, walking, due, seen, inited, burst, from>>,
           subs' \cap inited \subseteq subs, \A s \in Subs : Moves(s)
    PROVE  KeptInv'
<1>1. \A s \in Subs : Passed(s)' = Passed(s) /\ Owed(s)' = Owed(s) /\ Have(s)' = Have(s)
  BY DEF Passed, Owed, Tags, Published, Moves
<1>. QED  BY <1>1 DEF KeptInv

LEMMA MediaStep == MediaInv /\ [Next]_vars => MediaInv'
<1>. SUFFICES ASSUME MediaInv, [Next]_vars PROVE MediaInv'
  OBVIOUS
<1>0. TypeInv /\ HeadersInv /\ OrderInv /\ KeptInv
  BY DEF MediaInv
<1>1. TypeInv' /\ HeadersInv'
  BY <1>0, TypeStep, HeadersStep
<1>2. inited \subseteq made /\ Published \in Nat /\ \A s \in Subs : from[s] \in Nat
  BY <1>0 DEF TypeInv, TypeOK, Tag0, Published
<1>3. ASSUME NEW kind \in Kinds, Publish(kind) PROVE OrderInv' /\ KeptInv'
  <2>1. /\ kinds' = Append(kinds, kind) /\ ~walking /\ walking' /\ due' = subs /\ seen' = {}
        /\ UNCHANGED <<sent, hand, queue, cur, out, burst, from, dropped, unsent, inited, subs>>
    BY <1>3 DEF Publish, feeds, lines, exits
  <2>2. Published' = Published + 1
    BY <1>0, <2>1 DEF TypeInv, TypeOK, Published
  <2>3. \A s \in Subs : Moves(s)
    BY <2>1, OthersMove
  <2>4. OrderInv'
    BY <1>0, <2>3 DEF OrderInv, Moves
  <2>5. ASSUME NEW s \in Subs PROVE Passed(s)' = Passed(s) /\ Owed(s)' = Owed(s)
    <3>1. Passed(s) = Published /\ Passed(s)' = Published
      BY <1>2, <2>1, <2>2 DEF Passed
    <3>2. {t \in Tags : from[s] < t /\ t <= Published}
            = {t \in Tags' : from[s] < t /\ t <= Published}
      BY <1>2, <2>2 DEF Tags
    <3>. QED  BY <2>1, <3>1, <3>2 DEF Owed
  <2>6. KeptInv'
    BY <1>0, <2>1, <2>3, <2>5 DEF KeptInv, Moves
  <2>. QED  BY <2>4, <2>6
<1>4. ASSUME NEW u \in Subs, Visit(u) PROVE OrderInv' /\ KeptInv'
  <2>1. /\ inited' = inited \cup {u} /\ seen' = seen \cup {u}
        /\ UNCHANGED <<subs, walking, due>>
    BY <1>4 DEF Visit
  <2>2. OrderInv'
    BY <1>0, <1>4, VisitAdds DEF OrderInv
  <2>3. ASSUME NEW s \in Subs
        PROVE  /\ (s \notin inited => Have(s) = {})'
               /\ (s \in inited => from[s] <= Passed(s) /\ Have(s) \subseteq Owed(s))'
               /\ (s \in inited \cap subs => Owed(s) \subseteq Have(s))'
    <3>1. CASE s # u
      <4>1. /\ Have(s)' = Have(s) /\ Owed(s)' = Owed(s) /\ Passed(s)' = Passed(s)
        BY <1>0, <1>4, <3>1, VisitAdds
      <4>2. from'[s] = from[s] /\ (s \in inited' <=> s \in inited)
        BY <1>0, <1>4, <2>1, <3>1 DEF Visit, TypeInv, TypeOK
      <4>. QED  BY <1>0, <2>1, <4>1, <4>2 DEF KeptInv
    <3>2. CASE s = u /\ s \in inited
      <4>1. /\ from'[s] <= Passed(s)'
            /\ Have(s)' = Have(s) \cup {Published}
            /\ Owed(s)' = Owed(s) \cup {Published}
        BY <1>0, <1>4, <3>2, VisitAdds
      <4>. QED  BY <1>0, <2>1, <3>2, <4>1 DEF KeptInv
    <3>3. CASE s = u /\ s \notin inited
      <4>1. from'[s] <= Passed(s)' /\ Have(s)' = Owed(s)'
        BY <1>0, <1>4, <3>3, VisitAdds
      <4>. QED  BY <2>1, <3>3, <4>1
    <3>. QED  BY <3>1, <3>2, <3>3
  <2>4. (walking => (inited \cap subs) \ seen \subseteq due)'
    BY <1>0, <2>1 DEF KeptInv
  <2>5. KeptInv'
    BY <2>3, <2>4 DEF KeptInv
  <2>. QED  BY <2>2, <2>5
<1>5. ASSUME PublishReturns PROVE OrderInv' /\ KeptInv'
  <2>1. /\ walking /\ due \cap subs \subseteq seen /\ ~walking'
        /\ UNCHANGED <<kinds, sent, hand, queue, cur, out, burst, from, dropped, unsent,
                       inited, subs>>
    BY <1>5 DEF PublishReturns, feeds, lines, exits
  <2>2. \A s \in Subs : Moves(s)
    BY <2>1, OthersMove
  <2>3. OrderInv'
    BY <1>0, <2>2 DEF OrderInv, Moves
  <2>4. Published' = Published /\ Tags' = Tags
    BY <2>1 DEF Published, Tags
  <2>5. \A s \in Subs : /\ Passed(s)' = Published /\ Passed(s) <= Published
                        /\ s \in seen => Passed(s) = Published
    BY <1>2, <2>1, <2>4 DEF Passed
  <2>6. ASSUME NEW s \in Subs
        PROVE  /\ s \in inited => from[s] <= Published
               /\ Owed(s) \subseteq Owed(s)'
               /\ s \in seen => Owed(s)' = Owed(s)
    <3>1. Passed(s) \in Int /\ Passed(s) <= Published
      BY <1>2 DEF Passed
    <3>2. s \in inited => from[s] <= Published
      BY <1>0, <1>2, <3>1 DEF KeptInv
    <3>3. Owed(s) \subseteq Owed(s)'
      BY <1>2, <2>1, <2>4, <2>5, <3>1 DEF Owed, Tags
    <3>4. s \in seen => Owed(s)' = Owed(s)
      BY <2>1, <2>4, <2>5 DEF Owed
    <3>. QED  BY <3>2, <3>3, <3>4
  <2>7. inited \cap subs \subseteq seen
    BY <1>0, <2>1 DEF KeptInv
  <2>8. \A s \in Subs : Have(s)' = Have(s)
    BY <2>2 DEF Moves
  <2>9. KeptInv'
    BY <1>0, <2>1, <2>5, <2>6, <2>7, <2>8 DEF KeptInv
  <2>. QED  BY <2>3, <2>9
\* The other steps only move tags, or whoever is in the map.
<1>6. ASSUME UNCHANGED <<kinds, walking, due, seen, inited, burst, from>>,
             subs' \cap inited \subseteq subs, \A s \in Subs : Moves(s)
      PROVE  OrderInv' /\ KeptInv'
  <2>1. OrderInv'
    BY <1>0, <1>6 DEF OrderInv, Moves
  <2>. QED  BY <1>0, <1>6, <2>1, AccountsKept
<1>7. ASSUME Submit PROVE OrderInv' /\ KeptInv'
  BY <1>0, <1>6, <1>7, SubmitMoves DEF Submit, feeds
<1>8. ASSUME NEW s \in Subs, Pull(s) PROVE OrderInv' /\ KeptInv'
  BY <1>0, <1>6, <1>8, PullMoves DEF Pull, walk, feeds
<1>9. ASSUME NEW s \in Subs, OnEvent(s) PROVE OrderInv' /\ KeptInv'
  BY <1>0, <1>6, <1>9, OnEventMoves DEF OnEvent, walk, feeds
<1>10. ASSUME UNCHANGED <<sent, hand, queue, cur, out, burst, from, dropped, unsent>>,
              UNCHANGED <<kinds, walking, due, seen, inited>>,
              subs' \cap inited \subseteq subs
       PROVE  OrderInv' /\ KeptInv'
  <2>1. \A s \in Subs : Moves(s)
    BY <1>10, OthersMove
  <2>. QED  BY <1>6, <1>10, <2>1
<1>11. ASSUME NEW s \in Subs, Sub(s) PROVE OrderInv' /\ KeptInv'
  <2>1. subs' \cap inited \subseteq subs
    BY <1>2, <1>11 DEF Sub
  <2>. QED  BY <1>10, <1>11, <2>1 DEF Sub, walk, feeds, lines
<1>12. ASSUME NEW s \in Subs,
              \/ SenderReturns(s) \/ Disconnect(s) \/ OnClose(s)
              \/ \E c \in Closers : Cancel(s, c) \/ CloseConn(s, c) \/ RemoveSub(s, c)
       PROVE  OrderInv' /\ KeptInv'
  <2>1. subs' \cap inited \subseteq subs
    BY <1>12 DEF SenderReturns, Disconnect, OnClose, Cancel, CloseConn, RemoveSub
  <2>2. UNCHANGED <<kinds, walk, feeds, lines, hand, sent, unsent>>
    BY <1>12 DEF SenderReturns, Disconnect, OnClose, Cancel, CloseConn, RemoveSub, exits
  <2>. QED  BY <1>10, <2>1, <2>2 DEF walk, feeds, lines
<1>13. ASSUME Deregister \/ ConcurrentMapAccess \/ UNCHANGED vars PROVE OrderInv' /\ KeptInv'
  <2>1. subs' \cap inited \subseteq subs
    BY <1>13 DEF Deregister, ConcurrentMapAccess, vars
  <2>2. UNCHANGED <<kinds, walk, feeds, lines, exits>>
    BY <1>13 DEF Deregister, ConcurrentMapAccess, vars
  <2>. QED  BY <1>10, <2>1, <2>2 DEF walk, feeds, lines, exits
<1>14. OrderInv' /\ KeptInv'
  BY <1>3, <1>4, <1>5, <1>7, <1>8, <1>9, <1>11, <1>12, <1>13
     DEF Next, PublisherStep, SenderStep, CloserStep, Quiet
<1>. QED  BY <1>1, <1>14 DEF MediaInv

THEOREM MediaInvariant == Spec => []MediaInv
  BY MediaInit, MediaStep, PTL DEF Spec

\* Every value of the media path is of its type: no queue is longer than
\* sendQueueLength, and nothing refers to a tag that was not published.
THEOREM MediaTypeCorrect == Spec => []TypeOK
<1>1. MediaInv => TypeOK
  BY DEF MediaInv, TypeInv
<1>. QED  BY <1>1, MediaInvariant, PTL

\* What a subscriber is sent is in order, the cached tags first, and nothing is
\* sent twice, whatever the order in which Publish meets the subscribers, and
\* whoever joins, leaves or is closed meanwhile.
THEOREM EverythingInOrder == Spec => []SentInOrder
<1>1. MediaInv => SentInOrder
  <2>. SUFFICES ASSUME MediaInv, NEW s \in Subs,
                       NEW i \in DOMAIN Line(s), NEW j \in DOMAIN Line(s), i < j
                PROVE  Position(s, Line(s)[i]) < Position(s, Line(s)[j])
    BY DEF SentInOrder
  <2>1. Rising(burst[s], from[s], Line(s))
    BY OrderOfLine DEF MediaInv, OrderInv
  <2>2. \A t : Position(s, t) = Place(burst[s], from[s], t)
    BY DEF Position, Place
  <2>. QED  BY <2>1, <2>2 DEF Rising
<1>. QED  BY <1>1, MediaInvariant, PTL

\* A subscriber in the map was handed what was cached when it joined and every
\* tag since, but what its full queue or a failed write lost; Publish walks the
\* map without its mutex all the same.
THEOREM Accounted == Spec => []NothingForgotten
<1>1. MediaInv => NothingForgotten
  <2>. SUFFICES ASSUME MediaInv, NEW s \in inited \cap subs
                PROVE  Elems(Line(s)) \cup dropped[s] \cup unsent[s] = Owed(s)
    BY DEF NothingForgotten, Owed
  <2>1. s \in Subs /\ TypeInv /\ KeptInv
    BY DEF MediaInv, TypeInv, TypeOK
  <2>2. Have(s) = Owed(s)
    BY <2>1 DEF KeptInv
  <2>3. Elems(Line(s)) \cup dropped[s] \cup unsent[s] = Have(s)
    BY <2>1, OrderOfLine DEF Have
  <2>. QED  BY <2>2, <2>3
<1>. QED  BY <1>1, MediaInvariant, PTL

\* The key frame that a new subscriber is sent stands between the headers which
\* were in force when it was published.
THEOREM HeadersInForce == Spec => []BurstHasItsHeaders
<1>1. MediaInv => BurstHasItsHeaders
  BY HeadersOfBurst DEF MediaInv
<1>. QED  BY <1>1, MediaInvariant, PTL
=============================================================================
