------------------------------ MODULE LossyFeed ------------------------------
(***************************************************************************)
(* What the media path promises each subscriber, with no cache, no queue   *)
(* and no sender in sight: a line of tags that comes in at one end and out *)
(* at the other.  A tag may be lost from anywhere in the line, but it does *)
(* not overtake another, it is not delivered twice, and once it was lost   *)
(* it is not delivered at all.  Nobody is given tags who is not in the     *)
(* audience, and nothing is delivered to a connection that is closed.      *)
(* PubSub implements it.                                                   *)
(***************************************************************************)
EXTENDS Naturals, Sequences

CONSTANT Subs    \* the subscribers there may be

VARIABLES
    published,   \* how many tags there are: they are numbered from 1
    audience,    \* "never", "in" or "out" of it, for each subscriber
    primed,      \* who was given what came before it,
    line,        \* ... the tags that are on their way to each,
    delivered,   \* ... those that arrived,
    lost,        \* ... and those that never will
    gone         \* the subscribers whose connections are closed

people == <<audience, primed, gone>>
tags   == <<line, delivered, lost>>
feedVars == <<published, people, tags>>

Of(q) == {q[i] : i \in DOMAIN q}

\* What s was given, whatever became of it.
Given(s) == Of(line[s]) \cup Of(delivered[s]) \cup lost[s]

\* A sequence without the element at i.
Without(q, i) == [j \in 1..(Len(q) - 1) |-> IF j < i THEN q[j] ELSE q[j + 1]]

FeedInit ==
    /\ published = 0
    /\ audience = [s \in Subs |-> "never"]
    /\ primed = {} /\ gone = {}
    /\ line = [s \in Subs |-> <<>>] /\ delivered = [s \in Subs |-> <<>>]
    /\ lost = [s \in Subs |-> {}]

PublishTag == published' = published + 1 /\ UNCHANGED <<people, tags>>

Join(s) ==
    /\ audience[s] = "never"
    /\ audience' = [audience EXCEPT ![s] = "in"]
    /\ UNCHANGED <<published, primed, gone, tags>>

\* For good.
PartWith(S) ==
    /\ S # {} /\ \A s \in S : audience[s] = "in"
    /\ audience' = [s \in Subs |-> IF s \in S THEN "out" ELSE audience[s]]
    /\ UNCHANGED <<published, primed, gone, tags>>

Hangup(s) ==
    /\ s \notin gone /\ gone' = gone \cup {s}
    /\ UNCHANGED <<published, audience, primed, tags>>

OnlyLineOf(s) == line' = [line EXCEPT ![s] = line'[s]]

\* The first tags that s is given, none of them twice.
Prime(s) ==
    /\ audience[s] = "in" /\ s \notin primed
    /\ primed' = primed \cup {s}
    /\ Given(s) = {}
    /\ OnlyLineOf(s)
    /\ line'[s] \in Seq(1..published)
    /\ \A i, j \in DOMAIN line'[s] : line'[s][i] = line'[s][j] => i = j
    /\ UNCHANGED <<published, audience, gone, delivered, lost>>

\* From then on it is given the latest tag.
Offer(s) ==
    /\ audience[s] = "in" /\ s \in primed
    /\ published \notin Given(s)
    /\ line' = [line EXCEPT ![s] = Append(@, published)]
    /\ UNCHANGED <<published, people, delivered, lost>>

Deliver(s) ==
    /\ s \notin gone /\ line[s] # <<>>
    /\ delivered' = [delivered EXCEPT ![s] = Append(@, Head(line[s]))]
    /\ line' = [line EXCEPT ![s] = Tail(@)]
    /\ UNCHANGED <<published, people, lost>>

Lose(s) ==
    /\ \E i \in DOMAIN line[s] :
          /\ lost' = [lost EXCEPT ![s] = @ \cup {line[s][i]}]
          /\ line' = [line EXCEPT ![s] = Without(@, i)]
    /\ UNCHANGED <<published, people, delivered>>

FeedNext ==
    \/ PublishTag
    \/ \E S \in SUBSET Subs : PartWith(S)
    \/ \E s \in Subs : \/ Join(s) \/ Hangup(s)
                       \/ Prime(s) \/ Offer(s) \/ Deliver(s) \/ Lose(s)

FeedSpec == FeedInit /\ [][FeedNext]_feedVars
=============================================================================
