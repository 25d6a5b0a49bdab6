-------------------------- MODULE RecodingLifecycle --------------------------
(***************************************************************************)
(* What the recoder's server promises of its recodings to whoever watches  *)
(* them, with no mutex and no handler in sight: a context is created, a    *)
(* recoding begins on it at most once, while it is open and nobody was     *)
(* told of its end, and everybody is told once it is over.  A server that  *)
(* stopped has cancelled every recoding it still answered for, and begins  *)
(* no other.  RecoderServer implements it.                                 *)
(***************************************************************************)
EXTENDS Naturals

VARIABLES
    server,     \* "serving", "stopped" (no new call), "gone"
    created,    \* how many contexts were created: their IDs are 1..created
    open,       \* the contexts a call can name
    begun,      \* those on which a recoding began, at any time,
    running,    \*   and has not ended
    cancelled,  \* those told to end
    announced   \* those whose watchers were told of the end

lifecycle == <<created, open, begun, running, cancelled, announced>>
lcVars == <<server, lifecycle>>

LcInit == /\ server = "serving"
          /\ created = 0
          /\ open = {} /\ begun = {} /\ running = {}
          /\ cancelled = {} /\ announced = {}

Create ==
    /\ server # "gone"
    /\ created' = created + 1
    /\ open' = open \cup {created + 1}
    /\ UNCHANGED <<server, begun, running, cancelled, announced>>

Begin(c) ==
    /\ server = "serving"
    /\ c \in open \ (begun \cup announced \cup cancelled)
    /\ begun' = begun \cup {c}
    /\ running' = running \cup {c}
    /\ UNCHANGED <<server, created, open, cancelled, announced>>

\* The start of a recoding is refused, or the recoding meets an error.
Cancel(c) ==
    /\ server # "gone"
    /\ c \in open \cup running
    /\ cancelled' = cancelled \cup {c}
    /\ UNCHANGED <<server, created, open, begun, running, announced>>

End(c) ==
    /\ server # "gone"
    /\ c \in running \cap cancelled
    /\ running' = running \ {c}
    /\ announced' = announced \cup {c}
    /\ UNCHANGED <<server, created, open, begun, cancelled>>

\* A context can be closed under its recoding, which then goes on unwatched.
Close(c) ==
    /\ server # "gone"
    /\ c \in open
    /\ open' = open \ {c}
    /\ announced' = announced \cup {c}
    /\ UNCHANGED <<server, created, begun, running, cancelled>>

CancelAll ==
    /\ server # "gone"
    /\ cancelled' = cancelled \cup open
    /\ open' = {}
    /\ UNCHANGED <<server, created, begun, running, announced>>

StopServer ==
    /\ server # "gone"
    /\ open \cap begun = {}
    /\ running \subseteq cancelled \cup announced
    /\ server' = "stopped"
    /\ UNCHANGED lifecycle

\* The process ends, or crashes.
Leave == server' = "gone" /\ UNCHANGED lifecycle

LcNext ==
    \/ Create \/ CancelAll \/ StopServer \/ Leave
    \/ \E c \in 1..created : Begin(c) \/ Cancel(c) \/ End(c) \/ Close(c)

LcSpec == LcInit /\ [][LcNext]_lcVars
=============================================================================
