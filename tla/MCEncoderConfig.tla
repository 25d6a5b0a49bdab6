--------------------------- MODULE MCEncoderConfig ---------------------------
\* A small instance of EncoderConfig for TLC: integers are six bits wide where
\* they have 32, and seven where they have 64.
EXTENDS EncoderConfig

\* None, two that fit a message, one that does not, one that is not even an int.
Qualities(k) ==
    {NoQuality, [type |-> "constant_bitrate", value |-> 1],
     [type |-> "constant_bitrate", value |-> Word + 1],
     [type |-> "constant_bitrate", value |-> Long - 1]}
    \cup IF k = "video" THEN {[type |-> "constant_quality", value |-> 3]} ELSE {}

\* No codec, the first and the last of them, and one too many.
Tracks(k) ==
    [InputTrackIDs : {<<>>, <<0>>, <<2, -1>>}, Codec : {0, 1, 4, 5}, Quality : Qualities(k)]

\* No track or one of each kind, or twice the same.
Choices(k) == {<<>>} \cup {<<t>> : t \in Tracks(k)} \cup {<<t, t>> : t \in Tracks(k)}

SomeConfigs == {c \in [Kinds -> Choices("audio") \cup Choices("video")] :
                  \A k \in Kinds : c[k] \in Choices(k)}
=============================================================================
