---------------------------- MODULE EncoderConfig ----------------------------
(***************************************************************************)
(* The configuration of an encoder (config.go) on its way from a program,  *)
(* or from a YAML file, through gRPC (libav/grpc/goconv) to the server,    *)
(* which opens one encoder per kind of media and numbers the streams it is *)
(* fed (frame_streams_merger.go).                                          *)
(*                                                                         *)
(* A codec is its number: 0 is the undefined one, 1 to 4 are the others,   *)
(* and beyond is what no constant names.  What a conversion drops or       *)
(* refuses it drops or refuses here; CustomOptions, which only a program   *)
(* could set, are left out.                                                *)
(***************************************************************************)
EXTENDS Integers, Sequences, FiniteSets

CONSTANTS
    Configs,    \* what programs ask for
    Streams,    \* the streams of an input, by their index
    Word,       \* 2^32: a uint32 is below it
    Long,       \* 2^64
    Exponent    \* 10^6: from there on YAML writes a float64 with an exponent

ASSUME WordAssumption == Word \in Nat \ {0}
ASSUME LongAssumption == Long \in Nat /\ Word < Long /\ Long % 2 = 0
ASSUME ExponentAssumption == Exponent \in Nat
ASSUME StreamsAssumption == Streams \subseteq Nat

Kinds == {"audio", "video"}
Codecs == 1..4     \* "copy" is the first of each kind
NoQuality == [type |-> "none", value |-> 0]
QualityTypes == {"none", "constant_bitrate", "constant_quality"}
Quality == {q \in [type : QualityTypes, value : Nat] : q.type = "none" => q = NoQuality}

\* The IDs are of Go's type int, the bitrates of its type uint.
Track == [InputTrackIDs : Seq((-(Long \div 2))..(Long \div 2 - 1)),
          Codec : Nat, Quality : Quality]
QualityTypesOf(k) ==
    IF k = "video" THEN QualityTypes \ {"none"} ELSE {"constant_bitrate"}

EncodersConfig ==
    {c \in [Kinds -> Seq(Track)] :
        \A k \in Kinds : \A i \in DOMAIN c[k] :
            c[k][i].Quality.type \in QualityTypesOf(k) \cup {"none"}}

ASSUME ConfigsAssumption == Configs \subseteq EncodersConfig

VARIABLES
    stage,    \* how far it got
    given,    \* what the program, or who wrote the file, had asked for
    config,   \* the configuration where it is now, as a Go value
    file,     \* ... as YAML
    wire      \* ... as a message, with its field Enable

vars == <<stage, given, config, file, wire>>

NoConfig == [k \in Kinds |-> <<>>]
NoMessage == [Enable |-> FALSE, tracks |-> NoConfig]

-----------------------------------------------------------------------------
(***************************************************************************)
(* YAML: a quality is a map that has its type, and its number under a key  *)
(* that depends on the type.  The decoder makes an int of a number without *)
(* a point, unless it is too large, and a float64 of the others, be they   *)
(* whole or not.                                                           *)
(***************************************************************************)

Form(n) == IF n < Long \div 2 THEN "int" ELSE "uint64"

Serializable(q) ==
    [type |-> q.type, form |-> Form(q.value), number |-> q.value,
     key |-> IF q.type = "constant_bitrate" THEN "bitrate" ELSE "quality"]

MarshalYAML(cfg) ==
    [k \in Kinds |->
        [i \in DOMAIN cfg[k] |->
            [cfg[k][i] EXCEPT !.Quality = Serializable(@)]]]

\* A slip: what has another form than the field is left at its zero value.
SetValues_Lenient(m) == {IF m.form = "int" THEN m.number ELSE 0}

\* The value of a quality, unless it is refused: a bitrate must be an int, a
\* constant quality a float64, of which it takes the whole part.
SetBitrate(m) == m.type = "constant_bitrate" /\ m.key = "bitrate" /\ m.form = "int"

SetQuality(m) ==
    m.type = "constant_quality" /\ m.key = "quality" /\ m.form \in {"whole", "fraction"}

SetValues(m) == {n \in {m.number} : SetBitrate(m) \/ SetQuality(m)}

\* The map is read, written and read once more, which makes an int of a whole
\* float64.
Remarshal(m) ==
    IF m.form = "whole" /\ m.number < Exponent THEN [m EXCEPT !.form = "int"] ELSE m

\* The quality that such a map stands for, if it stands for one: where there is
\* no type there is no quality either.
ConvertQuality(m) ==
    IF m.type = "none" THEN {NoQuality}
    ELSE {[type |-> m.type, value |-> n] : n \in SetValues(Remarshal(m))}

Loads(f) == \A k \in Kinds : \A i \in DOMAIN f[k] : ConvertQuality(f[k][i].Quality) # {}

UnmarshalYAML(f) ==
    [k \in Kinds |->
        [i \in DOMAIN f[k] |->
            [f[k][i] EXCEPT !.Quality = CHOOSE q \in ConvertQuality(@) : TRUE]]]

-----------------------------------------------------------------------------
(***************************************************************************)
(* gRPC: codecs are numbered from 0, bitrates and qualities are uint32,    *)
(* track IDs are uint64.  A codec without a number and a quality without a *)
(* value make the conversion panic, on either side.                        *)
(***************************************************************************)

\* A slip: a negative ID is sent as it is.
TrackToThrift_Signed(t) ==
    [InputTrackIDs |-> [i \in DOMAIN t.InputTrackIDs |-> t.InputTrackIDs[i]],
     Codec |-> t.Codec - 1,
     Quality |-> [type |-> t.Quality.type, value |-> t.Quality.value % Word]]

TrackToThrift(t) ==
    [InputTrackIDs |-> [i \in DOMAIN t.InputTrackIDs |-> t.InputTrackIDs[i] % Long],
     Codec |-> t.Codec - 1,
     Quality |-> [type |-> t.Quality.type, value |-> t.Quality.value % Word]]

\* A slip: nobody looks at the quality.
CanConvertToThrift_AnyQuality(cfg) ==
    \A k \in Kinds : \A i \in DOMAIN cfg[k] : cfg[k][i].Codec \in Codecs

CanConvertToThrift(cfg) ==
    \A k \in Kinds : \A i \in DOMAIN cfg[k] :
        cfg[k][i].Codec \in Codecs /\ cfg[k][i].Quality.type \in QualityTypesOf(k)

EncoderConfigToThrift(cfg) ==
    [Enable |-> TRUE,
     tracks |-> [k \in Kinds |-> [i \in DOMAIN cfg[k] |-> TrackToThrift(cfg[k][i])]]]

ToInt(n) == IF n < Long \div 2 THEN n ELSE n - Long

\* A slip: the codecs of the message are taken for those of the program.
TrackFromThrift_SameNumber(t) ==
    [InputTrackIDs |-> [i \in DOMAIN t.InputTrackIDs |-> ToInt(t.InputTrackIDs[i])],
     Codec |-> t.Codec,
     Quality |-> t.Quality]

TrackFromThrift(t) ==
    [InputTrackIDs |-> [i \in DOMAIN t.InputTrackIDs |-> ToInt(t.InputTrackIDs[i])],
     Codec |-> t.Codec + 1,
     Quality |-> t.Quality]

CanConvertFromThrift(m) ==
    \A k \in Kinds : \A i \in DOMAIN m.tracks[k] :
        /\ m.tracks[k][i].Codec \in 0..3
        /\ m.tracks[k][i].Quality.type \in QualityTypesOf(k)

EncoderConfigFromThrift(m) ==
    [k \in Kinds |-> [i \in DOMAIN m.tracks[k] |-> TrackFromThrift(m.tracks[k][i])]]

-----------------------------------------------------------------------------
(***************************************************************************)
(* The streams the server's encoders are fed.                              *)
(***************************************************************************)

Elements(s) == {s[i] : i \in DOMAIN s}

\* allowedVideoTrackIDMap and allowedAudioTrackIDMap: which input IDs the tracks
\* of a kind name, and the track, counted from 0, that a stream goes to: the
\* last one to name it, and the first one if none does.
Allowed(tracks) == UNION {Elements(tracks[i].InputTrackIDs) : i \in DOMAIN tracks}

TrackOf(tracks, id) ==
    LET naming == {i \in DOMAIN tracks : id \in Elements(tracks[i].InputTrackIDs)} IN
    IF naming = {} THEN 0
    ELSE (CHOOSE i \in naming : \A j \in naming : j <= i) - 1

\* A slip: what is neither sound nor picture keeps its number.
StreamIndexAssign_OtherKept(cfg, media, id) ==
    LET video == Cardinality(Allowed(cfg["video"])) IN
    CASE media = "video" -> {TrackOf(cfg["video"], id) : t \in Elements(cfg["video"])}
      [] media = "audio" -> {video + TrackOf(cfg["audio"], id) : t \in Elements(cfg["audio"])}
      [] OTHER -> {id}

\* The output stream of a packet of an input stream, if it is let through.
StreamIndexAssign(cfg, media, id) ==
    LET video == Cardinality(Allowed(cfg["video"]))
        audio == Cardinality(Allowed(cfg["audio"]))
    IN  CASE media = "video" ->
                {TrackOf(cfg["video"], id) : t \in Elements(cfg["video"])}
          [] media = "audio" ->
                {video + TrackOf(cfg["audio"], id) : t \in Elements(cfg["audio"])}
          [] OTHER -> {video + audio + id}

Supported(cfg) == \A k \in Kinds : Len(cfg[k]) <= 1

-----------------------------------------------------------------------------
(***************************************************************************)
(* The way of a configuration.                                             *)
(***************************************************************************)

Init ==
    /\ stage = "asked" /\ given \in Configs
    /\ config = given /\ file = NoConfig /\ wire = NoMessage

\* A program that has it writes it to a file,
Save ==
    /\ stage = "asked"
    /\ stage' = "saved" /\ file' = MarshalYAML(config) /\ config' = NoConfig
    /\ UNCHANGED <<given, wire>>

\* ... where somebody writes the numbers with a point, and more after it or not,
Edit ==
    /\ stage = "saved"
    /\ \E form \in {"whole", "fraction"} :
          file' = [k \in Kinds |->
                     [i \in DOMAIN file[k] |-> [file[k][i] EXCEPT !.Quality.form = form]]]
    /\ file' # file
    /\ UNCHANGED <<stage, given, config, wire>>

\* ... and another program reads it.
Load ==
    /\ stage = "saved"
    /\ IF Loads(file) THEN stage' = "loaded" /\ config' = UnmarshalYAML(file)
       ELSE stage' = "refused" /\ UNCHANGED config
    /\ file' = NoConfig
    /\ UNCHANGED <<given, wire>>

\* UnmarshalJSON calls itself until the stack is used up.
LoadJSON ==
    /\ stage = "saved" /\ stage' = "overflow"
    /\ UNCHANGED <<given, config, file, wire>>

\* Client.StartRecoding; without a configuration nothing is recoded.
StartRecoding ==
    /\ stage \in {"asked", "loaded"}
    /\ IF CanConvertToThrift(config)
       THEN stage' = "sent" /\ wire' = EncoderConfigToThrift(config)
       ELSE stage' = "panicked" /\ UNCHANGED wire
    /\ config' = NoConfig
    /\ UNCHANGED <<given, file>>

StartCopying ==
    /\ stage \in {"asked", "loaded"}
    /\ stage' = "sent" /\ wire' = NoMessage /\ config' = NoConfig
    /\ UNCHANGED <<given, file>>

\* GRPCServer.StartRecoding.
Serve ==
    /\ stage = "sent"
    /\ IF CanConvertFromThrift(wire)
       THEN LET cfg == EncoderConfigFromThrift(wire) IN
            /\ config' = cfg
            /\ stage' = IF ~wire.Enable THEN "copying"
                        ELSE IF Supported(cfg) THEN "encoding" ELSE "refused"
       ELSE stage' = "crashed" /\ UNCHANGED config
    /\ wire' = NoMessage
    /\ UNCHANGED <<given, file>>

Next == Save \/ Edit \/ Load \/ LoadJSON \/ StartRecoding \/ StartCopying \/ Serve

Spec == Init /\ [][Next]_vars

-----------------------------------------------------------------------------
(***************************************************************************)
(* Properties.                                                             *)
(***************************************************************************)

Stages == {"asked", "saved", "loaded", "sent", "encoding", "copying", "refused",
           "panicked", "overflow", "crashed"}

TypeOK ==
    /\ stage \in Stages
    /\ given \in Configs
    /\ config \in EncodersConfig
    /\ \A k \in Kinds : \A i \in DOMAIN file[k] :
          file[k][i].Quality.form \in {"int", "uint64", "whole", "fraction"}
    /\ wire.Enable \in BOOLEAN
    /\ \A k \in Kinds : \A i \in DOMAIN wire.tracks[k] :
          /\ wire.tracks[k][i].Codec \in Nat
          /\ wire.tracks[k][i].Quality.value \in 0..(Word - 1)
          /\ \A j \in DOMAIN wire.tracks[k][i].InputTrackIDs :
                wire.tracks[k][i].InputTrackIDs[j] \in 0..(Long - 1)

\* What is read from a file is what was written to it, or nothing is: no number
\* is lost for its form or its size.  (A constant quality is only ever read
\* back where somebody gave it a fraction, which it loses.)
SurvivesTheFile == stage = "loaded" => config = given

\* Bitrates and qualities that fit the message.
Fits(cfg) == \A k \in Kinds : \A i \in DOMAIN cfg[k] : cfg[k][i].Quality.value < Word

\* The encoders get what was asked for, tracks, codecs, qualities and IDs, be
\* it written to a file and read again before it was sent: all but a bitrate
\* that is too large for the message, which is cut without a word.
SurvivesTheWire == stage = "encoding" /\ Fits(given) => config = given

\* No configuration that a client can send makes the server panic: what it would
\* not convert, the client does not convert either.
ServerSurvives == stage # "crashed"

Medias == Kinds \cup {"other"}

\* Whatever streams the input has, no output stream is fed with packets of two
\* kinds, provided that each track names an input.
MediaKeptApart ==
    (stage = "encoding" /\ \A k \in Kinds : \A i \in DOMAIN config[k] :
                              config[k][i].InputTrackIDs # <<>>)
        => \A m, n \in Medias : m # n =>
              \A i, j \in Streams :
                  StreamIndexAssign(config, m, i) \cap StreamIndexAssign(config, n, j) = {}
=============================================================================
