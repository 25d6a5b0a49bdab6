------------------------- MODULE EncoderConfigProofs -------------------------
(***************************************************************************)
(* The way of a configuration, proved for configurations, streams and      *)
(* widths of any size: a YAML file gives back what it was given or         *)
(* nothing, the encoders get what was asked for, no configuration a client *)
(* sends makes the server panic, and sound and picture keep to streams of  *)
(* their own.                                                              *)
(*                                                                         *)
(* The invariant says what each stage holds of what was asked for.         *)
(***************************************************************************)
EXTENDS EncoderConfig, FiniteSetTheorems, TLAPS

\* What a file says of a quality, its form aside.
Tells(m, q) ==
    /\ m = [type |-> m.type, form |-> m.form, number |-> m.number, key |-> m.key]
    /\ m.form \in {"int", "uint64", "whole", "fraction"}
    /\ m.type = q.type /\ m.number = q.value

Written(f, cfg) ==
    /\ DOMAIN f = Kinds
    /\ \A k \in Kinds :
          /\ DOMAIN f[k] = DOMAIN cfg[k]
          /\ \A i \in DOMAIN cfg[k] :
                /\ f[k][i] = [InputTrackIDs |-> cfg[k][i].InputTrackIDs,
                              Codec |-> cfg[k][i].Codec, Quality |-> f[k][i].Quality]
                /\ Tells(f[k][i].Quality, cfg[k][i].Quality)

Sent == EncoderConfigFromThrift(EncoderConfigToThrift(given))

WayInv ==
    /\ stage \in Stages
    /\ given \in Configs
    /\ config \in EncodersConfig
    /\ stage \in {"asked", "loaded"} => config = given
    /\ IF stage \in {"saved", "overflow"} THEN Written(file, given) ELSE file = NoConfig
    /\ \/ wire = NoMessage
       \/ wire = EncoderConfigToThrift(given) /\ CanConvertToThrift(given)
    /\ stage = "encoding" => /\ CanConvertToThrift(given)
                             /\ config = Sent /\ Supported(config)

USE DEF Kinds

-----------------------------------------------------------------------------
(***************************************************************************)
(* Numbers.                                                                *)
(***************************************************************************)

\* A number below the width is not cut.
LEMMA NotCut == ASSUME NEW n \in Nat, NEW w \in Nat \ {0}, n < w PROVE n % w = n
  BY SMT

\* A cut number is below the width.
LEMMA Cut == ASSUME NEW n \in Int, NEW w \in Nat \ {0} PROVE n % w \in 0..(w - 1)
  BY SMT

IDs == (-(Long \div 2))..(Long \div 2 - 1)

\* Half of the unsigned numbers stand for the negative ones.
LEMMA Signed ==
    /\ Long \in Nat \ {0} /\ Word \in Nat \ {0}
    /\ \A n \in IDs : n % Long \in 0..(Long - 1) /\ ToInt(n % Long) = n
<1>1. Long \in Nat \ {0} /\ Long = 2 * (Long \div 2) /\ Long \div 2 \in Nat \ {0}
  BY WordAssumption, LongAssumption, SMT
<1>. DEFINE h == Long \div 2
<1>2. \A n \in IDs : n % Long \in 0..(Long - 1) /\ ToInt(n % Long) = n
  <2>. SUFFICES ASSUME NEW n \in IDs
                PROVE  n % Long \in 0..(Long - 1) /\ ToInt(n % Long) = n
    OBVIOUS
  <2>1. n \in Int /\ -h <= n /\ n < h
    BY <1>1 DEF IDs
  <2>2. n % Long \in 0..(Long - 1)
    BY <1>1, <2>1, Cut
  <2>3. CASE n >= 0
    BY <1>1, <2>1, <2>2, <2>3, NotCut DEF ToInt
  <2>4. CASE n < 0
    <3>1. n % Long = n + Long
      BY ONLY <1>1, <2>1, <2>4, SMT
    <3>. QED  BY <1>1, <2>1, <2>4, <3>1 DEF ToInt
  <2>. QED  BY <2>1, <2>2, <2>3, <2>4
<1>. QED  BY <1>1, <1>2, WordAssumption

-----------------------------------------------------------------------------
(***************************************************************************)
(* Files.                                                                  *)
(***************************************************************************)

LEMMA TrackType ==
    ASSUME NEW cfg \in EncodersConfig, NEW k \in Kinds, NEW i \in DOMAIN cfg[k]
    PROVE  /\ cfg[k][i] \in Track
           /\ cfg[k][i].Quality \in Quality
           /\ cfg[k][i].Codec \in Nat
           /\ cfg[k][i].InputTrackIDs \in Seq(IDs)
<1>1. cfg[k] \in Seq(Track)
  BY DEF EncodersConfig
<1>2. cfg[k][i] \in Track
  BY <1>1
<1>. QED  BY <1>2 DEF Track, IDs

LEMMA EmptyIsConfig == NoConfig \in EncodersConfig
  BY DEF NoConfig, EncodersConfig

\* What is saved is written.
LEMMA Saved == ASSUME NEW cfg \in EncodersConfig PROVE Written(MarshalYAML(cfg), cfg)
<1>1. ASSUME NEW k \in Kinds, NEW i \in DOMAIN cfg[k]
      PROVE  LET t == MarshalYAML(cfg)[k][i] IN
             /\ t = [InputTrackIDs |-> cfg[k][i].InputTrackIDs,
                     Codec |-> cfg[k][i].Codec, Quality |-> t.Quality]
             /\ Tells(t.Quality, cfg[k][i].Quality)
  <2>1. cfg[k][i] \in Track
    BY <1>1, TrackType
  <2>. DEFINE m == Serializable(cfg[k][i].Quality)
  <2>2. Tells(m, cfg[k][i].Quality)
    BY DEF Tells, Serializable, Form
  <2>3. MarshalYAML(cfg)[k][i] = [InputTrackIDs |-> cfg[k][i].InputTrackIDs,
                                  Codec |-> cfg[k][i].Codec, Quality |-> m]
    BY <1>1, <2>1 DEF MarshalYAML, Track
  <2>. HIDE DEF m
  <2>. QED  BY <2>2, <2>3
<1>2. /\ DOMAIN MarshalYAML(cfg) = Kinds
      /\ \A k \in Kinds : DOMAIN MarshalYAML(cfg)[k] = DOMAIN cfg[k]
  BY DEF MarshalYAML
<1>. QED  BY <1>1, <1>2 DEF Written

\* A map stands for no other quality than the one it was made of.
LEMMA OneQuality ==
    ASSUME NEW q \in Quality, NEW m, Tells(m, q)
    PROVE  ConvertQuality(m) \subseteq {q}
<1>1. Remarshal(m).number = q.value
  BY DEF Tells, Remarshal
<1>2. q = [type |-> q.type, value |-> q.value]
  BY DEF Quality
<1>3. CASE m.type = "none"
  BY <1>3 DEF Tells, Quality, ConvertQuality
<1>4. CASE m.type # "none"
  BY <1>1, <1>2, <1>4 DEF ConvertQuality, SetValues, Tells
<1>. QED  BY <1>3, <1>4

\* A file that loads gives back what it was written from.
LEMMA Loaded ==
    ASSUME NEW cfg \in EncodersConfig, NEW f, Written(f, cfg), Loads(f)
    PROVE  UnmarshalYAML(f) = cfg
<1>. DEFINE g == UnmarshalYAML(f)
<1>1. ASSUME NEW k \in Kinds, NEW i \in DOMAIN cfg[k] PROVE g[k][i] = cfg[k][i]
  <2>1. cfg[k][i] \in Track /\ cfg[k][i].Quality \in Quality
    BY <1>1, TrackType
  <2>2. Tells(f[k][i].Quality, cfg[k][i].Quality) /\ i \in DOMAIN f[k]
    BY <1>1 DEF Written
  <2>3. ConvertQuality(f[k][i].Quality) \subseteq {cfg[k][i].Quality}
    BY <2>1, <2>2, OneQuality
  <2>4. ConvertQuality(f[k][i].Quality) # {}
    BY <1>1, <2>2 DEF Loads
  <2>5. (CHOOSE q \in ConvertQuality(f[k][i].Quality) : TRUE) = cfg[k][i].Quality
    BY <2>3, <2>4
  <2>6. f[k][i] = [InputTrackIDs |-> cfg[k][i].InputTrackIDs,
                   Codec |-> cfg[k][i].Codec, Quality |-> f[k][i].Quality]
    BY <1>1 DEF Written
  <2>7. g[k][i] = [f[k][i] EXCEPT !.Quality = CHOOSE q \in ConvertQuality(@) : TRUE]
    BY <1>1, <2>2 DEF UnmarshalYAML
  <2>. HIDE DEF g
  <2>8. g[k][i] = [f[k][i] EXCEPT !.Quality = cfg[k][i].Quality]
    BY <2>5, <2>7
  <2>9. g[k][i] = [InputTrackIDs |-> cfg[k][i].InputTrackIDs,
                   Codec |-> cfg[k][i].Codec, Quality |-> cfg[k][i].Quality]
    BY ONLY <2>6, <2>8
  <2>. QED  BY <2>1, <2>9 DEF Track
<1>2. ASSUME NEW k \in Kinds PROVE g[k] = cfg[k]
  <2>1. g[k] = [i \in DOMAIN cfg[k] |-> g[k][i]]
    BY DEF UnmarshalYAML, Written
  <2>2. cfg[k] = [i \in DOMAIN cfg[k] |-> cfg[k][i]]
    BY DEF EncodersConfig
  <2>. HIDE DEF g
  <2>. QED  BY <1>1, <2>1, <2>2
<1>3. g = [k \in Kinds |-> g[k]] /\ cfg = [k \in Kinds |-> cfg[k]]
  BY DEF UnmarshalYAML, EncodersConfig
<1>. HIDE DEF g
<1>4. g = cfg
  BY <1>2, <1>3
<1>. QED  BY <1>4 DEF g

-----------------------------------------------------------------------------
(***************************************************************************)
(* Messages.                                                               *)
(***************************************************************************)

\* A track that can be sent arrives as it was, but for a number that is cut.
LEMMA TrackArrives ==
    ASSUME NEW t \in Track, t.Codec \in Codecs
    PROVE  /\ TrackFromThrift(TrackToThrift(t)) =
                 [t EXCEPT !.Quality = [type |-> t.Quality.type,
                                        value |-> t.Quality.value % Word]]
           /\ TrackToThrift(t).Codec \in 0..3
           /\ TrackToThrift(t).Quality.type = t.Quality.type
           /\ TrackToThrift(t).Quality.value \in 0..(Word - 1)
           /\ \A j \in DOMAIN TrackToThrift(t).InputTrackIDs :
                 TrackToThrift(t).InputTrackIDs[j] \in 0..(Long - 1)
<1>1. /\ t.InputTrackIDs \in Seq(IDs) /\ t.Quality \in Quality
      /\ t = [InputTrackIDs |-> t.InputTrackIDs, Codec |-> t.Codec, Quality |-> t.Quality]
  BY DEF Track, IDs
<1>. DEFINE ids == t.InputTrackIDs
            sent == [i \in DOMAIN ids |-> ids[i] % Long]
<1>2. \A i \in DOMAIN ids : /\ sent[i] \in 0..(Long - 1)
                            /\ ToInt(sent[i]) = ids[i]
  BY <1>1, Signed
<1>3. [i \in DOMAIN sent |-> ToInt(sent[i])] = ids
  <2>1. [i \in DOMAIN sent |-> ToInt(sent[i])] = [i \in DOMAIN ids |-> ids[i]]
    BY <1>2
  <2>. QED  BY <1>1, <2>1
<1>4. TrackToThrift(t) = [InputTrackIDs |-> sent, Codec |-> t.Codec - 1,
                          Quality |-> [type |-> t.Quality.type,
                                       value |-> t.Quality.value % Word]]
  BY DEF TrackToThrift
<1>5. t.Codec - 1 \in 0..3 /\ (t.Codec - 1) + 1 = t.Codec
  BY DEF Codecs
<1>6. t.Quality.value % Word \in 0..(Word - 1)
  BY <1>1, Signed, Cut DEF Quality
<1>9. DOMAIN sent = DOMAIN ids
  OBVIOUS
<1>. HIDE DEF sent
<1>7. TrackFromThrift(TrackToThrift(t)) =
        [InputTrackIDs |-> ids, Codec |-> t.Codec,
         Quality |-> [type |-> t.Quality.type, value |-> t.Quality.value % Word]]
  BY <1>3, <1>4, <1>5 DEF TrackFromThrift
<1>8. [t EXCEPT !.Quality = [type |-> t.Quality.type, value |-> t.Quality.value % Word]]
        = [InputTrackIDs |-> ids, Codec |-> t.Codec,
           Quality |-> [type |-> t.Quality.type, value |-> t.Quality.value % Word]]
  BY ONLY <1>1
<1>10. /\ TrackToThrift(t).Codec \in 0..3
       /\ TrackToThrift(t).Quality.type = t.Quality.type
       /\ TrackToThrift(t).Quality.value \in 0..(Word - 1)
  BY <1>4, <1>5, <1>6
<1>11. \A j \in DOMAIN TrackToThrift(t).InputTrackIDs :
          TrackToThrift(t).InputTrackIDs[j] \in 0..(Long - 1)
  <2>1. TrackToThrift(t).InputTrackIDs = sent
    BY <1>4
  <2>. QED  BY ONLY <1>2, <1>9, <2>1
<1>12. TrackFromThrift(TrackToThrift(t)) =
         [t EXCEPT !.Quality = [type |-> t.Quality.type,
                                value |-> t.Quality.value % Word]]
  BY ONLY <1>7, <1>8
<1>. QED  BY ONLY <1>10, <1>11, <1>12

\* The way of a configuration to the server and what arrives there.
Arrived(cfg) == EncoderConfigFromThrift(EncoderConfigToThrift(cfg))

LEMMA Arrives ==
    ASSUME NEW cfg \in EncodersConfig, CanConvertToThrift(cfg)
    PROVE  /\ DOMAIN Arrived(cfg) = Kinds
           /\ Arrived(cfg) = [k \in Kinds |-> Arrived(cfg)[k]]
           /\ \A k \in Kinds :
                 /\ Arrived(cfg)[k] = [i \in DOMAIN cfg[k] |-> Arrived(cfg)[k][i]]
                 /\ \A i \in DOMAIN cfg[k] : 
                       /\ cfg[k][i] \in Track
                       /\ cfg[k][i].Codec \in Codecs
                       /\ cfg[k][i].Quality.type \in QualityTypesOf(k)
                       /\ Arrived(cfg)[k][i] = TrackFromThrift(TrackToThrift(cfg[k][i]))
<1>. DEFINE w == EncoderConfigToThrift(cfg).tracks
<1>1. w = [k \in Kinds |-> [i \in DOMAIN cfg[k] |-> TrackToThrift(cfg[k][i])]]
  BY DEF EncoderConfigToThrift
<1>2. Arrived(cfg) = [k \in Kinds |-> [i \in DOMAIN w[k] |-> TrackFromThrift(w[k][i])]]
  BY DEF EncoderConfigFromThrift, Arrived
<1>. HIDE DEF w
<1>3. ASSUME NEW k \in Kinds, NEW i \in DOMAIN cfg[k]
      PROVE  /\ cfg[k][i] \in Track /\ cfg[k][i].Codec \in Codecs
             /\ cfg[k][i].Quality.type \in QualityTypesOf(k)
             /\ Arrived(cfg)[k][i] = TrackFromThrift(TrackToThrift(cfg[k][i]))
  BY <1>1, <1>2, <1>3, TrackType DEF CanConvertToThrift
<1>4. \A k \in Kinds : Arrived(cfg)[k] = [i \in DOMAIN cfg[k] |-> Arrived(cfg)[k][i]]
  BY <1>1, <1>2
<1>5. /\ DOMAIN Arrived(cfg) = Kinds
      /\ Arrived(cfg) = [k \in Kinds |-> Arrived(cfg)[k]]
  BY <1>2
<1>. QED  BY <1>3, <1>4, <1>5

LEMMA WordCut == ASSUME NEW n \in Nat PROVE n % Word \in Nat
  BY ONLY Cut, WordAssumption, n \in Nat, 0..(Word - 1) \subseteq Nat

\* What arrives is a configuration,
LEMMA ArrivesTyped ==
    ASSUME NEW cfg \in EncodersConfig, CanConvertToThrift(cfg)
    PROVE  Arrived(cfg) \in EncodersConfig
<1>1. ASSUME NEW k \in Kinds, NEW i \in DOMAIN cfg[k]
      PROVE  Arrived(cfg)[k][i] \in Track
             /\ Arrived(cfg)[k][i].Quality.type \in QualityTypesOf(k)
  <2>. DEFINE t == cfg[k][i]
              q == [type |-> t.Quality.type, value |-> t.Quality.value % Word]
  <2>1. /\ t \in Track /\ t.Codec \in Codecs /\ t.Quality.type \in QualityTypesOf(k)
        /\ Arrived(cfg)[k][i] = TrackFromThrift(TrackToThrift(t))
    BY <1>1, Arrives
  <2>2. Arrived(cfg)[k][i] = [t EXCEPT !.Quality = q]
    BY <2>1, TrackArrives
  <2>3. t.Quality.value \in Nat /\ t.Quality.type \in QualityTypes \ {"none"}
    BY <2>1 DEF Track, Quality, QualityTypesOf, QualityTypes
  <2>4. q \in Quality /\ q.type = t.Quality.type
    <3>1. t.Quality.value % Word \in Nat
      BY ONLY <2>3, WordCut
    <3>. QED  BY <2>3, <3>1 DEF Quality
  <2>. HIDE DEF q, t
  <2>. QED  BY <2>1, <2>2, <2>4 DEF Track
<1>2. \A k \in Kinds : Arrived(cfg)[k] \in Seq(Track)
  <2>. TAKE k \in Kinds
  <2>1. cfg[k] \in Seq(Track)
    BY DEF EncodersConfig
  <2>2. Arrived(cfg)[k] = [i \in DOMAIN cfg[k] |-> Arrived(cfg)[k][i]]
    BY Arrives
  <2>3. DOMAIN cfg[k] = 1..Len(cfg[k]) /\ Len(cfg[k]) \in Nat
    BY <2>1
  <2>. QED  BY <1>1, <2>2, <2>3
<1>3. /\ DOMAIN Arrived(cfg) = Kinds
      /\ Arrived(cfg) = [k \in Kinds |-> Arrived(cfg)[k]]
      /\ \A k \in Kinds : DOMAIN Arrived(cfg)[k] = DOMAIN cfg[k]
  BY Arrives
<1>4. Arrived(cfg) \in [Kinds -> Seq(Track)]
  BY <1>2, <1>3
<1>. QED  BY <1>1, <1>3, <1>4 DEF EncodersConfig

\* ... it is the one that was sent, where no number is cut,
LEMMA ArrivesWhole ==
    ASSUME NEW cfg \in EncodersConfig, CanConvertToThrift(cfg), Fits(cfg)
    PROVE  Arrived(cfg) = cfg
<1>1. ASSUME NEW k \in Kinds, NEW i \in DOMAIN cfg[k]
      PROVE  Arrived(cfg)[k][i] = cfg[k][i]
  <2>. DEFINE t == cfg[k][i]
  <2>1. /\ t \in Track /\ t.Codec \in Codecs
        /\ Arrived(cfg)[k][i] = TrackFromThrift(TrackToThrift(t))
    BY <1>1, Arrives
  <2>2. t.Quality.value \in Nat /\ t.Quality.value < Word
    BY <1>1, <2>1 DEF Fits, Track, Quality
  <2>3. t.Quality.value % Word = t.Quality.value
    BY <2>2, Signed, NotCut
  <2>4. t.Quality = [type |-> t.Quality.type, value |-> t.Quality.value]
    BY <2>1 DEF Track, Quality
  <2>5. Arrived(cfg)[k][i] = [t EXCEPT !.Quality = t.Quality]
    BY <2>1, <2>3, <2>4, TrackArrives
  <2>. HIDE DEF t
  <2>6. [t EXCEPT !.Quality = t.Quality] = t
    BY <2>1 DEF Track
  <2>. QED  BY <2>5, <2>6 DEF t
<1>2. \A k \in Kinds : Arrived(cfg)[k] = cfg[k]
  <2>. TAKE k \in Kinds
  <2>1. cfg[k] = [i \in DOMAIN cfg[k] |-> cfg[k][i]]
    BY DEF EncodersConfig
  <2>. QED  BY <1>1, <2>1, Arrives
<1>3. cfg = [k \in Kinds |-> cfg[k]]
  BY DEF EncodersConfig
<1>. QED  BY <1>2, <1>3, Arrives

\* ... and the server can convert what the client could.
LEMMA ArrivesConverted ==
    ASSUME NEW cfg \in EncodersConfig, CanConvertToThrift(cfg)
    PROVE  LET m == EncoderConfigToThrift(cfg) IN
           /\ CanConvertFromThrift(m) /\ m.Enable
           /\ \A k \in Kinds : \A i \in DOMAIN m.tracks[k] :
                /\ m.tracks[k][i].Codec \in Nat
                /\ m.tracks[k][i].Quality.value \in 0..(Word - 1)
                /\ \A j \in DOMAIN m.tracks[k][i].InputTrackIDs :
                      m.tracks[k][i].InputTrackIDs[j] \in 0..(Long - 1)
<1>. DEFINE w == EncoderConfigToThrift(cfg).tracks
<1>1. /\ EncoderConfigToThrift(cfg).Enable
      /\ \A k \in Kinds : DOMAIN w[k] = DOMAIN cfg[k]
      /\ \A k \in Kinds : \A i \in DOMAIN cfg[k] : w[k][i] = TrackToThrift(cfg[k][i])
  BY DEF EncoderConfigToThrift
<1>. HIDE DEF w
<1>2. ASSUME NEW k \in Kinds, NEW i \in DOMAIN w[k]
      PROVE  /\ w[k][i].Codec \in 0..3
             /\ w[k][i].Quality.type \in QualityTypesOf(k)
             /\ w[k][i].Quality.value \in 0..(Word - 1)
             /\ \A j \in DOMAIN w[k][i].InputTrackIDs :
                  w[k][i].InputTrackIDs[j] \in 0..(Long - 1)
  <2>. DEFINE t == cfg[k][i]
  <2>1. /\ t \in Track /\ t.Codec \in Codecs /\ t.Quality.type \in QualityTypesOf(k)
        /\ w[k][i] = TrackToThrift(t)
    BY <1>1, <1>2, Arrives
  <2>. HIDE DEF t
  <2>. QED  BY <2>1, TrackArrives
<1>. QED  BY <1>1, <1>2 DEF w, CanConvertFromThrift

-----------------------------------------------------------------------------
(***************************************************************************)
(* The invariant.                                                          *)
(***************************************************************************)

LEMMA InitWay == Init => WayInv
  BY ConfigsAssumption DEF Init, WayInv, Stages

LEMMA SaveWay == WayInv /\ Save => WayInv'
<1>. SUFFICES ASSUME WayInv, Save PROVE WayInv'
  OBVIOUS
<1>1. Written(file', given)
  BY Saved DEF WayInv, Save
<1>. QED  BY <1>1, EmptyIsConfig DEF WayInv, Save, Stages

LEMMA EditWay == WayInv /\ Edit => WayInv'
<1>. SUFFICES ASSUME WayInv, Edit PROVE WayInv'
  OBVIOUS
<1>1. Written(file, given) /\ stage = "saved"
  BY DEF WayInv, Edit
<1>2. PICK form \in {"whole", "fraction"} :
          file' = [k \in Kinds |->
                     [i \in DOMAIN file[k] |-> [file[k][i] EXCEPT !.Quality.form = form]]]
  BY DEF Edit
<1>3. ASSUME NEW k \in Kinds, NEW i \in DOMAIN given[k]
      PROVE  /\ file'[k][i] = [InputTrackIDs |-> given[k][i].InputTrackIDs,
                               Codec |-> given[k][i].Codec,
                               Quality |-> file'[k][i].Quality]
             /\ Tells(file'[k][i].Quality, given[k][i].Quality)
  <2>. DEFINE f == file[k][i]
              g == given[k][i]
  <2>1. /\ f = [InputTrackIDs |-> g.InputTrackIDs, Codec |-> g.Codec, Quality |-> f.Quality]
        /\ Tells(f.Quality, g.Quality) /\ i \in DOMAIN file[k]
    BY <1>1, <1>3 DEF Written
  <2>2. file'[k][i] = [f EXCEPT !.Quality.form = form]
    BY <1>2, <1>3, <2>1
  <2>. HIDE DEF f, g
  <2>3. file'[k][i] = [InputTrackIDs |-> g.InputTrackIDs, Codec |-> g.Codec,
                       Quality |-> [f.Quality EXCEPT !.form = form]]
    BY ONLY <2>1, <2>2
  <2>4. Tells([f.Quality EXCEPT !.form = form], g.Quality)
    BY <2>1 DEF Tells
  <2>. QED  BY <2>3, <2>4 DEF g
<1>4. /\ DOMAIN file' = Kinds
      /\ \A k \in Kinds : DOMAIN file'[k] = DOMAIN given[k]
  BY <1>1, <1>2 DEF Written
<1>5. Written(file', given)
  BY <1>3, <1>4 DEF Written
<1>. QED  BY <1>1, <1>5 DEF WayInv, Edit, Stages

LEMMA LoadWay == WayInv /\ Load => WayInv'
<1>. SUFFICES ASSUME WayInv, Load PROVE WayInv'
  OBVIOUS
<1>1. /\ Written(file, given) /\ stage = "saved" /\ config \in EncodersConfig
      /\ given \in Configs /\ given \in EncodersConfig
  BY ConfigsAssumption DEF WayInv, Load
<1>2. Loads(file) => config' = given
  BY <1>1, Loaded DEF Load
<1>. QED  BY <1>1, <1>2 DEF WayInv, Load, Stages

LEMMA LoadJSONWay == WayInv /\ LoadJSON => WayInv'
  BY DEF WayInv, LoadJSON, Stages

LEMMA StartWay == WayInv /\ (StartRecoding \/ StartCopying) => WayInv'
  BY EmptyIsConfig DEF WayInv, StartRecoding, StartCopying, Stages

\* A message without a configuration converts to none.
LEMMA NothingArrives ==
    /\ CanConvertFromThrift(NoMessage)
    /\ EncoderConfigFromThrift(NoMessage) = NoConfig
<1>1. \A k \in Kinds : NoMessage.tracks[k] = <<>>
  BY DEF NoMessage, NoConfig
<1>2. DOMAIN <<>> = {}
  OBVIOUS
<1>3. \A k \in Kinds : [i \in DOMAIN NoMessage.tracks[k] |->
                          TrackFromThrift(NoMessage.tracks[k][i])] = <<>>
  BY <1>1, <1>2
<1>. QED  BY <1>1, <1>2, <1>3 DEF CanConvertFromThrift, EncoderConfigFromThrift, NoConfig

LEMMA ServeWay == WayInv /\ Serve => WayInv' /\ stage' # "crashed"
<1>. SUFFICES ASSUME WayInv, Serve PROVE WayInv' /\ stage' # "crashed"
  OBVIOUS
<1>. DEFINE cfg == EncoderConfigFromThrift(wire)
<1>1. given \in EncodersConfig
  BY ConfigsAssumption DEF WayInv
<1>2. CASE wire = NoMessage
  <2>1. CanConvertFromThrift(wire) /\ cfg = NoConfig /\ ~wire.Enable
    BY <1>2, NothingArrives DEF NoMessage
  <2>2. stage' = "copying" /\ config' = NoConfig /\ wire' = NoMessage
    BY <2>1 DEF Serve
  <2>. QED  BY <2>2, EmptyIsConfig DEF WayInv, Serve, Stages
<1>3. CASE wire = EncoderConfigToThrift(given) /\ CanConvertToThrift(given)
  <2>1. CanConvertFromThrift(wire) /\ wire.Enable
    BY <1>1, <1>3, ArrivesConverted
  <2>2. cfg = Sent /\ Sent \in EncodersConfig
    BY <1>1, <1>3, ArrivesTyped DEF Sent, Arrived
  <2>3. /\ config' = Sent /\ wire' = NoMessage /\ given' = given /\ file' = file
        /\ stage = "sent"
        /\ stage' = IF Supported(Sent) THEN "encoding" ELSE "refused"
    BY <2>1, <2>2 DEF Serve
  <2>4. Sent' = Sent
    BY <2>3 DEF Sent
  <2>. QED  BY <1>3, <2>2, <2>3, <2>4 DEF WayInv, Stages
<1>. QED  BY <1>2, <1>3 DEF WayInv

LEMMA StepWay == WayInv /\ [Next]_vars => WayInv'
<1>1. WayInv /\ UNCHANGED vars => WayInv'
  BY DEF WayInv, vars, Sent
<1>. QED  BY <1>1, SaveWay, EditWay, LoadWay, LoadJSONWay, StartWay, ServeWay DEF Next

\* What each stage of the way holds of what was asked for.
THEOREM WayInvariant == Spec => []WayInv
<1>. QED  BY InitWay, StepWay, PTL DEF Spec

-----------------------------------------------------------------------------
(***************************************************************************)
(* What follows from it.                                                   *)
(***************************************************************************)

LEMMA WayTypes == WayInv => TypeOK
<1>. SUFFICES ASSUME WayInv PROVE TypeOK
  OBVIOUS
<1>1. \A k \in Kinds : DOMAIN NoConfig[k] = {}
  BY DEF NoConfig
<1>2. \A k \in Kinds : \A i \in DOMAIN file[k] :
          file[k][i].Quality.form \in {"int", "uint64", "whole", "fraction"}
  BY <1>1 DEF WayInv, Written, Tells
<1>3. /\ wire.Enable \in BOOLEAN
      /\ \A k \in Kinds : \A i \in DOMAIN wire.tracks[k] :
          /\ wire.tracks[k][i].Codec \in Nat
          /\ wire.tracks[k][i].Quality.value \in 0..(Word - 1)
          /\ \A j \in DOMAIN wire.tracks[k][i].InputTrackIDs :
                wire.tracks[k][i].InputTrackIDs[j] \in 0..(Long - 1)
  <2>1. CASE wire = NoMessage
    BY <1>1, <2>1 DEF NoMessage
  <2>2. CASE wire = EncoderConfigToThrift(given) /\ CanConvertToThrift(given)
    <3>1. given \in EncodersConfig
      BY ConfigsAssumption DEF WayInv
    <3>. QED  BY <2>2, <3>1, ArrivesConverted
  <2>. QED  BY <2>1, <2>2 DEF WayInv
<1>. QED  BY <1>2, <1>3 DEF WayInv, TypeOK

\* Types of the way of a configuration: every number on the wire fits it.
THEOREM ConfigTypeCorrect == Spec => []TypeOK
<1>. QED  BY WayInvariant, WayTypes, PTL

\* A YAML file gives back what was saved to it, or is refused.
THEOREM FileRoundTrip == Spec => []SurvivesTheFile
<1>1. WayInv => SurvivesTheFile
  BY DEF WayInv, SurvivesTheFile
<1>. QED  BY <1>1, WayInvariant, PTL

\* The encoders get what was asked for, unless a bitrate is too large.
THEOREM WireRoundTrip == Spec => []SurvivesTheWire
<1>1. WayInv => SurvivesTheWire
  BY ConfigsAssumption, ArrivesWhole DEF WayInv, SurvivesTheWire, Sent, Arrived
<1>. QED  BY <1>1, WayInvariant, PTL

\* No client makes the conversions of the server panic.
THEOREM NoCrash == Spec => []ServerSurvives
<1>1. Init => ServerSurvives
  BY DEF Init, ServerSurvives
<1>2. WayInv /\ ServerSurvives /\ [Next]_vars => ServerSurvives'
  BY ServeWay DEF ServerSurvives, Next, vars, Save, Edit, Load, LoadJSON,
     StartRecoding, StartCopying
<1>. QED  BY <1>1, <1>2, WayInvariant, PTL DEF Spec

-----------------------------------------------------------------------------
(***************************************************************************)
(* The streams of the encoders.                                            *)
(***************************************************************************)

LEMMA ElementsFinite ==
    ASSUME NEW S, NEW s \in Seq(S)
    PROVE  IsFiniteSet(Elements(s)) /\ (s # <<>> => Elements(s) # {})
<1>1. s \in [1..Len(s) -> Elements(s)] /\ Len(s) \in Nat
  BY DEF Elements
<1>2. s \in Surjection(1..Len(s), Elements(s))
  BY <1>1 DEF Surjection, Elements
<1>3. IsFiniteSet(1..Len(s))
  BY <1>1, FS_Interval
<1>4. s # <<>> => 1 \in 1..Len(s)
  BY <1>1
<1>. QED  BY <1>1, <1>2, <1>3, <1>4, FS_Surjection DEF Elements

\* With one track at most of a kind, each of its packets goes to the first
\* stream of its kind, and there are as many mapped IDs as keep the next kind
\* away from it.
LEMMA OneTrack ==
    ASSUME NEW cfg \in EncodersConfig, Supported(cfg), NEW k \in Kinds,
           \A i \in DOMAIN cfg[k] : cfg[k][i].InputTrackIDs # <<>>
    PROVE  /\ Cardinality(Allowed(cfg[k])) \in Nat
           /\ Elements(cfg[k]) # {} =>
                 /\ Cardinality(Allowed(cfg[k])) >= 1
                 /\ \A id : TrackOf(cfg[k], id) = 0
<1>1. cfg[k] \in Seq(Track) /\ Len(cfg[k]) \in 0..1
  <2>1. cfg[k] \in Seq(Track) /\ Len(cfg[k]) <= 1
    BY DEF Supported, EncodersConfig
  <2>2. Len(cfg[k]) \in Nat
    BY <2>1
  <2>3. \A n \in Nat : n <= 1 => n \in 0..1
    OBVIOUS
  <2>. QED  BY ONLY <2>1, <2>2, <2>3, Zenon
<1>2. CASE Len(cfg[k]) = 0
  <2>1. DOMAIN cfg[k] = {}
    BY <1>1, <1>2
  <2>2. Allowed(cfg[k]) = {} /\ Elements(cfg[k]) = {}
    BY <2>1 DEF Allowed, Elements
  <2>. QED  BY <2>2, FS_EmptySet
<1>3. CASE Len(cfg[k]) = 1
  <2>1. DOMAIN cfg[k] = {1} /\ cfg[k][1] \in Track
    BY <1>1, <1>3
  <2>. DEFINE ids == cfg[k][1].InputTrackIDs
  <2>2. Allowed(cfg[k]) = Elements(ids)
    BY <2>1 DEF Allowed
  <2>3. IsFiniteSet(Elements(ids)) /\ Elements(ids) # {}
    <3>1. ids \in Seq(Int) /\ ids # <<>>
      BY <2>1, Signed DEF Track
    <3>. HIDE DEF ids
    <3>. QED  BY <3>1, ElementsFinite
  <2>4. Cardinality(Allowed(cfg[k])) \in Nat /\ Cardinality(Allowed(cfg[k])) # 0
    BY <2>2, <2>3, FS_CardinalityType, FS_EmptySet
  <2>5. \A id : TrackOf(cfg[k], id) = 0
    <3>. TAKE id
    <3>. DEFINE naming == {i \in DOMAIN cfg[k] : id \in Elements(cfg[k][i].InputTrackIDs)}
    <3>1. naming = {} \/ naming = {1}
      BY <2>1
    <3>2. naming = {1} => (CHOOSE i \in naming : \A j \in naming : j <= i) = 1
      OBVIOUS
    <3>3. TrackOf(cfg[k], id) = IF naming = {} THEN 0
            ELSE (CHOOSE i \in naming : \A j \in naming : j <= i) - 1
      BY DEF TrackOf
    <3>. HIDE DEF naming
    <3>. QED  BY <3>1, <3>2, <3>3
  <2>. QED  BY <2>4, <2>5
<1>. QED  BY <1>1, <1>2, <1>3

\* No output stream is fed with packets of two kinds, whatever the streams.
THEOREM StreamsKeptApart == Spec => []MediaKeptApart
<1>1. WayInv => MediaKeptApart
  <2>. SUFFICES ASSUME WayInv, stage = "encoding",
                       \A k \in Kinds : \A i \in DOMAIN config[k] :
                           config[k][i].InputTrackIDs # <<>>,
                       NEW m \in Medias, NEW n \in Medias, m # n,
                       NEW i \in Streams, NEW j \in Streams
                PROVE  StreamIndexAssign(config, m, i)
                         \cap StreamIndexAssign(config, n, j) = {}
    BY DEF MediaKeptApart
  <2>. DEFINE Nv == Cardinality(Allowed(config["video"]))
              Na == Cardinality(Allowed(config["audio"]))
  <2>1. config \in EncodersConfig /\ Supported(config)
    BY DEF WayInv
  <2>2. /\ Nv \in Nat
        /\ Elements(config["video"]) # {} =>
              Nv >= 1 /\ \A id : TrackOf(config["video"], id) = 0
    BY <2>1, OneTrack
  <2>3. /\ Na \in Nat
        /\ Elements(config["audio"]) # {} =>
              Na >= 1 /\ \A id : TrackOf(config["audio"], id) = 0
    BY <2>1, OneTrack
  <2>. HIDE DEF Nv, Na
  <2>4. \A id \in Streams :
           /\ StreamIndexAssign(config, "video", id) \subseteq {0}
           /\ StreamIndexAssign(config, "video", id) # {} => Nv >= 1
           /\ StreamIndexAssign(config, "audio", id) \subseteq {Nv}
           /\ StreamIndexAssign(config, "audio", id) # {} => Na >= 1
           /\ StreamIndexAssign(config, "other", id) = {Nv + Na + id}
    BY <2>2, <2>3 DEF StreamIndexAssign, Nv, Na
  <2>5. i \in Nat /\ j \in Nat
    BY StreamsAssumption
  <2>. QED  BY <2>2, <2>3, <2>4, <2>5 DEF Medias
<1>. QED  BY <1>1, WayInvariant, PTL

=============================================================================
