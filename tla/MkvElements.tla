----------------------------- MODULE MkvElements -----------------------------
(* The elements of a WebM file as mkvparser reads them
   (src/src/libwebm/mkvparser.cpp), all but the clusters.

   A reader is the bytes of a file, its total size, or -1 when that is not
   known, and how many of the bytes can be read by now.  The parser reads the
   elements before the clusters in whole or not at all, so a parse of one of
   them is good or it is not; the codes of the errors are not told apart.
   An optional part is a sequence of at most one.  Numbers are below 2^31.  *)
EXTENDS Integers, SequencesExt, MkvIds

(* MkvReader: a file that is all there.  *)
FileReader(bytes) ==
  [bytes |-> bytes, total |-> Len(bytes), avail |-> Len(bytes)]

Readable(r, pos, len) == pos >= 0 /\ len >= 0 /\ pos + len <= r.avail

ByteAt(r, pos) == r.bytes[pos + 1]

-----------------------------------------------------------------------------
(* Numbers. *)

(* GetUIntLength's loop: the first bit that is set gives the length.  *)
CodedLength(byte) == CHOOSE n \in 1 .. 8 : byte \in 2 ^ (8 - n) .. 2 ^ (9 - n) - 1

(* The number in len bytes, the first of which counts as first.  *)
Number(r, pos, len, first) ==
  LET B(i) == IF i > len THEN 0 ELSE IF i = len THEN first ELSE ByteAt(r, pos + len - i)
  IN B(1) + 256 * B(2) + 65536 * B(3) + 16777216 * B(4)

(* A size of all ones, which the callers compare with; raw is the number that
   ReadUInt itself returns, of up to four bytes.  *)
Unknown == -1
NoNumber == [ok |-> FALSE, len |-> 0, v |-> 0, raw |-> 0]

ReadUInt(r, pos) ==
  IF ~Readable(r, pos, 1) \/ ByteAt(r, pos) = 0 THEN NoNumber
  ELSE LET len == CodedLength(ByteAt(r, pos))
           first == ByteAt(r, pos) % 2 ^ (8 - len)
           ones == /\ first = 2 ^ (8 - len) - 1
                   /\ \A i \in 1 .. len - 1 : ByteAt(r, pos + i) = 255
       IN IF ~Readable(r, pos, len) THEN NoNumber
          ELSE [ok |-> TRUE, len |-> len,
                raw |-> IF ones /\ len > 4 THEN Unknown ELSE Number(r, pos, len, first),
                v |-> IF ones THEN Unknown ELSE Number(r, pos, len, first)]

(* An ID keeps its marker and has at most four bytes.  *)
ReadID(r, pos) ==
  IF ~Readable(r, pos, 1) \/ ByteAt(r, pos) < 16 THEN NoNumber
  ELSE LET len == CodedLength(ByteAt(r, pos))
       IN IF ~Readable(r, pos, len) THEN NoNumber
          ELSE [ok |-> TRUE, len |-> len, v |-> Number(r, pos, len, ByteAt(r, pos))]

UnserializeUInt(r, pos, size) ==
  IF size \notin 1 .. 8 \/ ~Readable(r, pos, size) THEN -2
  ELSE Number(r, pos, size, ByteAt(r, pos))

UnserializeInt(r, pos, size) ==
  LET negative == ByteAt(r, pos) >= 128
      first == ByteAt(r, pos) - (IF negative THEN 256 ELSE 0)
  IN IF size \notin 1 .. 8 \/ ~Readable(r, pos, size) THEN [ok |-> FALSE, v |-> 0]
     ELSE [ok |-> TRUE, v |-> Number(r, pos, size, first)]

(* Of four bytes, and a whole number; a float of eight is not written.  *)
UnserializeFloat(r, pos, size) ==
  LET B(i) == ByteAt(r, pos + i)
      exponent == 2 * B(0) + B(1) \div 128 - 127
      mantissa == 8388608 + (B(1) % 128) * 65536 + B(2) * 256 + B(3)
  IN CASE size # 4 \/ ~Readable(r, pos, 4) -> -2
       [] size = 4 /\ Readable(r, pos, 4) /\ \A i \in 0 .. 3 : B(i) = 0 -> 0
       [] OTHER -> mantissa \div 2 ^ (23 - exponent)

UnserializeString(r, pos, size) ==
  IF ~Readable(r, pos, size) THEN [ok |-> FALSE, v |-> <<>>]
  ELSE [ok |-> TRUE, v |-> SubSeq(r.bytes, pos + 1, pos + size)]

-----------------------------------------------------------------------------
(* The elements of a master element. *)

NoElement == [ok |-> FALSE, id |-> 0, pos |-> 0, size |-> 0]

(* An element's payload must start before the end of its parent: one that is
   empty and last is an error.  A size of all ones is a number here.  *)
ParseElementHeader(r, pos, stop) ==
  LET id == ReadID(r, pos)
      size == ReadUInt(r, pos + id.len)
      payload == pos + id.len + size.len
  IN IF /\ pos < stop /\ id.ok
        /\ pos + id.len < stop /\ size.ok /\ size.raw # Unknown
        /\ payload < stop
     THEN [ok |-> TRUE, id |-> id.v, pos |-> payload, size |-> size.raw]
     ELSE NoElement

(* The loop that every Parse has: the payload is cut into elements, and must be
   used up.  *)
RECURSIVE Children(_, _, _)
Children(r, pos, stop) ==
  IF pos >= stop THEN [ok |-> pos = stop, kids |-> <<>>]
  ELSE LET e == ParseElementHeader(r, pos, stop)
       IN IF ~e.ok THEN [ok |-> FALSE, kids |-> <<>>]
          ELSE LET rest == Children(r, e.pos + e.size, stop)
               IN [ok |-> rest.ok, kids |-> <<e>> \o rest.kids]

(* The loop of the cues: an element may be empty wherever it is.  *)
RECURSIVE Items(_, _, _)
Items(r, pos, stop) ==
  IF pos >= stop THEN [ok |-> TRUE, kids |-> <<>>]
  ELSE LET id == ReadID(r, pos)
           size == ReadUInt(r, pos + id.len)
           payload == pos + id.len + size.len
       IN IF /\ id.ok /\ pos + id.len <= stop
             /\ size.ok /\ size.raw # Unknown /\ payload + size.raw <= stop
          THEN LET rest == Items(r, payload + size.raw, stop)
               IN [ok |-> rest.ok,
                   kids |-> <<[id |-> id.v, start |-> pos, pos |-> payload, size |-> size.raw,
                               unknown |-> size.v = Unknown]>> \o rest.kids]
          ELSE [ok |-> FALSE, kids |-> <<>>]

(* Some loops pass over an element that is empty.  *)
Filled(c) == SelectSeq(c.kids, LAMBDA k : k.size > 0)

Named(kids, name) == SelectSeq(kids, LAMBDA k : k.id = Id[name])

Each(kids, name, Good(_)) == \A k \in ToSet(Named(kids, name)) : Good(k)

(* A later element of the same name replaces an earlier one.  *)
LastOf(kids, name, Value(_), default) ==
  IF Named(kids, name) = <<>> THEN default ELSE Value(Last(Named(kids, name)))

UInt(r, k) == UnserializeUInt(r, k.pos, k.size)
Float(r, k) == UnserializeFloat(r, k.pos, k.size)
String(r, k) == UnserializeString(r, k.pos, k.size).v

UIntOf(r, kids, name, default) ==
  LastOf(kids, name, LAMBDA k : UInt(r, k), default)

(* A string that is not there is NULL.  *)
StringOf(r, kids, name) == LastOf(kids, name, LAMBDA k : <<String(r, k)>>, <<>>)

(* Numbers that must be positive when they are there.  *)
Positive(r, kids, names) ==
  \A name \in names : Each(kids, name, LAMBDA k : UInt(r, k) > 0)

-----------------------------------------------------------------------------
(* SegmentInfo::Parse. *)

ParseSegmentInfo(r, start, size) ==
  LET c == Children(r, start, start + size)
  IN [ok |-> /\ c.ok
             /\ Positive(r, c.kids, {"TimecodeScale"})
             /\ Each(c.kids, "Duration", LAMBDA k : Float(r, k) >= 0),
      timecode_scale |-> UIntOf(r, c.kids, "TimecodeScale", 1000000),
      duration |-> LastOf(c.kids, "Duration", LAMBDA k : Float(r, k), -1),
      muxing_app |-> StringOf(r, c.kids, "MuxingApp"),
      writing_app |-> StringOf(r, c.kids, "WritingApp"),
      title |-> StringOf(r, c.kids, "Title")]

-----------------------------------------------------------------------------
(* ContentEncoding. *)

(* ParseContentEncAESSettingsEntry: counter mode or nothing.  *)
AesSettingsParse(r, e) ==
  LET c == Children(r, e.pos, e.pos + e.size)
  IN c.ok /\ Each(c.kids, "AESSettingsCipherMode", LAMBDA k : UInt(r, k) = 1)

ParseCompressionEntry(r, e) ==
  LET c == Children(r, e.pos, e.pos + e.size)
  IN [ok |-> /\ c.ok
             /\ Named(c.kids, "ContentCompAlgo") # <<>>
             /\ Each(c.kids, "ContentCompAlgo", LAMBDA k : UInt(r, k) >= 0)
             /\ Each(c.kids, "ContentCompSettings", LAMBDA k : k.size > 0),
      algo |-> UIntOf(r, c.kids, "ContentCompAlgo", 0),
      settings |-> StringOf(r, c.kids, "ContentCompSettings")]

ParseEncryptionEntry(r, e) ==
  LET c == Children(r, e.pos, e.pos + e.size)
  IN [ok |-> /\ c.ok
             /\ Each(c.kids, "ContentEncAlgo", LAMBDA k : UInt(r, k) = 5)
             /\ \A name \in {"ContentEncKeyID", "ContentSignature", "ContentSigKeyID"} :
                  Each(c.kids, name, LAMBDA k : k.size > 0)
             /\ Each(c.kids, "ContentEncAESSettings", LAMBDA k : AesSettingsParse(r, k)),
      algo |-> UIntOf(r, c.kids, "ContentEncAlgo", 0),
      key_id |-> StringOf(r, c.kids, "ContentEncKeyID")]

ParseContentEncodingEntry(r, e) ==
  LET c == Children(r, e.pos, e.pos + e.size)
      compressions == [i \in DOMAIN Named(c.kids, "ContentCompression") |->
                         ParseCompressionEntry(r, Named(c.kids, "ContentCompression")[i])]
      encryptions == [i \in DOMAIN Named(c.kids, "ContentEncryption") |->
                        ParseEncryptionEntry(r, Named(c.kids, "ContentEncryption")[i])]
  IN [ok |-> /\ c.ok
             /\ compressions \o encryptions # <<>>
             /\ Positive(r, c.kids, {"ContentEncodingScope"})
             /\ \A x \in ToSet(compressions) : x.ok
             /\ \A x \in ToSet(encryptions) : x.ok,
      order |-> UIntOf(r, c.kids, "ContentEncodingOrder", 0),
      scope |-> UIntOf(r, c.kids, "ContentEncodingScope", 1),
      type |-> UIntOf(r, c.kids, "ContentEncodingType", 0),
      compressions |-> compressions, encryptions |-> encryptions]

(* Track::ParseContentEncodingsEntry, whose failure nobody looks at: the
   encodings before the one that fails are kept.  *)
ParseContentEncodingsEntry(r, e) ==
  LET c == Children(r, e.pos, e.pos + e.size)
      entries == Named(c.kids, "ContentEncoding")
      all == [i \in DOMAIN entries |-> ParseContentEncodingEntry(r, entries[i])]
      bad == {i \in DOMAIN all : ~all[i].ok}
  IN IF ~c.ok THEN <<>>
     ELSE SubSeq(all, 1, IF bad = {} THEN Len(all) ELSE Min(bad) - 1)

-----------------------------------------------------------------------------
(* Track, VideoTrack, AudioTrack, Tracks. *)

ParseVideo(r, e) ==
  LET c == Children(r, e.pos, e.pos + e.size)
  IN [ok |-> /\ c.ok
             /\ Positive(r, c.kids, {"PixelWidth", "PixelHeight", "DisplayWidth",
                                     "DisplayHeight"})
             /\ Each(c.kids, "DisplayUnit", LAMBDA k : UInt(r, k) >= 0)
             /\ Each(c.kids, "StereoMode", LAMBDA k : UInt(r, k) >= 0)
             /\ Each(c.kids, "FrameRate", LAMBDA k : Float(r, k) > 0),
      width |-> UIntOf(r, c.kids, "PixelWidth", 0),
      height |-> UIntOf(r, c.kids, "PixelHeight", 0),
      display_width |-> UIntOf(r, c.kids, "DisplayWidth", 0),
      display_height |-> UIntOf(r, c.kids, "DisplayHeight", 0),
      display_unit |-> UIntOf(r, c.kids, "DisplayUnit", 0),
      stereo_mode |-> UIntOf(r, c.kids, "StereoMode", 0),
      rate |-> LastOf(c.kids, "FrameRate", LAMBDA k : Float(r, k), 0)]

ParseAudio(r, e) ==
  LET c == Children(r, e.pos, e.pos + e.size)
  IN [ok |-> /\ c.ok
             /\ Each(c.kids, "SamplingFrequency", LAMBDA k : Float(r, k) > 0)
             /\ Positive(r, c.kids, {"Channels", "BitDepth"}),
      rate |-> LastOf(c.kids, "SamplingFrequency", LAMBDA k : Float(r, k), 8000),
      channels |-> UIntOf(r, c.kids, "Channels", 1),
      bit_depth |-> UIntOf(r, c.kids, "BitDepth", 0)]

kVideoTrack == 1
kAudioTrack == 2
kMetadataTrack == 33

(* The part of a track that Track::Info holds.  *)
TrackInfo(r, kids) ==
  [number |-> UIntOf(r, kids, "TrackNumber", 0),
   type |-> UIntOf(r, kids, "TrackType", 0),
   uid |-> LastOf(kids, "TrackUID",
                  LAMBDA k : IF k.size = 0 THEN 0 ELSE UInt(r, k), 0),
   name |-> StringOf(r, kids, "Name"), language |-> StringOf(r, kids, "Language"),
   codec_id |-> StringOf(r, kids, "CodecID"),
   codec_name |-> StringOf(r, kids, "CodecName"),
   codec_private |-> LastOf(kids, "CodecPrivate",
                            LAMBDA k : IF k.size = 0 THEN <<>> ELSE <<String(r, k)>>, <<>>),
   default_duration |-> UIntOf(r, kids, "DefaultDuration", 0),
   codec_delay |-> UIntOf(r, kids, "CodecDelay", 0),
   seek_pre_roll |-> UIntOf(r, kids, "SeekPreRoll", 0),
   lacing |-> UIntOf(r, kids, "FlagLacing", 1)]

TrackInfoValid(r, kids) ==
  /\ Each(kids, "TrackUID", LAMBDA k : k.size <= 8)
  /\ Each(kids, "TrackNumber", LAMBDA k : UInt(r, k) \in 1 .. 127)
  /\ Each(kids, "TrackType", LAMBDA k : UInt(r, k) \in 1 .. 254)
  /\ Each(kids, "DefaultDuration", LAMBDA k : UInt(r, k) >= 0)
  /\ Each(kids, "FlagLacing", LAMBDA k : UInt(r, k) \in 0 .. 1)

NoSettings == [ok |-> TRUE]

(* A track of another type has neither settings nor encodings that are read.  *)
ParseTrackEntry(r, e, numbers) ==
  LET c == Children(r, e.pos, e.pos + e.size)
      info == TrackInfo(r, c.kids)
      video == Named(c.kids, "Video")
      audio == Named(c.kids, "Audio")
      encodings == Named(c.kids, "ContentEncodings")
      settings == CASE info.type = kVideoTrack /\ video # <<>> -> ParseVideo(r, Last(video))
                    [] info.type = kAudioTrack /\ audio # <<>> -> ParseAudio(r, Last(audio))
                    [] OTHER -> NoSettings
  IN [ok |-> /\ c.ok /\ TrackInfoValid(r, c.kids)
             /\ info.number > 0 /\ info.number \notin numbers
             /\ info.type > 0
             /\ (video # <<>>) = (info.type = kVideoTrack)
             /\ (audio # <<>>) = (info.type = kAudioTrack)
             /\ ~(info.type = kMetadataTrack /\ encodings # <<>>)
             /\ settings.ok,
      info |-> info, settings |-> settings,
      encodings |-> IF encodings = <<>> \/ info.type \notin {kVideoTrack, kAudioTrack}
                    THEN <<>> ELSE ParseContentEncodingsEntry(r, Last(encodings))]

(* Tracks::Parse: each number once.  *)
ParseTracks(r, start, size) ==
  LET c == Children(r, start, start + size)
      entries == Named(Filled(c), "TrackEntry")
      Add(t, e) ==
        LET p == ParseTrackEntry(r, e, {x.info.number : x \in ToSet(t.entries)})
        IN IF ~t.ok \/ ~p.ok THEN [t EXCEPT !.ok = FALSE]
           ELSE [t EXCEPT !.entries = Append(@, p)]
  IN FoldLeft(Add, [ok |-> c.ok, entries |-> <<>>], entries)

-----------------------------------------------------------------------------
(* Chapters and Tags. *)

ParseDisplay(r, e) ==
  LET c == Children(r, e.pos, e.pos + e.size)
  IN [ok |-> c.ok, title |-> StringOf(r, Filled(c), "ChapString"),
      language |-> StringOf(r, Filled(c), "ChapLanguage"),
      country |-> StringOf(r, Filled(c), "ChapCountry")]

(* Parse of each kid with that name, all of which must be good.  *)
EachParsed(c, name, Parse(_)) ==
  LET kids == Named(Filled(c), name)
  IN [i \in DOMAIN kids |-> Parse(kids[i])]

AllParsed(parsed) == \A p \in ToSet(parsed) : p.ok

(* The UID is read as a signed number.  *)
ParseAtom(r, e) ==
  LET c == Children(r, e.pos, e.pos + e.size)
      kids == Filled(c)
      displays == EachParsed(c, "ChapterDisplay", LAMBDA k : ParseDisplay(r, k))
  IN [ok |-> /\ c.ok /\ AllParsed(displays)
             /\ Each(kids, "ChapterUID", LAMBDA k : UnserializeInt(r, k.pos, k.size).ok)
             /\ Each(kids, "ChapterTimeStart", LAMBDA k : UInt(r, k) >= 0)
             /\ Each(kids, "ChapterTimeEnd", LAMBDA k : UInt(r, k) >= 0),
      string_uid |-> StringOf(r, kids, "ChapterStringUID"),
      uid |-> LastOf(kids, "ChapterUID",
                     LAMBDA k : UnserializeInt(r, k.pos, k.size).v, 0),
      start |-> UIntOf(r, kids, "ChapterTimeStart", -1),
      stop |-> UIntOf(r, kids, "ChapterTimeEnd", -1),
      displays |-> displays]

ParseEdition(r, e) ==
  LET c == Children(r, e.pos, e.pos + e.size)
      atoms == EachParsed(c, "ChapterAtom", LAMBDA k : ParseAtom(r, k))
  IN [ok |-> c.ok /\ AllParsed(atoms), atoms |-> atoms]

ParseChapters(r, start, size) ==
  LET c == Children(r, start, start + size)
      editions == EachParsed(c, "EditionEntry", LAMBDA k : ParseEdition(r, k))
  IN [ok |-> c.ok /\ AllParsed(editions), editions |-> editions]

ParseSimpleTag(r, e) ==
  LET c == Children(r, e.pos, e.pos + e.size)
  IN [ok |-> c.ok, name |-> StringOf(r, Filled(c), "TagName"),
      string |-> StringOf(r, Filled(c), "TagString")]

ParseTag(r, e) ==
  LET c == Children(r, e.pos, e.pos + e.size)
      simple_tags == EachParsed(c, "SimpleTag", LAMBDA k : ParseSimpleTag(r, k))
  IN [ok |-> c.ok /\ AllParsed(simple_tags), simple_tags |-> simple_tags]

ParseTags(r, start, size) ==
  LET c == Children(r, start, start + size)
      tags == EachParsed(c, "Tag", LAMBDA k : ParseTag(r, k))
  IN [ok |-> c.ok /\ AllParsed(tags), tags |-> tags]

-----------------------------------------------------------------------------
(* SeekHead. *)

(* SeekHead::ParseEntry: a SeekID and a SeekPosition and nothing else.  The
   payload of the ID is read as a size is, which takes its marker away.  *)
ParseSeekEntry(r, e) ==
  LET stop == e.pos + e.size
      c == Items(r, e.pos, stop)
      id == ReadUInt(r, c.kids[1].pos)
      position == UInt(r, c.kids[2])
  IN IF /\ c.ok /\ Len(c.kids) = 2
        /\ c.kids[1].id = Id.SeekID /\ c.kids[2].id = Id.SeekPosition
        /\ c.kids[1].size > 0 /\ c.kids[2].size > 0
        /\ id.ok /\ id.v > 0 /\ id.len = c.kids[1].size /\ position >= 0
     THEN [ok |-> TRUE, id |-> id.v, pos |-> position]
     ELSE [ok |-> FALSE, id |-> 0, pos |-> 0]

(* An entry that does not parse is left out.  *)
ParseSeekHead(r, start, size) ==
  LET c == Children(r, start, start + size)
      all == [i \in DOMAIN Named(c.kids, "Seek") |-> ParseSeekEntry(r, Named(c.kids, "Seek")[i])]
  IN [ok |-> c.ok, entries |-> SelectSeq(all, LAMBDA e : e.ok),
      voids |-> Len(Named(c.kids, "Void"))]

-----------------------------------------------------------------------------
(* Cues and CuePoint. *)

ParseTrackPosition(r, e) ==
  LET c == Items(r, e.pos, e.pos + e.size)
      track == UIntOf(r, c.kids, "CueTrack", -1)
      pos == UIntOf(r, c.kids, "CueClusterPosition", -1)
  IN [ok |-> c.ok /\ track > 0 /\ pos >= 0, track |-> track, pos |-> pos,
      block |-> UIntOf(r, c.kids, "CueBlockNumber", 1)]

LoadedCuePoint(r, e) ==
  LET c == Items(r, e.pos, e.pos + e.size)
      positions == [i \in DOMAIN Named(c.kids, "CueTrackPositions") |->
                      ParseTrackPosition(r, Named(c.kids, "CueTrackPositions")[i])]
      timecode == UIntOf(r, c.kids, "CueTime", -1)
  IN [ok |-> c.ok /\ timecode >= 0 /\ positions # <<>> /\ AllParsed(positions),
      timecode |-> timecode, positions |-> positions]

(* Cues of size bytes at start, of which nothing is read yet.  *)
NewCuesAt(start, size) ==
  [start |-> start, size |-> size, pos |-> start, init |-> FALSE,
   loaded |-> <<>>, preloaded |-> 0]

(* Cues::Init: all cue points are counted, none is read.  *)
InitCues(r, cues) ==
  LET c == Items(r, cues.start, cues.start + cues.size)
      points == Len(Named(c.kids, "CuePoint"))
  IN CASE cues.init -> [ok |-> TRUE, cues |-> cues]
       [] ~cues.init /\ (cues.loaded # <<>> \/ cues.preloaded # 0) ->
            [ok |-> FALSE, cues |-> cues]
       [] OTHER -> [ok |-> c.ok,
                    cues |-> [cues EXCEPT !.preloaded = points, !.init = points > 0]]

(* Cues::LoadCuePoint: the next cue point is read.  *)
LoadCuePoint(r, cues) ==
  LET stop == cues.start + cues.size
      counted == InitCues(r, cues)
      rest == Items(r, cues.pos, stop)
      points == Named(rest.kids, "CuePoint")
      next == Head(points)
      point == LoadedCuePoint(r, next)
      read == [counted.cues EXCEPT !.loaded = Append(@, point), !.preloaded = @ - 1,
                                   !.pos = next.pos + next.size]
  IN CASE cues.pos >= stop -> [ok |-> FALSE, cues |-> cues]
       [] cues.pos < stop /\ ~counted.ok ->
            [ok |-> FALSE, cues |-> [counted.cues EXCEPT !.pos = stop]]
       [] cues.pos < stop /\ counted.ok /\ points = <<>> ->
            [ok |-> FALSE, cues |-> [counted.cues EXCEPT !.pos = stop]]
       [] OTHER -> IF point.ok THEN [ok |-> TRUE, cues |-> read]
                   ELSE [ok |-> FALSE, cues |-> [counted.cues EXCEPT !.pos = stop]]

(* CuePoint::Find and Cues::Find: the last cue point at or before a time, and
   in it the position of a track; 0 when there is none.  *)
FindPosition(point, track) ==
  LET at == {i \in DOMAIN point.positions : point.positions[i].track = track}
  IN IF at = {} THEN 0 ELSE Min(at)

(* The code bisects the cue points, which are in the order of time; a time is
   given as a timecode.  *)
FindCue(cues, timecode, track) ==
  LET n == Len(cues.loaded)
      upTo == IF timecode <= cues.loaded[1].timecode THEN 1
              ELSE Cardinality({i \in 1 .. n : cues.loaded[i].timecode <= timecode})
      position == FindPosition(cues.loaded[upTo], track)
  IN IF timecode < 0 \/ n = 0 THEN <<>>
     ELSE IF position = 0 THEN <<>> ELSE <<upTo, position>>
=============================================================================
