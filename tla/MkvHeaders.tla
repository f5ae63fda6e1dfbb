----------------------------- MODULE MkvHeaders -----------------------------
(* The elements mkvmuxer writes around the clusters
   (src/src/libwebm/mkvmuxer.cpp): the EBML header, the segment info, tracks
   with their content encodings, chapters, tags, cue points and the seek head.

   Every element has two faces that the code keeps apart: the size it
   announces and the bytes it writes.  Both are given as lists of elements, in
   the order of the code.  *)
EXTENDS Ebml

-----------------------------------------------------------------------------
(* WriteEbmlHeader. *)

WriteEbmlHeader(w, doc_type_version) ==
  LET elements == <<U("EBMLVersion", 1), U("EBMLReadVersion", 1),
                    U("EBMLMaxIDLength", 4), U("EBMLMaxSizeLength", 8),
                    S("DocType", <<119, 101, 98, 109>>),
                    U("DocTypeVersion", doc_type_version),
                    U("DocTypeReadVersion", 2)>>
  IN WriteAll(WriteEbmlMasterElement(w, Id.EBML, SizeOf(elements)), elements)

-----------------------------------------------------------------------------
(* CuePoint and Cues. *)

NewCuePoint == [time |-> 0, track |-> 0, cluster_pos |-> 0, block_number |-> 1,
                output_block_number |-> TRUE]

CuePositionSize(c) ==
  SizeOf(<<U("CueClusterPosition", c.cluster_pos), U("CueTrack", c.track)>>
         \o If(c.output_block_number /\ c.block_number > 1,
               U("CueBlockNumber", c.block_number)))

CuePayloadSize(c) ==
  EbmlElementSize(U("CueTime", c.time))
    + WithHeader(Id.CueTrackPositions, CuePositionSize(c))

CueSize(c) == WithHeader(Id.CuePoint, CuePayloadSize(c))

WriteCuePoint(w, c) ==
  LET headed == WriteEbmlMasterElement(w, Id.CuePoint, CuePayloadSize(c))
      timed == WriteEbmlElement(headed, U("CueTime", c.time))
      place == WriteEbmlMasterElement(timed, Id.CueTrackPositions, CuePositionSize(c))
      done == WriteAll(place,
                <<U("CueTrack", c.track), U("CueClusterPosition", c.cluster_pos)>>
                \o If(c.output_block_number /\ c.block_number > 1,
                      U("CueBlockNumber", c.block_number)))
  IN IF c.track < 1 \/ c.cluster_pos < 1 THEN Fail(w)
     ELSE CheckSize(done, headed.pos, CuePayloadSize(c))

NewCues == [entries |-> <<>>, capacity |-> 0, output_block_number |-> TRUE]

(* Cues::AddCue: the array of pointers doubles when it is full.  *)
AddCue(cues, c) ==
  [cues EXCEPT
     !.entries = Append(@, [c EXCEPT !.output_block_number = cues.output_block_number]),
     !.capacity = IF Len(cues.entries) + 1 > @
                  THEN IF @ = 0 THEN 2 ELSE 2 * @ ELSE @]

CuesPayloadSize(cues) == FoldLeft(LAMBDA n, c : n + CueSize(c), 0, cues.entries)

CuesSize(cues) == WithHeader(Id.Cues, CuesPayloadSize(cues))

WriteCues(w, cues) ==
  LET headed == WriteEbmlMasterElement(w, Id.Cues, CuesPayloadSize(cues))
  IN CheckSize(WriteEach(headed, cues.entries, WriteCuePoint),
               headed.pos, CuesPayloadSize(cues))

-----------------------------------------------------------------------------
(* ContentEncAESSettings and ContentEncoding. *)

kCTR == 1

NewContentEncoding ==
  [enc_algo |-> 5, enc_key_id |-> Null, encoding_order |-> 0,
   encoding_scope |-> 1, encoding_type |-> 1, cipher_mode |-> kCTR]

AesPayloadSize(e) == SizeOf(<<U("AESSettingsCipherMode", e.cipher_mode)>>)

WriteAesSettings(w, e) ==
  LET headed == WriteEbmlMasterElement(w, Id.ContentEncAESSettings, AesPayloadSize(e))
  IN CheckSize(WriteEbmlElement(headed, U("AESSettingsCipherMode", e.cipher_mode)),
               headed.pos, AesPayloadSize(e))

SetEncryptionID(e, id) ==
  IF id \in {Null, <<>>} THEN e ELSE [e EXCEPT !.enc_key_id = id]

EncryptionSize(e) ==
  SizeOf(<<B("ContentEncKeyID", e.enc_key_id), U("ContentEncAlgo", e.enc_algo)>>)
    + WithHeader(Id.ContentEncAESSettings, AesPayloadSize(e))

EncodingSize(e, encryption_size) ==
  (IF encryption_size > 0 THEN WithHeader(Id.ContentEncryption, encryption_size)
                          ELSE 0)
  + SizeOf(<<U("ContentEncodingType", e.encoding_type),
             U("ContentEncodingScope", e.encoding_scope),
             U("ContentEncodingOrder", e.encoding_order)>>)

ContentEncodingSize(e) ==
  WithHeader(Id.ContentEncoding, EncodingSize(e, EncryptionSize(e)))

(* The payload is checked from before the header.  *)
WriteContentEncoding(w, e) ==
  LET size == EncodingSize(e, EncryptionSize(e))
      encoding == WriteAll(WriteEbmlMasterElement(w, Id.ContentEncoding, size),
                    <<U("ContentEncodingOrder", e.encoding_order),
                      U("ContentEncodingScope", e.encoding_scope),
                      U("ContentEncodingType", e.encoding_type)>>)
      encryption == WriteAll(
                      WriteEbmlMasterElement(encoding, Id.ContentEncryption,
                                             EncryptionSize(e)),
                      <<U("ContentEncAlgo", e.enc_algo),
                        B("ContentEncKeyID", e.enc_key_id)>>)
  IN CheckSize(WriteAesSettings(encryption, e), w.pos,
               WithHeader(Id.ContentEncoding, size))

-----------------------------------------------------------------------------
(* Track, VideoTrack, AudioTrack. *)

kVideo == 1
kAudio == 2
kSubtitles == 17

NewTrack(uid) ==
  [codec_id |-> Null, codec_private |-> Null, language |-> Null, name |-> Null,
   max_block_additional_id |-> 0, number |-> 0, type |-> 0, uid |-> uid,
   codec_delay |-> 0, seek_pre_roll |-> 0, default_duration |-> 0,
   encodings |-> <<>>, media |-> "none"]

NewVideoTrack(uid) ==
  [media |-> "video",
   display_height |-> 0, display_width |-> 0, crop_left |-> 0, crop_right |-> 0,
   crop_top |-> 0, crop_bottom |-> 0, frame_rate |-> 0, height |-> 0,
   stereo_mode |-> 0, alpha_mode |-> 0, width |-> 0] @@ NewTrack(uid)

NewAudioTrack(uid) ==
  [media |-> "audio", bit_depth |-> 0, channels |-> 1, sample_rate |-> 0]
    @@ NewTrack(uid)

AddContentEncoding(t) ==
  [t EXCEPT !.encodings = Append(@, NewContentEncoding)]

(* A setter that is given NULL, or no bytes, leaves what is there.  *)
SetCodecPrivate(t, data) ==
  IF data \in {Null, <<>>} THEN t ELSE [t EXCEPT !.codec_private = data]

set_codec_id(t, s) == IF s = Null THEN t ELSE [t EXCEPT !.codec_id = s]
set_language(t, s) == IF s = Null THEN t ELSE [t EXCEPT !.language = s]
set_name(t, s) == IF s = Null THEN t ELSE [t EXCEPT !.name = s]

kMono == 0
kSideBySideLeftIsFirst == 1
kTopBottomRightIsFirst == 2
kTopBottomLeftIsFirst == 3
kSideBySideRightIsFirst == 11

SetStereoMode(t, mode) ==
  IF mode \in {kMono, kSideBySideLeftIsFirst, kTopBottomRightIsFirst,
               kTopBottomLeftIsFirst, kSideBySideRightIsFirst}
  THEN [t EXCEPT !.stereo_mode = mode] ELSE t

SetAlphaMode(t, mode) == IF mode \in {0, 1} THEN [t EXCEPT !.alpha_mode = mode] ELSE t

(* The two faces of the part all tracks share; the encodings follow.  *)
TrackValuesSize(t) ==
  SizeOf(<<U("TrackNumber", t.number), U("TrackUID", t.uid), U("TrackType", t.type),
           S("CodecID", t.codec_id), B("CodecPrivate", t.codec_private),
           S("Language", t.language), S("Name", t.name)>>
    \o If(t.max_block_additional_id # 0,
          U("MaxBlockAdditionID", t.max_block_additional_id))
    \o If(t.codec_delay # 0, U("CodecDelay", t.codec_delay))
    \o If(t.seek_pre_roll # 0, U("SeekPreRoll", t.seek_pre_roll))
    \o If(t.default_duration # 0, U("DefaultDuration", t.default_duration)))

EncodingsSize(t) ==
  FoldLeft(LAMBDA n, e : n + ContentEncodingSize(e), 0, t.encodings)

TrackPayloadSize(t) ==
  TrackValuesSize(t)
    + (IF t.encodings = <<>> THEN 0
       ELSE WithHeader(Id.ContentEncodings, EncodingsSize(t)))

VideoPayloadSize(t) ==
  SizeOf(<<U("PixelWidth", t.width), U("PixelHeight", t.height)>>
    \o If(t.display_width > 0, U("DisplayWidth", t.display_width))
    \o If(t.display_height > 0, U("DisplayHeight", t.display_height))
    \o If(t.crop_left > 0, U("PixelCropLeft", t.crop_left))
    \o If(t.crop_right > 0, U("PixelCropRight", t.crop_right))
    \o If(t.crop_top > 0, U("PixelCropTop", t.crop_top))
    \o If(t.crop_bottom > 0, U("PixelCropBottom", t.crop_bottom))
    \o If(t.stereo_mode > kMono, U("StereoMode", t.stereo_mode))
    \o If(t.alpha_mode > 0, U("AlphaMode", t.alpha_mode))
    \o If(t.frame_rate > 0, F("FrameRate", t.frame_rate)))

AudioPayloadSize(t) ==
  SizeOf(<<F("SamplingFrequency", t.sample_rate), U("Channels", t.channels)>>
    \o If(t.bit_depth > 0, U("BitDepth", t.bit_depth)))

(* PayloadSize is virtual.  *)
PayloadSize(t) ==
  TrackPayloadSize(t)
    + CASE t.media = "video" -> WithHeader(Id.Video, VideoPayloadSize(t))
        [] t.media = "audio" -> WithHeader(Id.Audio, AudioPayloadSize(t))
        [] t.media = "none" -> 0

TrackSize(t) == WithHeader(Id.TrackEntry, PayloadSize(t))

(* Only the values are checked against their size, not the encodings.  *)
WriteTrack(w, t) ==
  LET headed == WriteEbmlMasterElement(w, Id.TrackEntry, PayloadSize(t))
      values == WriteAll(headed,
        <<U("TrackNumber", t.number), U("TrackUID", t.uid), U("TrackType", t.type)>>
        \o If(t.max_block_additional_id # 0,
              U("MaxBlockAdditionID", t.max_block_additional_id))
        \o If(t.codec_delay # 0, U("CodecDelay", t.codec_delay))
        \o If(t.seek_pre_roll # 0, U("SeekPreRoll", t.seek_pre_roll))
        \o If(t.default_duration # 0, U("DefaultDuration", t.default_duration))
        \o <<S("CodecID", t.codec_id)>>
        \o If(t.codec_private # Null, B("CodecPrivate", t.codec_private))
        \o If(t.language # Null, S("Language", t.language))
        \o If(t.name # Null, S("Name", t.name)))
      checked == CheckSize(values, headed.pos, TrackValuesSize(t))
  IN CASE t.type = 0 \/ t.codec_id = Null -> Fail(w)
       [] t.type # 0 /\ t.codec_id # Null /\ t.encodings = <<>> -> checked
       [] OTHER ->
            FoldLeft(WriteContentEncoding,
                     WriteEbmlMasterElement(checked, Id.ContentEncodings,
                                            EncodingsSize(t)),
                     t.encodings)

WriteVideoTrack(w, t) ==
  LET headed == WriteEbmlMasterElement(WriteTrack(w, t), Id.Video, VideoPayloadSize(t))
  IN CheckSize(
       WriteAll(headed,
         <<U("PixelWidth", t.width), U("PixelHeight", t.height)>>
         \o If(t.display_width > 0, U("DisplayWidth", t.display_width))
         \o If(t.display_height > 0, U("DisplayHeight", t.display_height))
         \o If(t.crop_left > 0, U("PixelCropLeft", t.crop_left))
         \o If(t.crop_right > 0, U("PixelCropRight", t.crop_right))
         \o If(t.crop_top > 0, U("PixelCropTop", t.crop_top))
         \o If(t.crop_bottom > 0, U("PixelCropBottom", t.crop_bottom))
         \o If(t.stereo_mode > kMono, U("StereoMode", t.stereo_mode))
         \o If(t.alpha_mode > 0, U("AlphaMode", t.alpha_mode))
         \o If(t.frame_rate > 0, F("FrameRate", t.frame_rate))),
       headed.pos, VideoPayloadSize(t))

WriteAudioTrack(w, t) ==
  LET headed == WriteEbmlMasterElement(WriteTrack(w, t), Id.Audio, AudioPayloadSize(t))
  IN CheckSize(
       WriteAll(headed,
         <<F("SamplingFrequency", t.sample_rate), U("Channels", t.channels)>>
         \o If(t.bit_depth > 0, U("BitDepth", t.bit_depth))),
       headed.pos, AudioPayloadSize(t))

-----------------------------------------------------------------------------
(* Tracks. *)

NewTracks == [entries |-> <<>>, wrote_tracks |-> FALSE]

kMaxTrackNumber == 126

(* A number of 0 asks for the first free one from the count up.  *)
AddTrack(tracks, track, number) ==
  LET used == {tracks.entries[i].number : i \in 1 .. Len(tracks.entries)}
      count == Len(tracks.entries) + 1
      free == CHOOSE n \in count .. 2 * count :
                n \notin used /\ \A m \in count .. n - 1 : m \in used
      refused == \/ number \notin 0 .. kMaxTrackNumber
                 \/ tracks.wrote_tracks
                 \/ number # 0 /\ number \in used
  IN IF refused THEN [ok |-> FALSE, tracks |-> tracks]
     ELSE [ok |-> TRUE,
           tracks |-> [tracks EXCEPT !.entries =
             Append(@, [track EXCEPT !.number = IF number = 0 THEN free ELSE number])]]

(* GetTrackByNumber: the index of the track, or 0.  *)
TrackByNumber(tracks, number) ==
  LET found == {i \in 1 .. Len(tracks.entries) : tracks.entries[i].number = number}
  IN IF found = {} THEN 0 ELSE Min(found)

TrackIs(tracks, number, type) ==
  tracks.entries[TrackByNumber(tracks, number)].type = type

WriteAnyTrack(w, t) ==
  CASE t.media = "video" -> WriteVideoTrack(w, t)
    [] t.media = "audio" -> WriteAudioTrack(w, t)
    [] t.media = "none" -> WriteTrack(w, t)

(* Written tracks are marked so that none is added.  *)
TracksSize(tracks) == FoldLeft(LAMBDA n, t : n + TrackSize(t), 0, tracks.entries)

WriteTracks(w, tracks) ==
  LET headed == WriteEbmlMasterElement(w, Id.Tracks, TracksSize(tracks))
  IN CheckSize(WriteEach(headed, tracks.entries, WriteAnyTrack),
               headed.pos, TracksSize(tracks))

-----------------------------------------------------------------------------
(* Chapters. *)

NewChapter(uid) ==
  [id |-> Null, start_timecode |-> 0, end_timecode |-> 0, uid |-> uid,
   displays |-> <<>>, displays_size |-> 0]

set_time(chapter, timecode_scale, start_ns, end_ns) ==
  [chapter EXCEPT !.start_timecode = start_ns \div timecode_scale,
                  !.end_timecode = end_ns \div timecode_scale]

(* ExpandDisplaysArray, ExpandChaptersArray, ExpandTagsArray and
   ExpandSimpleTagsArray: room for one more, doubled when there is none.  *)
Expanded(size, count) ==
  CASE size > count -> size
    [] size <= count /\ size = 0 -> 1
    [] OTHER -> 2 * size

add_string(chapter, title, language, country) ==
  [chapter EXCEPT
     !.displays = Append(@, [title |-> title, language |-> language, country |-> country]),
     !.displays_size = Expanded(@, Len(chapter.displays))]

DisplayPayloadSize(d) ==
  SizeOf(<<S("ChapString", d.title), S("ChapLanguage", d.language),
           S("ChapCountry", d.country)>>)

(* WriteDisplay, WriteAtom, WriteEdition, Tag::Write and SimpleTag::Write
   return the size alone when they are given no writer.  *)
DisplaySize(d) == WithHeader(Id.ChapterDisplay, DisplayPayloadSize(d))

WriteDisplay(w, d) ==
  LET headed == WriteEbmlMasterElement(w, Id.ChapterDisplay, DisplayPayloadSize(d))
  IN CheckSize(
       WriteAll(headed, <<S("ChapString", d.title)>>
                        \o If(d.language # Null, S("ChapLanguage", d.language))
                        \o If(d.country # Null, S("ChapCountry", d.country))),
       w.pos, DisplaySize(d))

ChapterPayloadSize(c) ==
  SizeOf(<<S("ChapterStringUID", c.id), U("ChapterUID", c.uid),
           U("ChapterTimeStart", c.start_timecode),
           U("ChapterTimeEnd", c.end_timecode)>>)
    + FoldLeft(LAMBDA n, d : n + DisplaySize(d), 0, c.displays)

AtomSize(c) == WithHeader(Id.ChapterAtom, ChapterPayloadSize(c))

WriteAtom(w, c) ==
  LET values == WriteAll(
                  WriteEbmlMasterElement(w, Id.ChapterAtom, ChapterPayloadSize(c)),
                  <<S("ChapterStringUID", c.id), U("ChapterUID", c.uid),
                    U("ChapterTimeStart", c.start_timecode),
                    U("ChapterTimeEnd", c.end_timecode)>>)
  IN CheckSize(WriteEach(values, c.displays, WriteDisplay), w.pos, AtomSize(c))

NewChapters == [entries |-> <<>>, size |-> 0]

AddChapter(chapters, chapter) ==
  [entries |-> Append(chapters.entries, chapter),
   size |-> Expanded(chapters.size, Len(chapters.entries))]

EditionPayloadSize(chapters) ==
  FoldLeft(LAMBDA n, c : n + AtomSize(c), 0, chapters.entries)

EditionSize(chapters) == WithHeader(Id.EditionEntry, EditionPayloadSize(chapters))

WriteEdition(w, chapters) ==
  LET headed == WriteEbmlMasterElement(w, Id.EditionEntry, EditionPayloadSize(chapters))
  IN CheckSize(WriteEach(headed, chapters.entries, WriteAtom), w.pos,
               EditionSize(chapters))

WriteChapters(w, chapters) ==
  LET headed == WriteEbmlMasterElement(w, Id.Chapters, EditionSize(chapters))
  IN CheckSize(WriteEdition(headed, chapters), headed.pos, EditionSize(chapters))

-----------------------------------------------------------------------------
(* Tags. *)

NewTag == [simple_tags |-> <<>>, size |-> 0]

add_simple_tag(tag, name, string) ==
  [simple_tags |-> Append(tag.simple_tags, [name |-> name, string |-> string]),
   size |-> Expanded(tag.size, Len(tag.simple_tags))]

SimpleTagPayloadSize(t) == SizeOf(<<S("TagName", t.name), S("TagString", t.string)>>)

SimpleTagSize(t) == WithHeader(Id.SimpleTag, SimpleTagPayloadSize(t))

WriteSimpleTag(w, t) ==
  CheckSize(
    WriteAll(WriteEbmlMasterElement(w, Id.SimpleTag, SimpleTagPayloadSize(t)),
             <<S("TagName", t.name), S("TagString", t.string)>>),
    w.pos, SimpleTagSize(t))

TagPayloadSize(tag) ==
  FoldLeft(LAMBDA n, t : n + SimpleTagSize(t), 0, tag.simple_tags)

TagSize(tag) == WithHeader(Id.Tag, TagPayloadSize(tag))

WriteTag(w, tag) ==
  CheckSize(FoldLeft(WriteSimpleTag,
                     WriteEbmlMasterElement(w, Id.Tag, TagPayloadSize(tag)),
                     tag.simple_tags),
            w.pos, TagSize(tag))

NewTags == [entries |-> <<>>, size |-> 0]

AddTag(tags, tag) ==
  [entries |-> Append(tags.entries, tag),
   size |-> Expanded(tags.size, Len(tags.entries))]

TagsSize(tags) == FoldLeft(LAMBDA n, t : n + TagSize(t), 0, tags.entries)

WriteTags(w, tags) ==
  LET headed == WriteEbmlMasterElement(w, Id.Tags, TagsSize(tags))
  IN CheckSize(WriteEach(headed, tags.entries, WriteTag), headed.pos, TagsSize(tags))

-----------------------------------------------------------------------------
(* SeekHead. *)

kSeekEntryCount == 5

NewSeekHead ==
  [start_pos |-> 0, entries |-> [i \in 1 .. kSeekEntryCount |-> [id |-> 0, pos |-> 0]]]

SeekEntrySize(e) == SizeOf(<<U("SeekID", e.id), U("SeekPosition", e.pos)>>)

(* MaxEntrySize: an ID of four bytes and a position of eight.  *)
MaxEntrySize ==
  LET payload == (2 + 1 + 4) + (2 + 1 + 8) IN WithHeader(Id.Seek, payload)

SeekHeadRoom == WithHeader(Id.SeekHead, kSeekEntryCount * MaxEntrySize)

(* SeekHead::Write keeps its place with a Void.  *)
WriteSeekHead(w, s) ==
  [w |-> WriteVoidElement(w, SeekHeadRoom), seek_head |-> [s EXCEPT !.start_pos = w.pos]]

(* AddSeekEntry: the first free entry; SeekFull says that there is none.  *)
SeekFull(s) == \A i \in 1 .. kSeekEntryCount : s.entries[i].id # 0

AddSeekEntry(s, id, pos) ==
  LET free == {i \in 1 .. kSeekEntryCount : s.entries[i].id = 0}
  IN IF free = {} THEN s ELSE [s EXCEPT !.entries[Min(free)] = [id |-> id, pos |-> pos]]

SetSeekEntry(s, index, id, pos) == [s EXCEPT !.entries[index] = [id |-> id, pos |-> pos]]

WriteSeekEntry(w, e) ==
  WriteAll(WriteEbmlMasterElement(w, Id.Seek, SeekEntrySize(e)),
           <<U("SeekID", e.id), U("SeekPosition", e.pos)>>)

(* SeekHead::Finalize: the entries over the Void, and a Void after them.  *)
FinalizeSeekHead(w, s) ==
  LET used == SelectSeq(s.entries, LAMBDA e : e.id # 0)
      payload == FoldLeft(LAMBDA n, e : n + WithHeader(Id.Seek, SeekEntrySize(e)), 0, used)
      headed == WriteEbmlMasterElement(SeekTo(w, s.start_pos), Id.SeekHead, payload)
      written == WriteEach(headed, used, WriteSeekEntry)
      left == SeekHeadRoom - (written.pos - s.start_pos)
  IN IF payload = 0 \/ ~w.ok THEN w
     ELSE SeekTo(WriteVoidElement(written, left), w.pos)

-----------------------------------------------------------------------------
(* SegmentInfo. *)

NoDate == -1   \* LLONG_MIN

NewSegmentInfo ==
  [duration |-> -1, muxing_app |-> Null, timecode_scale |-> 1000000,
   writing_app |-> Null, date_utc |-> NoDate, duration_pos |-> -1]

(* "libwebm-0.2.1.0", of GetVersion's numbers.  *)
LibraryName == <<108, 105, 98, 119, 101, 98, 109, 45, 48, 46, 50, 46, 49, 46, 48>>

InitSegmentInfo(info) ==
  [info EXCEPT !.muxing_app = LibraryName, !.writing_app = LibraryName]

SegmentInfoSize(info) ==
  SizeOf(<<U("TimecodeScale", info.timecode_scale)>>
    \o If(info.duration > 0, F("Duration", info.duration))
    \o If(info.date_utc # NoDate, D("DateUTC", info.date_utc))
    \o <<S("MuxingApp", info.muxing_app), S("WritingApp", info.writing_app)>>)

(* duration_pos_ is where FinalizeSegmentInfo writes the duration again; what
   writing the date returns is not looked at.  *)
WriteSegmentInfo(w, info) ==
  LET size == SegmentInfoSize(info)
      headed == WriteEbmlMasterElement(w, Id.Info, size)
      scaled == WriteEbmlElement(headed, U("TimecodeScale", info.timecode_scale))
      timed == WriteAll(scaled, If(info.duration > 0, F("Duration", info.duration)))
      dated == WriteAll(timed, If(info.date_utc # NoDate, D("DateUTC", info.date_utc)))
      named == WriteAll([dated EXCEPT !.ok = timed.ok],
                        <<S("MuxingApp", info.muxing_app),
                          S("WritingApp", info.writing_app)>>)
  IN IF Null \in {info.muxing_app, info.writing_app}
     THEN [w |-> Fail(w), info |-> info]
     ELSE [w |-> CheckSize(named, headed.pos, size),
           info |-> IF info.duration > 0 /\ scaled.ok
                    THEN [info EXCEPT !.duration_pos = scaled.pos] ELSE info]

(* Variant: the duration is not put over its placeholder.  *)
FinalizeSegmentInfoHere(w, info) ==
  IF info.duration <= 0 THEN w ELSE WriteEbmlElement(w, F("Duration", info.duration))

FinalizeSegmentInfo(w, info) ==
  CASE info.duration <= 0 -> w
    [] info.duration > 0 /\ info.duration_pos = -1 -> Fail(w)
    [] OTHER -> SeekTo(WriteEbmlElement(SeekTo(w, info.duration_pos),
                                        F("Duration", info.duration)), w.pos)
=============================================================================
