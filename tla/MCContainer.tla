---------------------------- MODULE MCContainer ----------------------------
(* The instances of MkvClient and CaptionClient that TLC checks. *)
EXTENDS CaptionClient

(* TLC's coverage follows an operator into all it calls, at every call, except
   through a constant that a LET expression defines: the library's calls are
   constants of the client for that reason only.  *)
MCMux(call, s, x) ==
  LET result == CASE call = "AddFrame" -> AddGenericFrame(s, x)
                  [] call = "Finalize" -> Finalize(s)
                  [] call = "MoveCues" -> CopyAndMoveCuesBeforeClusters(s, x)
  IN result

RECURSIVE AllCuePoints(_, _)
AllCuePoints(file, c) ==
  LET l == R!LoadCuePoint(file, c) IN IF l.ok THEN AllCuePoints(file, l.cues) ELSE c

MCParse(call, file, s, x) ==
  LET result ==
        CASE call = "EBMLHeader" -> R!ParseEbmlHeader(file)
          [] call = "CreateInstance" -> R!CreateInstance(file, x)
          [] call = "ParseHeaders" -> R!ParseHeaders(file, s)
          [] call = "LoadCluster" -> R!LoadCluster(file, s)
          [] call = "ParseCluster" -> R!ParseAll(file, s.clusters[x])
          [] call = "Cues" -> AllCuePoints(file, s.cues[1]).loaded
          [] call = "GetBlock" -> R!GetBlock(file, s, x[1], x[2])
          [] call = "FindCue" -> R!FindCue([loaded |-> s], x[1], x[2])
          [] call = "GetFirst" -> R!GetFirst(file, s, x)
          [] call = "GetNext" -> R!GetNextEntry(file, s, x[1], x[2], x[3])
          [] call = "ParseNext" -> R!ParseNext(file, s, x)
          [] call = "FindCluster" -> R!FindCluster(file, s, x)
          [] call = "Timecode" -> R!Load(file, s.clusters[x]).cluster.timecode
          [] call = "Block" -> R!ParseBlock(file, 0, x)
          [] call = "Seek" -> R!Seek(file, s, x[1], x[2])
  IN result

Demuxer == INSTANCE VttDemux

MCCaptions(call, x) ==
  LET result == CASE call = "Demux" -> Demuxer!Demux(x)
                  [] call = "Init" -> Demuxer!V!Init(x)
                  [] call = "Parse" -> Demuxer!V!Parse(x)
                  [] call = "Time" -> Demuxer!V!ParseTime(Demuxer!CueTime(x), 1).time
                  [] call = "Plus" -> Demuxer!V!Plus(x[1], x[2])
                  [] call = "Minus" -> Demuxer!V!Minus(x[1], x[2])
                  [] call = "Distance" -> Demuxer!V!Distance(x[1], x[2])
                  [] call = "Before" -> Demuxer!V!Before(x[1], x[2])
  IN result

Entry(track, delta, key, kind, length) ==
  [track |-> track, delta |-> delta, key |-> key, kind |-> kind, length |-> length]

(* Segments whose tracks are set up. *)
Plain(mode, size) == NewSegment(Room, mode, TRUE, size, 0)
Video(s) == AddVideoTrack(s, 200, 320, 128, 0)
Audio(s) == AddAudioTrack(s, 100, 48000, 2, 2)
Scaled(s, scale) == [s EXCEPT !.info.timecode_scale = scale]

AllLooks == {"cue", "first", "next", "seek", "after", "find"}

Base ==
  [first |-> "write", seg |-> Video(Plain(kFile, 0)), setup |-> 0,
   menu |-> {Entry(1, 0, TRUE, "plain", 1)}, frames |-> 1, move |-> FALSE,
   steps |-> {}, total |-> TRUE, looks |-> {}, walk |-> 1, times |-> {}, laces |-> {},
   captions |-> {}, stamps |-> {}]

Other(s) == AddAnyTrack(s, set_codec_id([NewTrack(3) EXCEPT !.type = kSubtitles],
                                        <<68, 95, 86>>), 0)

(* Whatever is set up, with a single frame. *)
Headers ==
  [Base EXCEPT
     !.first = "setup", !.seg = Plain(kFile, 0), !.setup = 2,
     !.menu = {Entry(1, 0, TRUE, "plain", 123), Entry(127, 0, TRUE, "plain", 1)}]

(* Video and another track, frames of every kind, in clusters of few bytes. *)
Kinds ==
  [Base EXCEPT
     !.seg = Other(Video(Plain(kFile, 30))), !.frames = 3, !.looks = AllLooks,
     !.menu = {Entry(1, 40, TRUE, "plain", 3), Entry(1, 40, FALSE, "plain", 40),
               Entry(1, 40, FALSE, "additional", 2), Entry(2, 0, TRUE, "metadata", 2)},
     !.times = {100}]

(* A file that arrives byte by byte. *)
Bytewise ==
  [Base EXCEPT
     !.seg = Other(Video(Plain(kFile, 0))), !.frames = 2, !.steps = {1},
     !.menu = {Entry(1, 40, TRUE, "additional", 2)}]

(* A file that arrives in pieces while it is looked into. *)
Pieces ==
  [Base EXCEPT
     !.seg = Other(Video(Plain(kFile, 0))), !.frames = 3, !.steps = {85, 90},
     !.looks = AllLooks, !.move = TRUE,
     !.menu = {Entry(1, 40, TRUE, "plain", 3), Entry(2, 0, TRUE, "metadata", 2)},
     !.times = {70}]

(* A live stream, of clusters whose sizes are not known; the length of the file
   is known, or it is not. *)
Live(total) ==
  [Base EXCEPT
     !.seg = Other(Video(Plain(kLive, 30))), !.frames = 3, !.steps = {45, 150},
     !.total = total, !.looks = AllLooks,
     !.menu = {Entry(1, 40, TRUE, "plain", 3), Entry(1, 40, FALSE, "plain", 40),
               Entry(2, 0, TRUE, "metadata", 2)},
     !.times = {0, 70}]

(* Audio alone: padding, and times far apart. *)
Far ==
  [Base EXCEPT
     !.seg = Audio(Scaled(Plain(kFile, 0), 1000)), !.frames = 3, !.looks = AllLooks,
     !.menu = {Entry(2, 0, TRUE, "padding", 1), Entry(2, 32767, FALSE, "plain", 2),
               Entry(2, 32768, TRUE, "plain", 2)},
     !.walk = 2, !.times = {32767}]

(* So many cues that moving them makes them grow. *)
Growing ==
  [Base EXCEPT
     !.menu = {Entry(1, 20, TRUE, "plain", 8)}, !.frames = 12, !.move = TRUE,
     !.times = {50}]

(* A device that is full at some point. *)
Full(room) ==
  [Base EXCEPT
     !.seg = Video(NewSegment(room, kFile, TRUE, 0, 0)), !.frames = 2,
     !.menu = {Entry(1, 40, TRUE, "plain", 3)}, !.move = TRUE]

(* Blocks of several frames.  *)
Laced == [Base EXCEPT !.first = "lace",
                      !.laces = UNION {[1 .. n -> {1, 64, 126, 127, 128, 255, 510}] : n \in 2 .. 3}]

(* Captions in two tracks of a kind and in one of another, and chapters.  *)
CaptionTrack(s, number, kind) ==
  AddAnyTrack(s, set_codec_id([NewTrack(number) EXCEPT !.type = kSubtitles],
                              Demuxer!kWebVtt \o Demuxer!Kind[kind]), number)

Chaptered(s) ==
  LET c(uid, id) == set_time([NewChapter(uid) EXCEPT !.id = id],
                             s.info.timecode_scale, 0, 150000000)
      titled(x) == add_string(x, <<65, 66>>, Null, Null)
  IN [s EXCEPT !.chapters = AddChapter(AddChapter(@, titled(c(100, <<99>>))),
                                       titled(c(101, <<100>>)))]

Caption(track, delta, lasts, identifier, settings, payload, ends) ==
  [track |-> track, delta |-> delta, lasts |-> lasts,
   cue |-> [identifier |-> identifier, settings |-> settings, payload |-> payload,
            ends |-> ends]]

Setting(name, value) == [name |-> name, value |-> value]

CaptionTracks ==
  CaptionTrack(CaptionTrack(CaptionTrack(Video(Chaptered(Plain(kFile, 0))), 2, "CAPTIONS"),
                            3, "CAPTIONS"), 4, "METADATA")

Captioned ==
  [Base EXCEPT
     !.seg = CaptionTracks, !.frames = 3,
     !.captions =
       {Caption(2, 300, 400, <<>>, <<>>, <<<<97>>>>, <<<<>>>>),
        Caption(2, 1, 5, <<97, 32, 98>>, <<Setting(<<97>>, <<98>>)>>,
                <<<<97, 98>>, <<99>>>>, <<<<13, 10>>, <<13>>>>),
        Caption(3, 0, 600, <<>>, <<Setting(<<97, 98>>, <<53, 37>>), Setting(<<99>>, <<100>>)>>,
                <<<<97>>, <<45, 45>>>>, <<<<13>>, <<>>>>),
        Caption(4, 3, 95, <<50>>, <<>>, <<<<97>>>>, <<<<10>>>>)}]

Stamped ==
  [Base EXCEPT
     !.first = "time",
     !.stamps = {0, 1, 10, 99, 100, 999, 1000, 59999, 60000, 61500, 3599999, 3600000,
                 3661250, 36000100, 359999999, 360000000}]

MCConfs ==
  {Headers, Kinds, Bytewise, Pieces, Live(TRUE), Live(FALSE), Far, Growing, Laced,
   Captioned, Stamped}
    \cup {Full(room) : room \in {40, 200, 300}}
=============================================================================
