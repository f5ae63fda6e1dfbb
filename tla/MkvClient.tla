------------------------------ MODULE MkvClient ------------------------------
(* A program that writes a WebM file with mkvmuxer, may move its cues to the
   front, and reads it with mkvparser while its bytes arrive: all that is read
   must be what was written.

   A configuration says what is written and how it is read: the first stage, the
   segment before the first call, how many calls may set it up, the frames to choose from and
   how many, whether the cues are moved, in what steps the bytes arrive, whether
   the reader knows the file's size, which track is walked and which times are
   sought.  The n-th frame's bytes are all n, so a block tells which frame it
   is.  *)
EXTENDS MkvFile

CONSTANTS
  Confs,
  Mux(_, _, _),           \* a call of mkvmuxer: which one, the segment, its argument
  ParserCall(_, _, _, _)  \* a call of mkvparser: which one, the reader, the segment, its argument

R == INSTANCE MkvReading

VARIABLES
  conf,      \* the configuration
  stage,     \* "setup", "write", "failed", "final", "moved", "read"; or another
  seg,       \* the writer's segment
  log,       \* the frames that were accepted
  r,         \* the reader: the file, its size and how much of it has arrived
  phase,     \* the reader's next call: "ebml", "create", "headers", "load"; or how it
             \* ended: "end", "bad", "aborted"
  at,        \* where the reader's next call begins
  parsed,    \* the parser's segment, once there is one
  last       \* the last call of the reader, its result and the block it found

writerVars == <<seg, log>>
readerVars == <<r, phase, at, parsed, last>>
clientVars == <<conf, stage, seg, log, r, phase, at, parsed, last>>

NoFile == [bytes |-> <<>>, total |-> 0, avail |-> 0]
Call(op, result) ==
  [op |-> op, s |-> result.s, wanted |-> result.wanted, cluster |-> 0, at |-> 0,
   from |-> 0, track |-> 0, time |-> 0, ahead |-> FALSE, arrived |-> FALSE,
   whole |-> FALSE]
NoCall == Call("none", [s |-> "ok", wanted |-> 0])

Init ==
  /\ conf \in Confs
  /\ stage = conf.first
  /\ seg = conf.seg /\ log = <<>>
  /\ r = NoFile /\ phase = "ebml" /\ at = 0 /\ parsed = <<>> /\ last = NoCall

-----------------------------------------------------------------------------
(* Setting up. *)

Calls == Len(seg.tracks.entries) + Len(seg.chapters.entries) + Len(seg.tags.entries)

CanSetUp ==
  /\ stage = "setup" /\ Calls < conf.setup
  /\ UNCHANGED <<conf, stage, log, readerVars>>

SetUpVideo ==
  /\ CanSetUp
  /\ \E number \in {0, 2, 127} : seg' = AddVideoTrack(seg, 200, 320, 128, number)

SetUpAudio ==
  /\ CanSetUp
  /\ \E number \in {0, 2} : seg' = AddAudioTrack(seg, 70000, 48000, 2, number)

(* A track of another kind.  *)
SetUpOther ==
  /\ CanSetUp
  /\ seg' = AddAnyTrack(seg, set_codec_id([NewTrack(3) EXCEPT !.type = kSubtitles],
                                          <<68, 95, 86>>), 0)

Encrypted(t, id) ==
  [AddContentEncoding(t) EXCEPT !.encodings =
     [i \in DOMAIN @ |-> IF i = Len(@) THEN SetEncryptionID(@[i], id) ELSE @[i]]]

(* A track with one more thing set.  *)
Settings(t) ==
  {set_name(t, <<110, 97>>), set_language(t, <<101, 110, 103>>),
   SetCodecPrivate(t, [i \in 1 .. 130 |-> i % 256]), SetCodecPrivate(t, Null),
   Encrypted(t, <<7>>), Encrypted(Encrypted(t, <<7>>), <<8, 9>>), Encrypted(t, Null),
   [t EXCEPT !.codec_delay = 6500, !.seek_pre_roll = 80000000],
   [t EXCEPT !.default_duration = 33333, !.max_block_additional_id = 1]}
  \cup (IF t.media # "video" THEN {}
        ELSE {[t EXCEPT !.display_width = 640, !.display_height = 255],
              [t EXCEPT !.crop_left = 1, !.crop_right = 2, !.crop_top = 3, !.crop_bottom = 256],
              [SetAlphaMode(SetStereoMode(t, kSideBySideRightIsFirst), 1)
                 EXCEPT !.frame_rate = 30]})
  \cup (IF t.media # "audio" THEN {} ELSE {[t EXCEPT !.bit_depth = 16]})

SetUpTrack ==
  /\ stage = "setup" /\ seg.tracks.entries # <<>>
  /\ LET n == Len(seg.tracks.entries)
     IN /\ seg.tracks.entries[n].max_block_additional_id = 0
        /\ \E t \in Settings(seg.tracks.entries[n]) :
             seg' = [seg EXCEPT !.tracks.entries[n] = t]
  /\ UNCHANGED <<conf, log, readerVars>>
  /\ stage' = "write"

SetUpChapter ==
  /\ CanSetUp
  /\ \E uid \in {100, 200} :
       LET c == set_time([NewChapter(uid) EXCEPT !.id = <<99>>],
                         seg.info.timecode_scale, 0, 3000000)
       IN \E full \in {add_string(c, <<65, 66>>, Null, Null),
                       add_string(add_string(c, <<65>>, <<101, 110, 103>>, Null),
                                  [i \in 1 .. 60 |-> 66], <<102, 114>>, <<67>>)} :
            seg' = [seg EXCEPT !.chapters = AddChapter(@, full)]

SetUpTag ==
  /\ CanSetUp
  /\ \E length \in {1, 126} :
       LET tag == add_simple_tag(NewTag, <<84>>, [i \in 1 .. length |-> 65])
       IN \E full \in {tag, add_simple_tag(tag, <<85, 86>>, <<66>>)} :
            seg' = [seg EXCEPT !.tags = AddTag(@, full)]

EndSetUp ==
  /\ stage = "setup" /\ seg.tracks.entries # <<>>
  /\ stage' = "write"
  /\ UNCHANGED <<conf, writerVars, readerVars>>

-----------------------------------------------------------------------------
(* Writing. *)

Bytes(n, length) == [i \in 1 .. length |-> n]

(* The next frame, by its entry in the menu.  *)
Made(m) ==
  LET n == Len(log) + 1
      time == (m.delta + (IF log = <<>> THEN 0 ELSE Last(log).timecode))
                * seg.info.timecode_scale
      data == Bytes(n, m.length)
  IN CASE m.kind = "plain" -> PlainFrame(m.track, time, data, m.key)
       [] m.kind = "additional" ->
            FrameWithAdditional(m.track, time, data, m.key, <<9, 9>>, 1)
       [] m.kind = "padding" -> FrameWithDiscardPadding(m.track, time, data, m.key, 40000)
       [] m.kind = "metadata" -> Metadata(m.track, time, data, 2 * seg.info.timecode_scale)

(* What a reader should find of a frame.  *)
Kept(f) ==
  LET duration == f.duration \div seg.info.timecode_scale
  IN [track |-> f.track, timecode |-> f.timestamp \div seg.info.timecode_scale,
      is_key |-> f.is_key, data |-> f.data,
      duration |-> IF duration > 0 THEN duration ELSE -1,
      discard_padding |-> f.discard_padding]

AddFrame ==
  /\ stage = "write" /\ Len(log) < conf.frames
  /\ \E m \in {m \in conf.menu : TrackByNumber(seg.tracks, m.track) # 0} :
       LET s == Mux("AddFrame", seg, Made(m))
       IN /\ seg' = s
          /\ log' = IF s.w.ok THEN Append(log, Kept(Made(m))) ELSE log
          /\ stage' = IF s.w.ok THEN stage ELSE "failed"
  /\ UNCHANGED <<conf, readerVars>>

FinalizeSegment ==
  /\ stage = "write" /\ log # <<>>
  /\ seg' = Mux("Finalize", seg, Null)
  /\ stage' = IF seg'.w.ok THEN "final" ELSE "failed"
  /\ UNCHANGED <<conf, log, readerVars>>

(* Into a second file, which is the one that is read.  *)
MoveCues ==
  /\ stage = "final" /\ conf.move
  /\ seg' = Mux("MoveCues", seg, seg.w.room)
  /\ stage' = IF seg'.w.ok THEN "moved" ELSE "failed"
  /\ UNCHANGED <<conf, log, readerVars>>

-----------------------------------------------------------------------------
(* Reading. *)

kFirstBytes == 4     \* what the parser needs not to take the file for another

Open ==
  /\ stage \in {"final", "moved"}
  /\ stage' = "read"
  /\ r' = [bytes |-> seg.w.out, total |-> IF conf.total THEN Len(seg.w.out) ELSE -1,
           avail |-> IF conf.steps = {} THEN Len(seg.w.out) ELSE kFirstBytes]
  /\ UNCHANGED <<conf, writerVars, phase, at, parsed, last>>

Arrive ==
  /\ stage = "read" /\ phase # "aborted" /\ r.avail < Len(r.bytes)
  /\ \E n \in conf.steps :
       r' = [r EXCEPT !.avail = IF @ + n > Len(r.bytes) THEN Len(r.bytes) ELSE @ + n]
  /\ UNCHANGED <<conf, stage, writerVars, phase, at, parsed, last>>

(* A parse is tried again only when more has arrived.  *)
Parses == last.op \in {"ebml", "create", "headers", "load", "all"}
Worthwhile == Parses /\ last.s = "need" => last.wanted <= r.avail

Reads(p) == stage = "read" /\ phase = p /\ Worthwhile /\ UNCHANGED <<conf, stage, writerVars, r>>

After(result, next) ==
  CASE result.s = "ok" -> next
    [] result.s = "done" -> "end"
    [] result.s = "need" -> phase
    [] result.s = "bad" -> "bad"

ReadHeader ==
  /\ Reads("ebml")
  /\ LET result == ParserCall("EBMLHeader", r, Null, Null)
     IN /\ last' = Call("ebml", result)
        /\ phase' = After(result, "create")
        /\ at' = IF result.s = "ok" THEN result.next ELSE at
  /\ UNCHANGED parsed

ReadSegment ==
  /\ Reads("create")
  /\ LET made == ParserCall("CreateInstance", r, Null, at)
     IN /\ last' = Call("create", made.result)
        /\ phase' = After(made.result, "headers")
        /\ parsed' = made.seg
  /\ UNCHANGED at

ReadHeaders ==
  /\ Reads("headers")
  /\ LET p == ParserCall("ParseHeaders", r, parsed[1], Null)
     IN /\ last' = Call("headers", p.result)
        /\ phase' = After(p.result, "load")
        /\ parsed' = <<p.seg>>
  /\ UNCHANGED at

LoadCluster ==
  /\ Reads("load")
  /\ LET p == ParserCall("LoadCluster", r, parsed[1], Null)
     IN /\ last' = Call("load", p.result)
        /\ phase' = After(p.result, "load")
        /\ parsed' = <<p.seg>>
  /\ UNCHANGED at

(* All blocks of a cluster, once they are there.  *)
ReadCluster ==
  /\ Reads("end")
  /\ \E i \in 1 .. Len(parsed[1].clusters) :
       LET p == ParserCall("ParseCluster", r, parsed[1], i)
       IN /\ \A k \in 1 .. i - 1 : parsed[1].clusters[k].element_size >= 0
          /\ p.cluster # parsed[1].clusters[i]
          /\ last' = Call("all", p.result)
          /\ parsed' = <<[parsed[1] EXCEPT !.clusters[i] = p.cluster]>>
  /\ UNCHANGED <<phase, at>>

Looks(op) ==
  /\ stage = "read" /\ phase \in {"load", "end"} /\ op \in conf.looks
  /\ UNCHANGED <<conf, stage, writerVars, r, at>>

(* What a look found, and after which frame: whether it began ahead of the
   clusters that are loaded, whether the file had arrived, which is never known of
   a stream without a length, and whether it had been read to its end too.  A failed assertion stops the program.  *)
Looked(op, e, from, track, time) ==
  /\ parsed' = <<e.seg>>
  /\ phase' = IF e.result.s = "abort" THEN "aborted" ELSE phase
  /\ last' = [op |-> op, s |-> e.result.s, wanted |-> e.result.wanted,
              cluster |-> e.cluster, at |-> e.at, from |-> from, track |-> track,
              time |-> time,
              ahead |-> op = "next" /\ parsed[1].clusters[last.cluster].index < 0,
              arrived |-> r.avail = r.total,
              whole |-> phase = "end" /\ r.avail = Len(r.bytes)]

CuesRead == ParserCall("Cues", r, parsed[1], Null)

(* The cues are read when they have arrived; the block of the one for a time is
   looked for.  *)
LookUpCue ==
  /\ Looks("cue") /\ parsed[1].cues # <<>>
  /\ parsed[1].cues[1].start + parsed[1].cues[1].size <= r.avail
  /\ \E time \in conf.times \cup {point.timecode : point \in ToSet(CuesRead)} :
       LET found == ParserCall("FindCue", r, CuesRead, <<time, conf.walk>>)
           point == CuesRead[found[1]]
       IN /\ found # <<>>
          /\ Looked("cue", ParserCall("GetBlock", r, parsed[1],
                                 <<point.timecode, point.positions[found[2]]>>),
                    0, conf.walk, time)

LookFirst ==
  /\ Looks("first")
  /\ Looked("first", ParserCall("GetFirst", r, parsed[1], conf.walk), 0, conf.walk, 0)

BlockOf(cluster, entry) ==
  LET c == parsed[1].clusters[cluster]
      x == c.entries[entry]
      frame == Head(x.frames)
  IN [track |-> x.track, timecode |-> R!Timecode(c, x), is_key |-> x.is_key,
      data |-> SubSeq(r.bytes, frame.pos + 1, frame.pos + frame.len),
      duration |-> x.duration, discard_padding |-> x.discard_padding]

(* Which frame a block is.  *)
FrameOf(cluster, entry) == Head(BlockOf(cluster, entry).data)

LookNext ==
  /\ Looks("next") /\ last.at # 0
  /\ LET track == BlockOf(last.cluster, last.at).track
     IN Looked("next", ParserCall("GetNext", r, parsed[1], <<last.cluster, last.at, track>>),
               FrameOf(last.cluster, last.at), track, 0)

LookAtTime ==
  /\ Looks("seek")
  /\ \E time \in conf.times :
       Looked("seek", ParserCall("Seek", r, parsed[1], <<conf.walk, time>>), 0, conf.walk, time)

(* The cluster after one that is loaded or preloaded.  *)
LookAfter ==
  /\ Looks("after")
  /\ \E i \in 1 .. Len(parsed[1].clusters) :
       LET e == ParserCall("ParseNext", r, parsed[1], i)
       IN Looked("after", [result |-> e.result, seg |-> e.seg, cluster |-> e.at, at |-> 0],
                 i, 0, 0)

(* The cluster of a time, by its place among the loaded ones.  *)
LookForCluster ==
  /\ Looks("find")
  /\ \E time \in conf.times :
       Looked("find", [result |-> [s |-> "ok", wanted |-> 0], seg |-> parsed[1], at |-> 0,
                       cluster |-> ParserCall("FindCluster", r, parsed[1], time)], 0, 0, time)

-----------------------------------------------------------------------------
(* A block of several frames, which this muxer does not write: the lacing says
   how the sizes of all but the last are put in front: as bytes of 255 and a
   rest (1), not at all (2), or as the first size and differences (3).  *)

Coded(n, short) ==
  IF n < short THEN <<128 + n>> ELSE <<64 + n \div 256, n % 256>>

Coding(lacing, sizes) ==
  LET n == Len(sizes) - 1
      Difference(i) ==
        LET d == sizes[i] - sizes[i - 1]
        IN IF d \in -63 .. 63 THEN Coded(d + 63, 127) ELSE Coded(d + 8191, 0)
  IN FlattenSeq([i \in 1 .. n |->
       CASE lacing = 1 -> [k \in 1 .. sizes[i] \div 255 |-> 255] \o <<sizes[i] % 255>>
         [] lacing = 2 -> <<>>
         [] lacing = 3 /\ i = 1 -> Coded(sizes[1], 127)
         [] lacing = 3 /\ i > 1 -> Difference(i)])

LacedBlock(lacing, sizes) ==
  <<129, 0, 40, 2 * lacing, Len(sizes) - 1>> \o Coding(lacing, sizes)
    \o FlattenSeq([i \in DOMAIN sizes |-> Bytes(i, sizes[i])])

(* The reader makes a block of such bytes; log says what is in it.  *)
ReadLaced ==
  /\ stage = "lace" /\ last = NoCall
  /\ \E sizes \in conf.laces : \E lacing \in 1 .. 3 :
       LET bytes == LacedBlock(lacing, sizes)
           file == [bytes |-> bytes, total |-> Len(bytes), avail |-> Len(bytes)]
       IN /\ lacing = 2 => \A i \in DOMAIN sizes : sizes[i] = sizes[1]
          /\ r' = file
          /\ log' = [i \in DOMAIN sizes |-> Bytes(i, sizes[i])]
          /\ parsed' = <<ParserCall("Block", file, Null, Len(bytes))>>
          /\ last' = [NoCall EXCEPT !.op = "lace"]
  /\ UNCHANGED <<conf, stage, seg, phase, at>>

-----------------------------------------------------------------------------
Writing ==
  \/ SetUpVideo \/ SetUpAudio \/ SetUpOther \/ SetUpTrack \/ SetUpChapter \/ SetUpTag
  \/ EndSetUp \/ AddFrame \/ FinalizeSegment \/ MoveCues

Reading ==
  \/ ReadHeader \/ ReadSegment \/ ReadHeaders \/ LoadCluster \/ ReadCluster

Looking ==
  LookUpCue \/ LookFirst \/ LookNext \/ LookAtTime \/ LookAfter \/ LookForCluster

Next == Writing \/ Open \/ Arrive \/ Reading \/ Looking \/ ReadLaced

(* The bytes of an open file arrive, and its reader goes on: weak fairness of the
   reader's calls, written without ENABLED, which TLC would take too long to
   evaluate.  *)
CanRead == stage = "read" /\ phase \notin {"end", "bad", "aborted"} /\ Worthwhile
HasRead == last' # last /\ last'.op \in {"ebml", "create", "headers", "load"}

Spec ==
  /\ Init /\ [][Next]_clientVars
  /\ WF_clientVars(Arrive)
  /\ []<>~CanRead \/ []<><<HasRead>>_clientVars

-----------------------------------------------------------------------------
(* Properties. *)

Room == 4096     \* more than any file here takes

(* What can stop the writer: a device that is full, an encoding without a key.  *)
Hindered ==
  \/ seg.w.room < Room
  \/ \E t \in ToSet(seg.tracks.entries) : \E e \in ToSet(t.encodings) : e.enc_key_id = Null

(* The writer never stops by itself: the size it announces for each element is
   the number of bytes it then writes, which it checks, whatever is set.  And a
   file that was finished without an error is never an error to the reader, at
   whatever point it has arrived; when the reader asks for more bytes these are
   in the file and not there yet.  The exception is ParseNext after a cluster
   that was preloaded and whose end is not known.  *)
NeverRefused ==
  /\ stage = "failed" => Hindered
  /\ phase # "bad"
  /\ last.s = "bad" =>
       /\ last.op = "after"
       /\ parsed[1].clusters[last.from].index < 0
       /\ parsed[1].clusters[last.from].element_size < 0
  /\ conf.total /\ Parses /\ last.s = "need" => last.wanted \in 1 .. Len(r.bytes)

Opt(s) == IF s = Null THEN <<>> ELSE <<s>>

(* What a reader should find of a track: nothing of the crop, the alpha mode and
   the greatest additional ID, which it does not read, and encodings of video
   and audio only.  *)
TrackRead(t) ==
  [ok |-> TRUE,
   info |-> [number |-> t.number, type |-> t.type, uid |-> t.uid, name |-> Opt(t.name),
             language |-> Opt(t.language), codec_id |-> Opt(t.codec_id),
             codec_name |-> <<>>, codec_private |-> Opt(t.codec_private),
             default_duration |-> t.default_duration, codec_delay |-> t.codec_delay,
             seek_pre_roll |-> t.seek_pre_roll, lacing |-> 1],
   settings |->
     CASE t.media = "video" ->
            [ok |-> TRUE, width |-> t.width, height |-> t.height,
             display_width |-> t.display_width, display_height |-> t.display_height,
             display_unit |-> 0, stereo_mode |-> t.stereo_mode, rate |-> t.frame_rate]
       [] t.media = "audio" ->
            [ok |-> TRUE, rate |-> t.sample_rate, channels |-> t.channels,
             bit_depth |-> t.bit_depth]
       [] t.media = "none" -> [ok |-> TRUE],
   encodings |->
     IF t.media = "none" THEN <<>>
     ELSE [i \in DOMAIN t.encodings |->
             LET e == t.encodings[i]
             IN [ok |-> TRUE, order |-> e.encoding_order, scope |-> e.encoding_scope,
                 type |-> e.encoding_type, compressions |-> <<>>,
                 encryptions |-> <<[ok |-> TRUE, algo |-> e.enc_algo,
                                    key_id |-> Opt(e.enc_key_id)]>>]]]

(* The parser reads a chapter's UID as a signed number of the bytes it has.  *)
Signed(n) == IF n \in 128 .. 255 THEN n - 256 ELSE n

ChapterRead(c) ==
  [ok |-> TRUE, string_uid |-> Opt(c.id), uid |-> Signed(c.uid),
   start |-> c.start_timecode, stop |-> c.end_timecode,
   displays |-> [i \in DOMAIN c.displays |->
                   [ok |-> TRUE, title |-> Opt(c.displays[i].title),
                    language |-> Opt(c.displays[i].language),
                    country |-> Opt(c.displays[i].country)]]]

TagRead(t) ==
  [ok |-> TRUE,
   simple_tags |-> [i \in DOMAIN t.simple_tags |->
                      [ok |-> TRUE, name |-> Opt(t.simple_tags[i].name),
                       string |-> Opt(t.simple_tags[i].string)]]]

(* A file that lasts no time keeps the placeholder.  *)
DurationRead ==
  CASE seg.mode = kLive -> -1
    [] seg.mode = kFile /\ seg.info.duration = 0 -> 1
    [] OTHER -> seg.info.duration

(* The tracks with their settings and encodings, chapters and tags are read as
   they were set, whatever was set, in whatever order; and so are the timecode
   scale and the duration, which is written over a placeholder at the end.  *)
HeadersReadBack ==
  stage = "read" /\ phase \in {"load", "end"} =>
    LET p == parsed[1]
    IN /\ p.tracks[1].entries = [i \in DOMAIN seg.tracks.entries |->
                                   TrackRead(seg.tracks.entries[i])]
       /\ IF seg.chapters.entries = <<>> THEN p.chapters = <<>>
          ELSE p.chapters[1].editions[1].atoms =
                 [i \in DOMAIN seg.chapters.entries |-> ChapterRead(seg.chapters.entries[i])]
       /\ IF seg.tags.entries = <<>> THEN p.tags = <<>>
          ELSE p.tags[1].tags = [i \in DOMAIN seg.tags.entries |->
                                   TagRead(seg.tags.entries[i])]
       /\ p.info[1].timecode_scale = seg.info.timecode_scale
       /\ p.info[1].duration = DurationRead

(* Each cluster's blocks, as far as they are parsed.  *)
BlocksOf(i) ==
  [k \in DOMAIN parsed[1].clusters[i].entries |-> BlockOf(i, k)]

(* The frames come back as they were given, with their track, time, key flag,
   duration and padding, in the order they were written: at any time what is
   parsed of the clusters that are loaded is a part of the log, and at the end
   it is all of it.  So do the frames of a laced block.  *)
BlocksReadBack ==
  /\ stage = "read" /\ phase \in {"load", "end"} =>
       LET clusters == parsed[1].clusters
           all == FlattenSeq([i \in DOMAIN clusters |-> BlocksOf(i)])
       IN /\ \A i \in DOMAIN all : all[i] \in ToSet(log)
          /\ (phase = "end" /\ \A i \in DOMAIN clusters :
                /\ clusters[i].element_size >= 0
                /\ clusters[i].pos >= clusters[i].element_start + clusters[i].element_size)
             => all = log
  /\ last.op = "lace" =>
       /\ parsed[1].ok
       /\ log = [i \in DOMAIN parsed[1].frames |->
                  LET f == parsed[1].frames[i]
                  IN SubSeq(r.bytes, f.pos + 1, f.pos + f.len)]

(* Every entry of the seek head leads to the element it names.  *)
SeekHeadLeads ==
  phase = "end" /\ parsed[1].seek_head # <<>> =>
    \A e \in ToSet(parsed[1].seek_head[1].entries) :
      R!ReadUInt(r, parsed[1].start + e.pos).v = e.id

VideoWalk == TrackIs(seg.tracks, conf.walk, kVideo)

(* Through the cues one comes to a block that is the first of the track in its
   cluster, not later than the time sought, unless it is the first of all, and,
   when the track is video, with no key frame between the block and the time.  *)
CueLeads ==
  /\ last.at # 0
  /\ \A k \in 1 .. last.at - 1 : BlockOf(last.cluster, k).track # last.track
  /\ LET x == BlockOf(last.cluster, last.at)
         own == {i \in DOMAIN log : log[i].track = last.track}
     IN /\ x.track = last.track
        /\ x.timecode <= last.time \/ Head(x.data) = Min(own)
        /\ VideoWalk => \A i \in own : log[i].is_key /\ log[i].timecode <= last.time
                                       => log[i].timecode <= x.timecode

(* The seek head and the cues lead to what they name, also after the cues have
   moved to the front; a cue does so whether the block's cluster is loaded,
   preloaded or neither.  *)
IndexesLead ==
  /\ SeekHeadLeads
  /\ last.op = "cue" => (last.s = "need" /\ ~last.whole) \/ CueLeads

(* The first frame of the log from n on that is of the track and, if key says
   so, a key frame; 0 when there is none.  *)
FrameAfter(n, track, key) ==
  LET found == {i \in n + 1 .. Len(log) : log[i].track = track /\ (key => log[i].is_key)}
  IN IF found = {} THEN 0 ELSE Min(found)

(* The next cluster in the file is found after each; the array of clusters is
   in the order of the file, the loaded ones in front.  *)
ClustersInOrder ==
  LET clusters == parsed[1].clusters
  IN /\ \A i \in 1 .. Len(clusters) - 1 :
          clusters[i].element_start < clusters[i + 1].element_start
     /\ \A i \in DOMAIN clusters :
          clusters[i].index = IF i <= parsed[1].loaded THEN i - 1 ELSE -1
     /\ last.op = "after" =>
          CASE last.s = "ok" ->
                 /\ last.cluster = last.from + 1
                 /\ clusters[last.from].element_size >= 0 =>
                      clusters[last.cluster].element_start =
                        clusters[last.from].element_start + clusters[last.from].element_size
            [] last.s = "done" -> last.from = Len(clusters)
            [] OTHER -> TRUE

(* Walking a track finds its first frame and then each next one, from wherever
   the walk began, and ends only at the end; so does walking the clusters, in
   whatever order clusters are loaded and looked for.  The exception is a walk
   ahead of the clusters that are loaded, in a file that has not all arrived:
   Segment::GetNext may fail an assertion there, or the track seem to end.  *)
WalksInOrder ==
  /\ phase \in {"load", "end", "aborted"} => ClustersInOrder
  /\ last.op \in {"first", "next"} =>
       LET due == FrameAfter(last.from, last.track, last.op = "first" /\ VideoWalk)
       IN CASE last.s = "ok" -> last.at # 0 /\ FrameOf(last.cluster, last.at) = due
            [] last.s = "done" -> due = 0 \/ (last.ahead /\ ~last.arrived)
            [] last.s = "abort" -> last.ahead /\ ~last.arrived
            [] OTHER -> ~last.whole

(* A seek in a loaded file finds the last key frame of a video track that is
   not after the time, or the first one; and a cluster is found by its time
   among the loaded ones.  A seek fails an assertion only while the file has not
   all arrived.  *)
SeeksByTime ==
  /\ last.op = "seek" /\ last.s = "abort" => ~last.arrived
  /\ last.op = "seek" /\ last.whole /\ VideoWalk =>
       LET keys == {i \in DOMAIN log : log[i].track = last.track /\ log[i].is_key}
           before == {i \in keys : log[i].timecode <= last.time}
       IN IF keys = {} THEN last.at = 0
          ELSE last.at # 0 /\ FrameOf(last.cluster, last.at) =
                                IF before = {} THEN Min(keys) ELSE Max(before)
  /\ last.op = "find" /\ last.cluster # 0 =>
       \A i \in 1 .. parsed[1].loaded :
         (i <= last.cluster) =
           (i = 1 \/ (/\ ParserCall("Timecode", r, parsed[1], i) <= last.time
                      /\ ParserCall("Timecode", r, parsed[1], 1) < last.time))

(* Once a file is opened, and its bytes go on arriving, its reader comes to the
   end of it, unless a walk or a seek ahead of the bytes stops the program; the
   end of a live stream is not known.  *)
ReadsToTheEnd == (stage = "read" /\ conf.total) ~> (phase \in {"end", "aborted"})
=============================================================================
