------------------------------ MODULE MkvFile ------------------------------
(* The file that mkvmuxer::Segment writes (src/src/libwebm/mkvmuxer.cpp), byte
   by byte, for the frames that Segment writes at once: those of every track
   when there is no video track, and all but audio when there is one.  The queue
   that holds the audio back is the subject of module Segment.

   A segment is a record; every operator is one method and returns the segment
   it leaves.  The method has failed when the segment's writer is not ok, and
   then the rest of the method is left out (Step).  Members the constructor does
   not set hold a value NewSegment is given.  *)
EXTENDS MkvHeaders

kMaxBlockTimecode == 32767
kLive == 1
kFile == 2

NewFrame(track, timestamp, data) ==
  [add_id |-> 0, additional |-> Null, duration |-> 0, data |-> data,
   is_key |-> FALSE, track |-> track, timestamp |-> timestamp,
   discard_padding |-> 0, reference |-> 0, reference_set |-> FALSE]

CanBeSimpleBlock(f) ==
  f.additional = Null /\ f.discard_padding = 0 /\ f.duration = 0

IsValid(f) ==
  /\ f.data # <<>> /\ f.additional # <<>>
  /\ f.track \in 1 .. kMaxTrackNumber
  /\ CanBeSimpleBlock(f) \/ f.is_key \/ f.reference_set

set_reference_block_timestamp(f, timestamp) ==
  [f EXCEPT !.reference = timestamp, !.reference_set = TRUE]

(* Frame::CopyFrom: all but the reference; the additional data and its number
   go together.  *)
CopyFrom(f) ==
  [f EXCEPT !.reference = 0, !.reference_set = FALSE,
            !.additional = IF @ = <<>> THEN Null ELSE @,
            !.add_id = IF f.additional \in {Null, <<>>} THEN 0 ELSE @]

-----------------------------------------------------------------------------
(* Blocks (mkvmuxerutil.cpp). *)

(* The result of WriteSimpleBlock and WriteBlock is the size of the element.  *)
WriteSimpleBlock(w, f, timecode) ==
  LET size == Len(f.data) + 4
      headed == WriteUInt(WriteUInt(WriteID(w, Id.SimpleBlock), size), f.track)
      flagged == SerializeInt(SerializeInt(headed, timecode, 2),
                              IF f.is_key THEN 128 ELSE 0, 1)
  IN [w |-> PutBytes(flagged, f.data), size |-> WithHeader(Id.SimpleBlock, size)]

WriteBlock(w, f, timecode, timecode_scale) ==
  LET more == <<U("BlockAddID", f.add_id), B("BlockAdditional", f.additional)>>
      moreSize == IF f.additional = Null THEN 0 ELSE SizeOf(more)
      additions == IF f.additional = Null THEN 0 ELSE WithHeader(Id.BlockMore, moreSize)
      rest == If(f.discard_padding # 0, I("DiscardPadding", f.discard_padding))
              \o If(~f.is_key, U("ReferenceBlock", f.reference \div timecode_scale))
              \o If(f.duration \div timecode_scale > 0,
                    U("BlockDuration", f.duration \div timecode_scale))
      block == 4 + Len(f.data)
      group == WithHeader(Id.Block, block) + SizeOf(rest)
                 + (IF f.additional = Null THEN 0
                    ELSE WithHeader(Id.BlockAdditions, additions))
      headed == WriteEbmlMasterElement(WriteEbmlMasterElement(w, Id.BlockGroup, group),
                                       Id.Block, block)
      timed == SerializeInt(SerializeInt(WriteUInt(headed, f.track), timecode, 2), 0, 1)
      written == PutBytes(timed, f.data)
      added == IF f.additional = Null THEN written
               ELSE WriteAll(WriteEbmlMasterElement(
                               WriteEbmlMasterElement(written, Id.BlockAdditions, additions),
                               Id.BlockMore, moreSize), more)
  IN [w |-> WriteAll(added, rest), size |-> WithHeader(Id.BlockGroup, group)]

-----------------------------------------------------------------------------
(* Cluster. *)

NewCluster(timecode, cues_pos) ==
  [timecode |-> timecode, position_for_cues |-> cues_pos, blocks_added |-> 0,
   payload_size |-> 0, size_position |-> -1, finalized |-> FALSE,
   header_written |-> FALSE]

WriteClusterHeader(w, c) ==
  LET named == WriteID(w, Id.Cluster)
      timecode == U("Timecode", c.timecode)
      done == WriteEbmlElement(PutBytes(named, kEbmlUnknownValue), timecode)
      placed == IF named.ok THEN [c EXCEPT !.size_position = named.pos] ELSE c
  IN [w |-> done,
      cluster |-> IF done.ok
                  THEN [placed EXCEPT !.payload_size = @ + EbmlElementSize(timecode),
                                      !.header_written = TRUE]
                  ELSE placed]

(* Cluster::DoWriteFrame, PreWriteBlock and PostWriteBlock.  *)
ClusterAddFrame(w, c, f, timecode_scale) ==
  LET opened == IF c.header_written THEN [w |-> w, cluster |-> c]
                ELSE WriteClusterHeader(w, c)
      timecode == f.timestamp \div timecode_scale - c.timecode
      block == IF CanBeSimpleBlock(f) THEN WriteSimpleBlock(opened.w, f, timecode)
               ELSE WriteBlock(opened.w, f, timecode, timecode_scale)
  IN CASE ~IsValid(f) \/ c.finalized -> [w |-> Fail(w), cluster |-> c]
       [] IsValid(f) /\ ~c.finalized /\ timecode \notin 0 .. kMaxBlockTimecode ->
            [w |-> Fail(opened.w), cluster |-> opened.cluster]
       [] OTHER ->
            [w |-> block.w,
             cluster |-> IF block.w.ok
                         THEN [opened.cluster EXCEPT !.payload_size = @ + block.size,
                                                     !.blocks_added = @ + 1]
                         ELSE opened.cluster]

FinalizeCluster(w, c) ==
  LET sized == WriteUIntSize(SeekTo(w, c.size_position), c.payload_size, 8)
      done == SeekTo(sized, w.pos)
  IN IF c.finalized \/ c.size_position = -1 THEN [w |-> Fail(w), cluster |-> c]
     ELSE [w |-> done, cluster |-> [c EXCEPT !.finalized = done.ok]]

-----------------------------------------------------------------------------
(* Segment. *)

kDefaultDocTypeVersion == 2

NewSegment(room, mode, output_cues, max_cluster_size, wild) ==
  [w |-> NewWriter(room), mode |-> mode, output_cues |-> output_cues,
   max_cluster_size |-> max_cluster_size,
   info |-> InitSegmentInfo(NewSegmentInfo), tracks |-> NewTracks,
   chapters |-> NewChapters, tags |-> NewTags, seek_head |-> NewSeekHead,
   cues |-> NewCues, cues_track |-> 0, clusters |-> <<>>, has_video |-> FALSE,
   header_written |-> FALSE, new_cuepoint |-> FALSE, force_new_cluster |-> FALSE,
   last_timestamp |-> 0, last_block_duration |-> 0,
   last_track_timestamp |-> [t \in 1 .. kMaxTrackNumber |-> wild],
   payload_pos |-> 0, size_position |-> 0,
   doc_type_version |-> kDefaultDocTypeVersion, doc_type_version_written |-> 0,
   ebml_header_size |-> wild, cluster_end_offset |-> wild]

(* The next statements, unless one before failed.  *)
Step(s, Next(_)) == IF s.w.ok THEN Next(s) ELSE s
Returns(s, condition) == IF condition THEN [s EXCEPT !.w = Fail(@)] ELSE s
Written(s, Write(_)) == Step(s, LAMBDA t : [t EXCEPT !.w = Write(@)])

MaxOffset(s) == Position(s.w) - s.payload_pos

(* A track the list refuses is lost, and its number is 0.  *)
AddAnyTrack(s, track, number) ==
  [s EXCEPT !.tracks = AddTrack(@, track, number).tracks,
            !.has_video = @ \/ track.media = "video"]

AddVideoTrack(s, uid, width, height, number) ==
  AddAnyTrack(s, [NewVideoTrack(uid) EXCEPT
                    !.type = kVideo, !.codec_id = <<86, 95, 86, 80, 56>>,
                    !.width = width, !.height = height], number)

AddAudioTrack(s, uid, sample_rate, channels, number) ==
  AddAnyTrack(s, [NewAudioTrack(uid) EXCEPT
                    !.type = kAudio, !.codec_id = <<65, 95, 86>>,
                    !.sample_rate = sample_rate, !.channels = channels], number)

CuesTrack(s, number) ==
  IF TrackByNumber(s.tracks, number) = 0 THEN s ELSE [s EXCEPT !.cues_track = number]

AddSeek(s, id) ==
  Step(Returns(s, SeekFull(s.seek_head)), LAMBDA t :
    [t EXCEPT !.seek_head = AddSeekEntry(@, id, MaxOffset(t))])

UpdateDocTypeVersion(s) ==
  IF \E t \in ToSet(s.tracks.entries) : t.codec_delay # 0 \/ t.seek_pre_roll # 0
  THEN [s EXCEPT !.doc_type_version = IF @ < 4 THEN 4 ELSE @] ELSE s

(* The EBML header, the segment's ID and size, room for the seek head, and the
   elements before the first cluster.  *)
WriteSegmentHeader(s) ==
  LET upToDate == UpdateDocTypeVersion(s)
      named == Written(upToDate, LAMBDA w : WriteEbmlHeader(w, upToDate.doc_type_version))
      versioned == Step(named, LAMBDA t :
        [t EXCEPT !.doc_type_version_written = t.doc_type_version,
                  !.ebml_header_size = t.w.pos, !.w = WriteID(@, Id.Segment)])
      sized == Step(versioned, LAMBDA t :
        [t EXCEPT !.size_position = t.w.pos, !.w = PutBytes(@, kEbmlUnknownValue)])
      placed == Step(sized, LAMBDA t : [t EXCEPT !.payload_pos = t.w.pos])
      seeking == IF placed.mode # kFile THEN placed
                 ELSE Step(placed, LAMBDA t :
                        LET r == WriteSeekHead(t.w, t.seek_head)
                        IN [t EXCEPT !.info.duration = 1, !.w = r.w,
                                     !.seek_head = r.seek_head])
      informed == Step(AddSeek(seeking, Id.Info), LAMBDA t :
                    LET r == WriteSegmentInfo(t.w, t.info)
                    IN [t EXCEPT !.w = r.w, !.info = r.info])
      tracked == Written(AddSeek(informed, Id.Tracks), LAMBDA w : WriteTracks(w, s.tracks))
      marked == Step(tracked, LAMBDA t : [t EXCEPT !.tracks.wrote_tracks = TRUE])
      chaptered == IF s.chapters.entries = <<>> THEN marked
                   ELSE Written(AddSeek(marked, Id.Chapters),
                                LAMBDA w : WriteChapters(w, s.chapters))
      tagged == IF s.tags.entries = <<>> THEN chaptered
                ELSE Written(AddSeek(chaptered, Id.Tags), LAMBDA w : WriteTags(w, s.tags))
  IN Step(tagged, LAMBDA t : [t EXCEPT !.header_written = TRUE])

(* The cues are of the first video track, or of the first track.  *)
CheckHeaderInfo(s) ==
  LET headed == AddSeek(WriteSegmentHeader(s), Id.Cluster)
      video == {i \in DOMAIN s.tracks.entries : s.tracks.entries[i].type = kVideo}
  IN CASE s.header_written -> s
       [] ~s.header_written /\ (s.cues_track # 0 \/ ~s.output_cues) -> headed
       [] OTHER -> Step(Returns(headed, s.tracks.entries = <<>>), LAMBDA t :
            [t EXCEPT !.cues_track =
               t.tracks.entries[IF video = {} THEN 1 ELSE Min(video)].number])

(* 0: into the last cluster; 1: into a new one; 2: into a new one, then test
   again; -1: refuse.  *)
TestFrame(s, f) ==
  LET c == Last(s.clusters)
      scale == s.info.timecode_scale
      delta == f.timestamp \div scale - c.timecode
  IN CASE s.force_new_cluster \/ s.clusters = <<>> -> 1
       [] ~s.force_new_cluster /\ s.clusters # <<>> /\ delta < 0 -> -1
       [] ~s.force_new_cluster /\ s.clusters # <<>> /\ delta > kMaxBlockTimecode -> 2
       [] OTHER ->
            IF \/ f.is_key /\ TrackIs(s.tracks, f.track, kVideo)
               \/ s.max_cluster_size > 0 /\ c.payload_size >= s.max_cluster_size
            THEN 1 ELSE 0

FinalizeLast(s) ==
  LET n == Len(s.clusters)
      r == FinalizeCluster(s.w, s.clusters[n])
  IN IF n = 0 \/ ~s.w.ok THEN s ELSE [s EXCEPT !.w = r.w, !.clusters[n] = r.cluster]

MakeNewCluster(s, timestamp) ==
  LET closed == IF s.mode = kFile THEN FinalizeLast(s) ELSE s
  IN Step(closed, LAMBDA t :
       [t EXCEPT
          !.new_cuepoint = @ \/ (t.mode = kFile /\ t.output_cues),
          !.clusters = Append(@, NewCluster(timestamp \div t.info.timecode_scale,
                                            MaxOffset(t)))])

(* With no queue, a second turn of the loop always ends it.  *)
Turn(s, f) ==
  LET result == TestFrame(s, f)
      t == [s EXCEPT !.force_new_cluster = FALSE]
  IN [again |-> result = 2,
      seg |-> CASE result = -1 -> Returns(s, TRUE)
                [] result = 0 -> t
                [] result \in {1, 2} -> MakeNewCluster(t, f.timestamp)]

DoNewClusterProcessing(s, f) ==
  LET first == Turn(s, f)
  IN IF first.again /\ first.seg.w.ok THEN Turn(first.seg, f).seg ELSE first.seg

AddCuePoint(s, timestamp) ==
  LET c == Last(s.clusters)
  IN [s EXCEPT
        !.new_cuepoint = FALSE,
        !.cues = AddCue(@, [NewCuePoint EXCEPT
                              !.time = timestamp \div s.info.timecode_scale,
                              !.block_number = c.blocks_added,
                              !.cluster_pos = c.position_for_cues,
                              !.track = s.cues_track])]

(* The frame into the last cluster: one that needs a BlockGroup and is not a
   key frame refers to the frame before it.  *)
WriteToCluster(s, f) ==
  LET n == Len(s.clusters)
      g == IF CanBeSimpleBlock(f) \/ f.is_key \/ f.reference_set THEN f
           ELSE set_reference_block_timestamp(CopyFrom(f), s.last_track_timestamp[f.track])
      r == ClusterAddFrame(s.w, s.clusters[n], g, s.info.timecode_scale)
      added == [s EXCEPT !.w = r.w, !.clusters[n] = r.cluster]
      cued == IF added.new_cuepoint /\ added.cues_track = f.track
              THEN AddCuePoint(added, f.timestamp) ELSE added
  IN IF ~added.w.ok THEN added
     ELSE [cued EXCEPT !.last_timestamp = f.timestamp,
                       !.last_track_timestamp[f.track] = f.timestamp,
                       !.last_block_duration = f.duration]

AddGenericFrame(s, f) ==
  LET headed == CheckHeaderInfo([s EXCEPT !.w.ok = TRUE])
      allowed == Returns(headed, \/ f.timestamp < headed.last_timestamp
                                 \/ TrackByNumber(headed.tracks, f.track) = 0)
      versioned == Step(allowed, LAMBDA t :
        [t EXCEPT !.doc_type_version = IF f.discard_padding # 0 THEN 4 ELSE @])
  IN Step(Step(versioned, LAMBDA t : DoNewClusterProcessing(t, f)),
          LAMBDA t : WriteToCluster(t, f))

(* Segment::AddFrame, AddFrameWithAdditional, AddFrameWithDiscardPadding and
   AddMetadata: the frame each of them makes.  *)
PlainFrame(track, timestamp, data, is_key) ==
  [NewFrame(track, timestamp, data) EXCEPT !.is_key = is_key]

FrameWithAdditional(track, timestamp, data, is_key, additional, add_id) ==
  [PlainFrame(track, timestamp, data, is_key) EXCEPT
     !.additional = additional, !.add_id = add_id]

FrameWithDiscardPadding(track, timestamp, data, is_key, padding) ==
  [PlainFrame(track, timestamp, data, is_key) EXCEPT !.discard_padding = padding]

Metadata(track, timestamp, data, duration) ==
  [PlainFrame(track, timestamp, data, TRUE) EXCEPT !.duration = duration]

(* The header once more, when the version it states has changed since.  *)
RewriteEbmlHeader(s) ==
  LET t == UpdateDocTypeVersion(s)
      headed == WriteEbmlHeader(SeekTo(t.w, 0), t.doc_type_version)
  IN IF t.doc_type_version = t.doc_type_version_written THEN t
     ELSE Step(Returns([t EXCEPT !.w = headed], headed.pos # t.ebml_header_size),
               LAMBDA u : [u EXCEPT !.doc_type_version_written = u.doc_type_version])

WriteSegmentSize(s, size) ==
  LET t == RewriteEbmlHeader(s)
      sized == WriteUIntSize(SeekTo(t.w, t.size_position), size, 8)
  IN IF t.w.ok THEN [t EXCEPT !.w = SeekTo(sized, s.w.pos)] ELSE t

(* Segment::Finalize in kFile mode; a duration that is no whole number of
   timecodes does not occur.  *)
FinalizeFile(s) ==
  LET closed == FinalizeLast([s EXCEPT !.w.ok = TRUE])
      duration == (s.last_timestamp + s.last_block_duration) \div s.info.timecode_scale
      timed == Step(closed, LAMBDA t :
        [t EXCEPT !.info.duration = duration,
                  !.w = FinalizeSegmentInfo(@, [t.info EXCEPT !.duration = duration])])
      indexed == IF s.output_cues THEN AddSeek(timed, Id.Cues) ELSE timed
      ended == Step(indexed, LAMBDA t : [t EXCEPT !.cluster_end_offset = Position(t.w)])
      cued == IF s.output_cues THEN Written(ended, LAMBDA w : WriteCues(w, s.cues)) ELSE ended
      sought == Written(cued, LAMBDA w : FinalizeSeekHead(w, cued.seek_head))
  IN Step(Returns(sought, sought.w.ok /\ MaxOffset(sought) < 1),
          LAMBDA t : WriteSegmentSize(t, MaxOffset(t)))

Finalize(s) == IF s.mode = kFile THEN FinalizeFile(s) ELSE [s EXCEPT !.w.ok = TRUE]

-----------------------------------------------------------------------------
(* CopyAndMoveCuesBeforeClusters. *)

(* Every cue is moved by diff; one that grows by that moves all of them.  *)
RECURSIVE MoveHelper(_, _, _)
MoveHelper(r, diff, index) ==
  LET old == r.cues.entries[index]
      new == [old EXCEPT !.cluster_pos = @ + diff]
      growth == CueSize(new) - CueSize(old)
      more == GetCodedUIntSize(r.size + growth) - GetCodedUIntSize(r.size) + growth
      moved == [cues |-> [r.cues EXCEPT !.entries[index] = new], size |-> r.size + growth]
  IN IF more = 0 THEN moved
     ELSE FoldLeft(LAMBDA m, i : IF m.size > 0 THEN MoveHelper(m, more, i) ELSE m, moved,
                   [i \in DOMAIN r.cues.entries |-> i])

(* Variant: the growth of the cues themselves is not looked at.  *)
MoveCuesBeforeClustersOnce(s) ==
  LET size == CuesSize(s.cues)
      cues == [s.cues EXCEPT !.entries =
                 [i \in DOMAIN @ |-> [@[i] EXCEPT !.cluster_pos = @ + size]]]
      At(id) == LET at == {i \in 1 .. kSeekEntryCount : s.seek_head.entries[i].id = id}
                IN IF at = {} THEN 1 ELSE Max(at)
      placed == SetSeekEntry(s.seek_head, At(Id.Cues), Id.Cues,
                             s.seek_head.entries[At(Id.Cluster)].pos)
  IN [s EXCEPT !.cues = cues,
               !.seek_head = SetSeekEntry(placed, At(Id.Cluster), Id.Cluster,
                               CuesSize(cues) + placed.entries[At(Id.Cues)].pos)]

MoveCuesBeforeClusters(s) ==
  LET size == CuesSize(s.cues)
      moved == FoldLeft(LAMBDA r, i : IF r.size > 0 THEN MoveHelper(r, size, i) ELSE r,
                        [cues |-> s.cues, size |-> CuesPayloadSize(s.cues)],
                        [i \in DOMAIN s.cues.entries |-> i])
      At(id) == LET at == {i \in 1 .. kSeekEntryCount : s.seek_head.entries[i].id = id}
                IN IF at = {} THEN 1 ELSE Max(at)
      placed == SetSeekEntry(s.seek_head, At(Id.Cues), Id.Cues,
                             s.seek_head.entries[At(Id.Cluster)].pos)
  IN [s EXCEPT !.cues = moved.cues,
               !.seek_head = SetSeekEntry(placed, At(Id.Cluster), Id.Cluster,
                               CuesSize(moved.cues) + placed.entries[At(Id.Cues)].pos)]

(* ChunkedCopy of size bytes; what the destination answers is not looked at.  *)
ChunkedCopy(source, w, start, size) ==
  IF start + size > Len(source) THEN Fail(w)
  ELSE [PutBytes(w, SubSeq(source, start + 1, start + size)) EXCEPT !.ok = w.ok]

(* From the finished file into a new one of the same size and more.  *)
CopyAndMoveCuesBeforeClusters(s, room) ==
  LET clusters == Head(s.clusters).size_position - GetUIntSize(Id.Cluster)
      headed == ChunkedCopy(s.w.out, NewWriter(room), 0, clusters)
      moved == Step([s EXCEPT !.w = headed], MoveCuesBeforeClusters)
      cued == Written(moved, LAMBDA w : WriteCues(w, moved.cues))
      sought == Written(cued, LAMBDA w : FinalizeSeekHead(w, moved.seek_head))
      copied == Written(sought, LAMBDA w :
        ChunkedCopy(s.w.out, w, clusters, s.cluster_end_offset - clusters))
  IN Written(copied, LAMBDA w :
       SeekTo(WriteUIntSize(SeekTo(w, s.size_position), w.pos - s.payload_pos, 8), w.pos))
=============================================================================
