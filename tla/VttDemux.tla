------------------------------ MODULE VttDemux ------------------------------
(* The WebVTT files that are made from the metadata tracks and the chapters of a
   WebM file (src/src/libwebm/vttdemux.cc).

   m maps a track's number, and kChaptersKey, to the kind of its file and what is
   written to it; ok is lost at the first thing that is wrong, after which nothing
   more is written.  Writing to an open file does not fail here, and the time
   scales are whole microseconds.  *)
EXTENDS MkvReading

V == INSTANCE WebVtt

kChaptersKey == 0

(* The codec IDs are D_WEBVTT/ and the kind.  *)
kWebVtt == <<68, 95, 87, 69, 66, 86, 84, 84, 47>>
Kind ==
  [SUBTITLES |-> <<83, 85, 66, 84, 73, 84, 76, 69, 83>>,
   CAPTIONS |-> <<67, 65, 80, 84, 73, 79, 78, 83>>,
   DESCRIPTIONS |-> <<68, 69, 83, 67, 82, 73, 80, 84, 73, 79, 78, 83>>,
   METADATA |-> <<77, 69, 84, 65, 68, 65, 84, 65>>]
kWebm == <<119, 101, 98, 109>>
kEng == <<101, 110, 103>>

-----------------------------------------------------------------------------
(* The file. *)

(* ParseHeader and ParseSegment: the segment with all its clusters.  *)
ParseHeader(r) ==
  LET h == ParseEbmlHeader(r)
  IN [ok |-> h.s = "ok" /\ h.doc_type = <<kWebm>>, next |-> h.next]

ParseSegment(r, pos) ==
  LET created == CreateInstance(r, pos)
      loaded == SegmentLoad(r, created.seg[1])
  IN IF created.result.s # "ok" \/ loaded.result.s # "ok" THEN [ok |-> FALSE]
     ELSE [ok |-> TRUE, seg |-> loaded.seg]

-----------------------------------------------------------------------------
(* The map. *)

KindOf(track) ==
  {kind \in DOMAIN Kind : track.info.codec_id = <<kWebVtt \o Kind[kind]>>}

(* The tracks of a kind, by number; of equal numbers the last counts.  *)
BuildMap(seg) ==
  LET tracks == seg.tracks[1].entries
      found == {i \in DOMAIN tracks : tracks[i].info.number > 0 /\ KindOf(tracks[i]) # {}}
      keys == {tracks[i].info.number : i \in found}
      last(n) == Max({i \in found : tracks[i].info.number = n})
      Info(kind) == [kind |-> kind, name |-> <<>>, bytes |-> <<>>]
  IN [key \in keys \cup (IF seg.chapters # <<>> THEN {kChaptersKey} ELSE {}) |->
        IF key = kChaptersKey THEN Info("CHAPTERS")
        ELSE Info(CHOOSE kind \in KindOf(tracks[last(key)]) : TRUE)]

(* The file's name is the kind, and the number where a kind comes twice.  *)
OpenFiles(m) ==
  [key \in DOMAIN m |->
     LET same == {k \in DOMAIN m : m[k].kind = m[key].kind}
     IN [m[key] EXCEPT !.name = <<m[key].kind>> \o (IF same = {key} THEN <<>> ELSE <<key>>)]]

InitializeFiles(m) == [key \in DOMAIN m |-> [m[key] EXCEPT !.bytes = V!kId \o <<V!kLF>>]]

-----------------------------------------------------------------------------
(* A file that is written to. *)

Put(f, bytes) == IF f.ok THEN [f EXCEPT !.bytes = @ \o bytes] ELSE f
Check(f, good) == [f EXCEPT !.ok = @ /\ good]

RECURSIVE Decimal(_, _)
Decimal(n, digits) ==
  IF n < 10 /\ digits <= 1 THEN <<48 + n>>
  ELSE Decimal(n \div 10, digits - 1) \o <<48 + (n % 10)>>

(* The milliseconds of a time in units of the scale.  *)
Millis(timecode, scale) ==
  LET us == scale \div 1000
  IN (timecode \div 1000) * us + ((timecode % 1000) * us) \div 1000

(* WriteCueTime: the hours only when there are any.  *)
CueTime(ms) ==
  LET sec == ms \div 1000
      min == sec \div 60
      hr == min \div 60
  IN (IF hr > 0 THEN Decimal(hr, 2) \o <<V!kColon>> ELSE <<>>)
       \o Decimal(min % 60, 2) \o <<V!kColon>> \o Decimal(sec % 60, 2)
       \o <<V!kFullStop>> \o Decimal(ms % 1000, 3)

Arrow == <<V!kSPACE>> \o V!kArrow \o <<V!kSPACE>>

(* The lines of a text up to an empty one, of which there must be one.  *)
RECURSIVE WritePayload(_, _, _)
WritePayload(f, s, count) ==
  LET l == V!GetLine(s)
  IN IF l.e < 0 THEN Check(f, FALSE)
     ELSE IF l.line = <<>> THEN Check(f, count > 0)
     ELSE WritePayload(Put(f, l.line \o <<V!kLF>>), l.s, count + 1)

-----------------------------------------------------------------------------
(* Chapters. *)

WriteChaptersCue(f, seg, atom) ==
  LET scale == seg.info[1].timecode_scale
      named == Put(Put(f, <<V!kLF>>),
                   IF atom.string_uid = <<>> THEN <<>> ELSE atom.string_uid[1] \o <<V!kLF>>)
      timed == Put(Check(named, atom.start >= 0 /\ atom.stop >= 0),
                   CueTime(Millis(atom.start, scale)) \o Arrow
                     \o CueTime(Millis(atom.stop, scale)) \o <<V!kLF>>)
      title == Head(atom.displays).title[1]
  IN WritePayload(timed, [bytes |-> title, pos |-> 1], 0)

(* Only a single edition, with a single title in English for a chapter.  *)
WriteChaptersAtom(f, seg, atom) ==
  LET displays == atom.displays
      language == Head(displays).language
  IN IF ~f.ok \/ displays = <<>> THEN f
     ELSE IF Len(displays) > 1 \/ language \notin {<<>>, <<kEng>>} THEN Check(f, FALSE)
     ELSE WriteChaptersCue(f, seg, atom)

WriteChaptersFile(f, seg) ==
  LET editions == seg.chapters[1].editions
  IN IF editions = <<>> THEN f
     ELSE IF Len(editions) > 1 THEN Check(f, FALSE)
     ELSE FoldLeft(LAMBDA g, atom : WriteChaptersAtom(g, seg, atom), f, editions[1].atoms)

-----------------------------------------------------------------------------
(* Blocks. *)

(* WriteCue: the lines of a block are the cue's identifier, its settings, which
   follow the times, and its payload.  *)
WriteCue(f, r, seg, cluster, entry) ==
  LET frame == Head(entry.frames)
      start == Timecode(cluster, entry)
      scale == seg.info[1].timecode_scale
      identifier == V!GetLine([pos |-> 1,
                               bytes |-> SubSeq(r.bytes, frame.pos + 1, frame.pos + frame.len)])
      settings == V!GetLine(identifier.s)
      named == Put(Check(Put(f, <<V!kLF>>), identifier.e = 0),
                   identifier.line \o (IF identifier.line = <<>> THEN <<>> ELSE <<V!kLF>>))
      timed == Put(Check(Put(named, CueTime(Millis(start, scale)) \o Arrow),
                         entry.duration >= 0),
                   CueTime(Millis(start + entry.duration, scale)))
      set == Put(Check(timed, settings.e = 0),
                 (IF settings.line = <<>> THEN <<>> ELSE <<V!kSPACE>>)
                   \o settings.line \o <<V!kLF>>)
  IN WritePayload(set, settings.s, 0)

(* ProcessBlockEntry: of the tracks in the map, which only have block groups.  *)
ProcessBlockEntry(w, r, seg, cluster, entry) ==
  LET key == entry.track
      f == WriteCue([ok |-> TRUE, bytes |-> w.m[key].bytes], r, seg, cluster, entry)
  IN IF ~w.ok \/ key \notin DOMAIN w.m THEN w
     ELSE IF ~entry.group THEN [w EXCEPT !.ok = FALSE]
     ELSE [w EXCEPT !.ok = f.ok, !.m[key].bytes = f.bytes]

ProcessCluster(w, r, seg, cluster) ==
  LET p == ParseAll(r, cluster)
      done == FoldLeft(LAMBDA v, entry : ProcessBlockEntry(v, r, seg, p.cluster, entry),
                       w, p.cluster.entries)
  IN IF w.ok THEN [done EXCEPT !.ok = @ /\ p.result.s = "done"] ELSE w

(* WriteFiles: the chapters first, then cluster by cluster.  *)
WriteFiles(m, r, seg) ==
  LET started == InitializeFiles(m)
      f == WriteChaptersFile([ok |-> TRUE, bytes |-> started[kChaptersKey].bytes], seg)
      chaptered == IF kChaptersKey \notin DOMAIN m THEN [ok |-> TRUE, m |-> started]
                   ELSE [ok |-> f.ok, m |-> [started EXCEPT ![kChaptersKey].bytes = f.bytes]]
  IN FoldLeft(LAMBDA w, cluster : ProcessCluster(w, r, seg, cluster), chaptered, seg.clusters)

(* All of it, of a file that is all there.  Without metadata there is nothing
   to do, which the program says with an error.  *)
Demux(r) ==
  LET h == ParseHeader(r)
      s == ParseSegment(r, h.next)
      m == BuildMap(s.seg)
      nothing == [ok |-> FALSE, m |-> <<>>]
  IN IF ~h.ok THEN nothing
     ELSE IF ~s.ok \/ DOMAIN m = {} THEN nothing
     ELSE WriteFiles(OpenFiles(m), r, s.seg)
=============================================================================
