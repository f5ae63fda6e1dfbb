---------------------------- MODULE CaptionClient ----------------------------
(* A program that writes captions into a WebM file, as the blocks of metadata
   tracks and as chapters, makes WebVTT files of them with vttdemux, and reads
   these with the parser of WebVTT: the cues must be those that were written.

   A configuration says which cues there are to choose from, with what their lines
   end in the block, and which times are tried.  *)
EXTENDS MkvClient

CONSTANT Captions(_, _)      \* a call of vttdemux or of the parser: which one, its argument

VARIABLES
  cues,      \* the cues that were written, and which frames of the log they are
  files,     \* what vttdemux made
  vtt        \* the parser of one of the files, its last result, and the cues it found

captionVars == <<cues, files, vtt>>
allVars == <<clientVars, captionVars>>

NoParser == [key |-> -1, s |-> [bytes |-> <<>>, pos |-> 1], e |-> 0, cues |-> <<>>]

CaptionInit == Init /\ cues = <<>> /\ files = <<>> /\ vtt = NoParser

-----------------------------------------------------------------------------
LF == <<10>>

(* A cue as the lines of a block: identifier, settings, payload.  *)
SettingsLine(settings) ==
  FlattenSeq([i \in DOMAIN settings |->
                (IF i = 1 THEN <<>> ELSE <<32>>)
                  \o settings[i].name \o <<58>> \o settings[i].value])

BlockText(cue) ==
  cue.identifier \o LF \o SettingsLine(cue.settings) \o LF
    \o FlattenSeq([i \in DOMAIN cue.payload |-> cue.payload[i] \o cue.ends[i]])

(* The frame of a cue.  Its times are milliseconds from the start of the last.  *)
CueFrame(c) ==
  LET start == c.delta + (IF log = <<>> THEN 0 ELSE Last(log).timecode)
      scale == seg.info.timecode_scale
  IN Metadata(c.track, start * scale, BlockText(c.cue), c.lasts * scale)

AddCaption ==
  /\ stage = "write" /\ Len(log) < conf.frames
  /\ \E c \in conf.captions :
       LET f == CueFrame(c)
           s == Mux("AddFrame", seg, f)
       IN /\ seg' = s
          /\ log' = IF s.w.ok THEN Append(log, Kept(f)) ELSE log
          /\ cues' = IF s.w.ok THEN Append(cues, [caption |-> c, frame |-> Len(log) + 1])
                     ELSE cues
          /\ stage' = IF s.w.ok THEN stage ELSE "failed"
  /\ UNCHANGED <<conf, readerVars, files, vtt>>

(* vttdemux, of the file when it is finished.  *)
DemuxFile ==
  /\ stage \in {"final", "moved"} /\ conf.captions # {}
  /\ stage' = "demux"
  /\ r' = [bytes |-> seg.w.out, total |-> Len(seg.w.out), avail |-> Len(seg.w.out)]
  /\ files' = Captions("Demux", r')
  /\ UNCHANGED <<conf, seg, log, phase, at, parsed, last, cues, vtt>>

OpenCaptions ==
  /\ stage = "demux" /\ vtt.key = -1
  /\ \E key \in DOMAIN files.m :
       LET p == Captions("Init", [bytes |-> files.m[key].bytes, pos |-> 1])
       IN vtt' = [key |-> key, s |-> p.s, e |-> p.e, cues |-> <<>>]
  /\ UNCHANGED <<clientVars, cues, files>>

ParseCue ==
  /\ vtt.key # -1 /\ vtt.e = 0
  /\ LET p == Captions("Parse", vtt.s)
     IN vtt' = [vtt EXCEPT !.s = p.s, !.e = p.e,
                           !.cues = IF p.e = 0 THEN Append(@, p.cue) ELSE @]
  /\ UNCHANGED <<clientVars, cues, files>>

(* A time that is written by vttdemux and read by the parser.  *)
ReadTime ==
  /\ stage = "time" /\ vtt = NoParser
  /\ \E ms \in conf.stamps :
       vtt' = [NoParser EXCEPT !.key = ms, !.e = 1, !.cues = <<Captions("Time", ms)>>]
  /\ UNCHANGED <<clientVars, cues, files>>

Captioning == AddCaption \/ DemuxFile \/ OpenCaptions \/ ParseCue \/ ReadTime

CaptionNext == (Next /\ UNCHANGED captionVars) \/ Captioning

CaptionSpec ==
  /\ CaptionInit /\ [][CaptionNext]_allVars
  /\ WF_clientVars(Arrive)
  /\ []<>~CanRead \/ []<><<HasRead>>_clientVars

-----------------------------------------------------------------------------
(* A fraction below 100 thousandths is read as another, except 0.  *)
TimeRead(t, ms) ==
  /\ <<t.hours, t.minutes, t.seconds>> =
       <<ms \div 3600000, (ms \div 60000) % 60, (ms \div 1000) % 60>>
  /\ ms % 1000 \in {0} \cup 100 .. 999 => t.milliseconds = ms % 1000

(* Times are counted and compared as milliseconds are.  *)
Counts(t) ==
  LET later == Captions("Plus", <<t, 1>>)
  IN /\ Captions("Before", <<t, later>>) /\ ~Captions("Before", <<later, t>>)
     /\ Captions("Distance", <<later, t>>) = 1
     /\ Captions("Minus", <<later, 1>>) = t

(* The cues of a file: of a track, or the chapters.  *)
CuesOf(key) ==
  IF key = 0
  THEN [i \in DOMAIN seg.chapters.entries |->
          LET c == seg.chapters.entries[i]
          IN [identifier |-> c.id, settings |-> <<>>,
              payload |-> <<c.displays[1].title>>, start |-> c.start_timecode,
              stop |-> c.end_timecode]]
  ELSE LET own == SelectSeq(cues, LAMBDA x : x.caption.track = key)
       IN [k \in DOMAIN own |->
             LET c == own[k].caption
                 start == log[own[k].frame].timecode
             IN [identifier |-> c.cue.identifier, settings |-> c.cue.settings,
                 payload |-> c.cue.payload, start |-> start, stop |-> start + c.lasts]]

(* Every caption track and the chapters have a file of their own, and the cues
   in it are the ones that were written, with their identifier, settings, text
   and times, in order, and no others.  Of the times the parser misreads those
   whose fraction starts with a zero.  *)
CaptionsReadBack ==
  /\ stage = "demux" =>
       /\ files.ok
       /\ \A j, k \in DOMAIN files.m : files.m[j].name = files.m[k].name => j = k
  /\ stage = "demux" /\ vtt.key # -1 =>
       LET written == CuesOf(vtt.key)
       IN /\ vtt.e >= 0
          /\ Len(vtt.cues) <= Len(written)
          /\ vtt.e > 0 => Len(vtt.cues) = Len(written)
          /\ \A i \in DOMAIN vtt.cues :
               /\ vtt.cues[i].identifier = written[i].identifier
               /\ vtt.cues[i].settings = written[i].settings
               /\ vtt.cues[i].payload = written[i].payload
               /\ TimeRead(vtt.cues[i].start_time, written[i].start)
               /\ TimeRead(vtt.cues[i].stop_time, written[i].stop)
  /\ stage = "time" /\ vtt.cues # <<>> => TimeRead(vtt.cues[1], vtt.key) /\ Counts(vtt.cues[1])
=============================================================================
