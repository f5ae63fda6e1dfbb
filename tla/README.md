# A TLA+ model of chrome-video-encoder

chrome-video-encoder is a Native Client plugin that records camera tracks a web
page hands over into a WebM file. This directory holds TLA+ modules of its
logic, the TLC configurations that check them on small instances, and proofs of
theorems about them for every instance (TLAPS).

    tlc -config MCOneTrack.cfg MCVideoEncoder     # one of the runs below
    tlapm VideoEncoder_proofs.tla                 # one of the proof modules

File and line references are to `src/src/`. `PROJECT.json` lists, for machines,
the components, runs, mutants, theorems, hazards and the lines each definition
models.

## 1. The program

### Parts, and how they interact

| part | state | operations |
|---|---|---|
| `VideoEncoderInstance` (video_encoder_instance.cpp) | the current encoder and muxer, the list of tracks, globals for the encoder thread | the page's commands `start`, `change_track`, `stop` |
| `VideoEncoder` (video_encoder.cpp) | map of tracks, the one in use, flags, queue of labels, counters | `AddTrack`, `SetTrack`, `Encode`, `StopEncode`; the callbacks `OnInitializedEncoder`, `GetEncoderFrameTick`, `OnEncoderFrame`, `OnEncodeDone`, `OnGetBitstreamBuffer` |
| `VideoTrack` (video_track.cpp) | current frame, tracking flag | `StartTracking`, `StopTracking`, `RecycleFrame`; the callbacks `ConfigureCallback`, `TrackFramesLoop` |
| `WebmMuxer` (webm_muxer.cpp) | two flags, the Segment, the last frame, the count of delayed frames | `AddVideoFrame`, `Finish`, destructor |
| `mkvmuxer::Segment` (libwebm/mkvmuxer.cpp) | clusters, cues, queue of audio frames, seek entries, last time | `AddGenericFrame`, `ForceNewClusterOnNextFrame`, `Finalize` |
| `mkvmuxer`'s other elements and the bytes of the file (libwebm/mkvmuxer.cpp, mkvmuxerutil.cpp, mkvwriter.cpp) | info, tracks, chapters, tags, seek head; the file and the position in it | setters; `Write`, `Size` and `Finalize` of each; `AddFrame` and its variants; `CopyAndMoveCuesBeforeClusters` |
| `mkvparser` (libwebm/mkvparser.cpp) | the headers read, the array of clusters with the blocks parsed of each | `ParseHeaders`, `LoadCluster`, `Cluster::Parse`, walks, cues, seeks |
| WebVTT tools (libwebm/vttdemux.cc, webvttparser.cc) | one file per metadata track; a stream with its lines | `WriteFiles`; `Parser::Parse` |
| libogg (libogg/framing.cpp, bitwise.cpp) | stream states, sync state, bit buffers | `packetin`, `pageout`, `pageseek`, `pagein`, `packetout`; `write`, `read` |
| `AudioEncoder` | compiled out (`USING_AUDIO`) | |
| the browser (PPAPI) | buffers of the tracks, input frames of its encoder, bitstream buffers | answers requests by posting callbacks |

Two threads matter. The **main thread** runs the page's commands. The **encoder
thread** runs every callback of encoder and tracks, one at a time, in the order
in which the browser completes the requests. `start` makes a muxer and an
encoder and posts `Encode` to the encoder thread; the tracks capture frames by
themselves; a tick takes the current frame of the track in use and asks the
browser for an input frame; the answer copies the frame, recycles the camera's
buffer and encodes; the bitstream loop collects what was encoded, labels it with
the oldest entry of `timestamps`, and hands it to the muxer; the muxer writes it
to a Segment. `stop` runs `StopEncode` on the main thread, in the middle of all
that, and then deletes the encoder and the muxer.

    page --command--> Instance --work--> VideoEncoder --label, data--> WebmMuxer --> Segment --> file
                                           ^      |
    camera --buffers--> VideoTrack --frame-+      +--requests/callbacks--> browser's encoder

Beside these parts the repository carries libraries of which the program uses a
part only, or which belong to a path that is compiled out: the rest of libwebm
(everything a WebM file may have, the parser that reads it, two WebVTT tools) and
libogg. They run in one thread, in calls that return; what a file or a stream is
read back as depends on all of them together.

### What is hard

* **Two threads without a lock.** `StopEncode` interleaves statement by
  statement with the encoder thread; commands read flags that the encoder thread
  sets later; posted work reads globals when it runs.
* **Pipelines with several stages.** A camera buffer must be given back exactly
  once, to the track it came from; labels travel beside the frames in a queue of
  their own; the flag for a key frame is set at one stage and read at another.
* **Partial failures.** A copy, an encode, an initialization, a bitstream
  request, a write to the muxer may fail, each leaving some state behind.
* **Times.** Two tracks share no time base, frames may be late, and a WebM block
  can lie no more than 32767 timecodes after its cluster.
* **Bookkeeping across loops in the Segment.** Queued audio is written in three
  different loops, with a cue due in whichever meets the first video block.
* **Two descriptions of the same bytes.** libwebm computes the size of every
  element in one function and writes it in another, and the parser is a third.
* **Data that is not all there.** The parser reads files that still grow, and goes
  on from where it stopped; libogg finds its pages again behind lost or damaged
  bytes.

### What makes each part correct

* VideoTrack: no buffer is lost, held twice, or used after it was given back.
* VideoEncoder: input frames are conserved; labels match; frames stay in order;
  key frames come often enough; what is taken is given back and what is
  submitted is saved; the file never goes back in time.
* WebmMuxer: what is answered with true is in the file; pictures dropped are
  made up for; a finished file is complete.
* Segment: cues index the clusters; key frames open clusters; no accepted frame
  is lost, repeated or moved; a file with video can be finalized.
* Container: what mkvmuxer wrote, mkvparser reads, however the file arrives; cues
  and seek head lead to what they name; walks and seeks find every frame.
* WebVTT: the cues come out of the file as they went in.
* libogg: packets come out whole and in order or with a hole between them; bits are
  read as they were packed.
* Instance: one recording at a time, with its own tracks; commands affect the
  encoder they are meant for.

Every place in the code where one of these could go wrong in a way a test would
hardly reach is listed under "hazards" in `PROJECT.json`, with the properties
that watch it, or with the reason why none does.

## 2. The modules

| module | models | builds on |
|---|---|---|
| `VideoTrack` | one GetFrame loop per track, and the browser's side of it; operators only | |
| `TrackClient` | the contract VideoTrack asks of its client, as a specification | VideoTrack |
| `VideoEncoder` | the pipeline of one recording, the browser's encoder, the stop sequence | VideoTrack; refines TrackClient and Recording |
| `Recording` | abstract: what the encoder promises of the file | |
| `Segment` | libwebm's Segment as pure operators on a record | SequencesExt |
| `SegmentClient` | a caller of Segment with a video and an audio track | Segment |
| `WebmMuxer` | the muxer and its file | Segment |
| `Session` | the instance's commands, globals and posted work | |
| `MkvIds`, `Ebml` | element IDs; sizes, numbers, strings and elements as bytes in a file | |
| `MkvHeaders` | the elements around the clusters: the size each announces, the bytes it writes | Ebml |
| `MkvFile` | libwebm's Segment, byte by byte, with frames of every kind | MkvHeaders |
| `MkvElements` | the parser of the elements before the clusters | MkvIds |
| `MkvParser` | the incremental parse of clusters and blocks | MkvElements |
| `MkvReading` | the array of clusters: loading, preloading, walks, seeks | MkvParser |
| `MkvClient` | a program that writes a file and one that reads it while it arrives | MkvFile, MkvReading |
| `WebVtt`, `VttDemux` | the WebVTT parser; the files made of a WebM file's captions | MkvReading |
| `CaptionClient` | captions into a file, out of it, and read again | MkvClient, VttDemux |
| `OggStream`, `OggSync` | libogg's stream and sync states, as operators on records | SequencesExt |
| `OggChannel` | a writer and a reader of pages, with an unreliable wire between them | OggStream, OggSync; refines PacketChannel |
| `PacketChannel` | abstract: packets in order, with holes where some are missing | |
| `OggPack`, `OggPackClient` | libogg's bit packer; a program that packs and reads | |
| `OggSelfTest` | the tests at the end of libogg's two files, on the models | OggStream, OggSync, OggPack |
| `VideoTrack_proofs`, `Segment_proofs` | lemmas: what each operation of these two preserves | their modules, TLAPS |
| `TrackClient_proofs`, `VideoEncoder_proofs`, `SegmentClient_proofs`, `WebmMuxer_proofs`, `Session_proofs` | theorems and their proofs | their modules, the lemmas above, TLAPS |
| `OggChannel_proofs` | the layout of packets on pages, and the refinement of PacketChannel | OggChannel, TLAPS |
| `MCTrackClient`, `MCVideoEncoder`, `MCSegment`, `MCWebmMuxer`, `MCSession`, `MCContainer`, `MCOgg` | instances for TLC | their modules |

### VideoTrack and TrackClient

A frame is a record of its track and capture time; pixels are left out. Each
variable is a field of the C++ object (`tracking`, `current`), an outstanding
callback (`configuring`, `fetching` and the frame it was completed with,
`arrival`), or the browser's side (`closed`, `lent`, `clock`). `Capture` is the
browser completing a GetFrame; the other operators are the handlers, each one a
whole call, except StopTracking: the main thread runs it while the encoder thread
goes on, so that its statements are steps of their own (`ClearTracking`,
`RecycleCurrent`, `CloseTrack`), and `halt` says how far it is. A frame may be
taken, arrive or be dropped between two of them. `TrackClient` lets a client
take and give back frames, and stop tracks, in any order that respects the contract.

### VideoEncoder

The variables fall in five groups: the fields of the object; the requests and
posted callbacks (`init`, `ticks`, `waiting`, `given`, `refused`, `dones`,
`bits`); the browser's encoder (`slots`, `submitted`, `coded`, `shut`); the
place `StopEncode` has reached on the main thread (`stopping`); and history
(`switches`, `recorded`, `gap`). Each callback of the code is one action per
outcome: for example OnEncoderFrame is `OnEncoderFrame` (copied and encoded),
`OnEncoderFrameNotCopied`, `OnEncoderFrameRefused` and `OnEncoderFrameAborted`.
`StopEncode`'s statements are the actions `StopEncode`, then `StopTrack` for each
statement of each track's StopTracking, one track after the other, `CloseEncoder`,
`ClearTracks`, `ClearEncoding`, `FinishMuxer`, and `DeleteEncoder`. Handlers of the
encoder thread run between any two of these; what may fail is the constant `Faults`.

`Recording` is the abstract specification of the result: a block holds a captured
frame under its own time, not older than the block before it. `FileSpec` says
VideoEncoder implements it, `ContractSpec` that it implements TrackClient.

### Segment and SegmentClient

A segment is a record of the members that matter: clusters with their blocks,
cues, the queue of audio frames, the number of seek entries, `last_timestamp`
and the two flags. Each operator is one method and returns what the method
returns and the segment it leaves, also when it fails half way. A position in
the file counts the cluster headers and blocks written before it. `freed` counts
frames deleted while still queued: the code deletes them one by one and shortens
the queue at the end, so an error in between leaves them there, and the next use
is undefined (`crashed`). The loop of `DoNewClusterProcessing` is unrolled to
three turns, which is all it can take: the second cluster made for a frame
starts at the frame itself, so the third test cannot answer 2 again.

`SegmentClient` calls the interface in any order, with a time for each track
that moves by given steps; this is the video the program writes together with
the audio its disabled path would. `Gentle(m)` names tracks that keep together: no
video frame is more than m later than the one before, neither track is more than
m ahead of the other, audio does not go back, and m is short enough (`Roomy`) that
a frame m later than the last still has room in the cluster of the last.

### WebmMuxer

The two flags, the pointer (`"null"`, `"live"`, `"deleted"`), the segment behind
it, `last_frame`, `delayed_frame_count`. `AddVideoFrame` is one action: Init,
CreateFrame, the test for a late or empty frame, SaveDelayed, AddGenericFrame.
The caller is any: frames in any order of times, with or without data, Finish
and the destructor at any moment.

### Session

An encoder and its muxer are one object here, numbered by creation; of the
encoder only what a command can see is kept. A command is one step: what happens
between the statements of StopEncode is VideoEncoder's matter. What the page lists
are `Resources`, of which only `Tracks` are video tracks: AddTrack refuses the others
(`Added`), and their id is unknown from then on. The page may send
any command at any time, and may close: the destructor deletes the encoder in use
and lets the thread finish what was posted. Two history variables record how careful it has been:
`waited`, while every start was valid and came after the "StopComplete" of the
encoder before (or was the first); `patient`, while every change_track named a
listed track of an encoder that was encoding and no stop was obeyed with work
posted, and the page was not closed then either. What the properties say only of such pages is what a page must take care
of because the program does not.

### MkvIds, Ebml, MkvHeaders, MkvFile

The file as bytes. A writer is the bytes, the position, the room on the device
and whether every call so far succeeded; the functions of the library return at
the first call that fails, so an operator on a writer that is not ok does nothing.
An element is a record of its ID, kind and value, and a method that computes a
size and a method that writes are two operators over two lists of elements, as
the source has two functions: `WriteTrack` checks the one against the other, like
most `Write` methods, and the writer fails when they differ.

`MkvFile` is Segment once more, for the other half of what it does: here a frame
has bytes, a duration, padding, additional data; blocks are written as
SimpleBlock, BlockGroup or with BlockAdditions; clusters have sizes that are
written over a placeholder, or none in kLive mode; the cues may be moved in front
of the clusters, which makes them grow. The queue for audio is not repeated: the
clients of this module add audio only where there is no video.

### MkvElements, MkvParser, MkvReading

The parser. A reader is the bytes, the total size or -1, and how many bytes can
be read by now. The elements before the clusters are read in whole or not at
all (`MkvElements`). Clusters are not: `MkvParser` has the calls that end with
"need" when bytes are missing and are repeated later on the state they left, the
blocks with their lacings, cue points and `GetBlock`. `MkvReading` has the array of
clusters: those loaded in order, behind them those that were met out of order
(preloaded), and the one whose end is not known yet; and on it `GetFirst`,
`GetNext`, `Seek`, `FindCluster`, `ParseNext`. GetNext has four answers, as in the
source: a cluster; the end-of-stream cluster after the last one loaded, for which a
walk along a track (`TrackScan`) asks for bytes while there are some to come; NULL
after a preloaded cluster that nothing follows, for which the walk is done; and
`Aborted`, where one of its assertions about the header of the next element fails.

### MkvClient, WebVtt, VttDemux, CaptionClient

`MkvClient` sets up a segment (tracks and their settings, chapters, tags), adds
frames, finalizes, may move the cues, and then lets the file arrive in portions
while a reader parses it and looks things up in it. What it writes and how it
reads is a configuration; `MCContainer` has fourteen of them, since everything at
once is too much. The n-th frame's bytes are all n, so that a block tells which
frame it is. A look-up that fails an assertion ends the reader (`phase` is
"aborted"); what the last one found, and whether it was ahead of the clusters loaded
in a file still arriving, is in `last`. `CaptionClient` continues it: the cues of three metadata tracks and two
chapters become WebVTT files (`VttDemux`), which are parsed (`WebVtt`) byte by
byte: lines that end with CR, LF, both or the stream, identifiers, settings,
payload, times.

The calls of the libraries are constants of these clients (`Mux`, `ParserCall`,
`Captions`), which MCContainer defines by the operators of the library: TLC's
coverage expands operators at every call otherwise.

### OggStream, OggSync, OggChannel, PacketChannel

A stream state is the record of what `ogg_stream_state` decides on: lacing values
with their flags and granule positions, bytes, counters. One record serves both
directions, as in the source. In the sync layer bytes are tokens: the capture
pattern and the fields of a header are one each, and any byte of a body may be the
capture pattern. A checksum fits the page it was computed for and no other.
The loop of ogg_sync_pageout, which goes from capture pattern to capture pattern, is
the choice of the first place from which pageseek does not fail.

`OggChannel` submits packets, takes out pages or flushes them, loses, cuts or
damages some, mixes in pages of another stream, lets allocations fail, feeds the
reader in portions, and lets it seek. `PacketChannel` is what it promises:
packets in order, and never one missing without a hole or a seek in its place.

### OggPack, OggPackClient, OggSelfTest

A byte is the set of its one bits; memory that nobody wrote is all ones. The
client packs, copies, aligns and truncates in any order, in either bit order, and
then reads, looks and advances. `OggSelfTest` is the library's own tests: their
packets and words, through the models with the constants of the source, must give
the pages, checksums and values the tests expect.

## 3. The runs

Passing runs. Each checks its properties on the whole state space of the
instance, and each property fails when the definition of the code named in its
mutant is changed the way a bug would change it.

| run | cfg | shows |
|---|---|---|
| track_contract | MCTrackClient | Two tracks, two buffers each: no buffer lost (`LentIsInHand`) or with two holders (`OneHolder`). |
| one_track | MCOneTrack | A whole recording of one track, stopped anywhere, with failing initialization, copies, encodes, bitstream loop and muxer: labels are there when they are taken (`TypeOK`), the track is never starved, and every camera frame is given back once (`ContractSpec`: TrackClient is implemented). |
| two_tracks | MCTwoTracks | A track change at any moment: labels stay in step and the file never goes back in time (`FileSpec`: Recording is implemented), although the tracks share no time base. |
| progress | MCProgress | Under fairness, frames taken are given back so that the browser can capture into them again, frames submitted are saved, and a track change is carried out even when no frame is captured, up to a stop; input frames are conserved and key frames come often enough. |
| segment_cues | MCSegment | Video and audio at steady times in any interleaving, video that goes back in time, clusters forced at any moment: all the Segment's properties. |
| muxer | MCMuxer | Late, empty and refused frames, gaps, files that do not open, Finish and deletion at any time: once the muxer has caught up the file has one block per call, and a dropped picture is the last one saved before it (`FrozenPicture`, for one file, without a gap after which the segment may refuse a key frame and without a Finish that failed half way); what was answered with true is in the file; a finished file is complete. |
| session | MCSession | Any page: a stop that is obeyed, or the page's end, deletes the encoder made last, and no other. While the page waits for StopComplete: one recording at a time, with its own tracks. While it is patient as well: workers find their encoder, the last track change wins. |
| container | MCContainer | A file that mkvmuxer finished is read by mkvparser without an error at any point of its arrival (`NeverRefused`), to its end (`ReadsToTheEnd`): headers as they were set, blocks as they were added, seek head and cues leading where they should also after the cues moved; walks (`WalksInOrder`) and seeks (`SeeksByTime`) finding the frames they should whatever was loaded before, except ahead of the clusters loaded while the file still arrives. Captions come out of it as they went in. |
| ogg | MCOgg | A page ends inside a packet only when it is full; packets come out with their bytes and labels, in order, with a hole where some are missing (`ChannelSpec`); a packet whose pages arrived comes out, whatever was lost around it; words are read as they were packed; the library's tests pass. |

Violation runs. Each checks one statement of the code's own documentation,
comments or messages that the code does not keep; the counterexample is the
finding (`findings` in `PROJECT.json` quotes the line).

| run | cfg | the statement, and what happens |
|---|---|---|
| switch_key_frame | MCKeyOnSwitch | "force_key_frame ... sem perdas": EncodeFrame overwrites the flag the tick set. |
| failed_encode_labels | MCLabels | `timestamps` labels the frames encoded: a failed Encode leaves its label, and all later ones are shifted. |
| after_finish | MCFinished | Finish ends the recording: a callback already answered reopens the file. |

Other things the models show, which no run is kept for:

* RunningTracksHaveBuffers and ContractSpec hold only without a track change
  (and then always: section 5):
  OnEncoderFrame recycles on the track in use when it runs, so frames in flight
  at a change are given back to the wrong track.
* A key frame more than kMaxBlockTimecode after the last cluster needs two new
  clusters; Cluster::Finalize refuses the first, which is empty, and every later
  frame fails, though mkvmuxer.hpp:1336-1337 promises that it is written.
* AcceptedIsKept holds only without long gaps: when a queued audio frame cannot
  be written, the ones before it have been deleted and are still queued.
* last_ts moves on, and SaveDelayed moves last_frame, whatever the muxer or the
  segment answers.
* A Finish that fails after it has closed the last cluster leaves the muxer
  initialized, with a file that takes no more frames and cannot be finished. Each
  Finish that fails before the first frame takes one of the five seek entries; after
  two of them the frames are still written, and Finish fails after them.
* With chapters and tags both (`Extras = 2`) the header takes all five seek entries,
  and Finalize refuses the cues theirs: VideoCanBeFinished is about files without
  one of the two.
* Frames delayed at the end are not made up for, and the count of them survives
  into the next file of the same muxer.
* Finish before any frame calls a null Segment; the destructor deletes pSegment
  again after Finish.
* Two starts in a row are both accepted while the first encoder is initialized; a
  stop in that time is ignored; a start keeps the tracks of one that failed half
  way; posted work may find its encoder deleted, or its id replaced.
* Frame::CopyFrom leaves out the reference timestamp (mkvmuxer.cpp:144-167), so a
  queued frame that needs one is not valid any more and blocks the queue.
* EbmlElementSize of a string counts one byte for its length
  (mkvmuxerutil.cpp): a name of 127 bytes or more makes Write fail.
  A null encryption key is sized as nothing and then fails to be written.
* WriteSegmentHeader, tried again after a failure, writes a second EBML header.
* A file whose last frame is at time 0 keeps the placeholder 1.0 as its duration.
* With a maximal cluster size a cluster, and its cue, may begin with a video frame
  that is no key frame.
* mkvparser reads a chapter's UID as a signed number (200 is -56), forgets whether
  content encodings were parsed, refuses a last element of size 0, and calls a file
  of which fewer than four bytes have arrived no WebM file.
* ParseNext after a preloaded cluster whose end is not known always fails: it
  reads the ID of the next with ReadUInt (mkvparser.cpp:2762). NeverRefused and
  WalksInOrder say so.
* Ahead of the clusters that are loaded, a walk in a file that still grows is not
  safe. Segment::GetNext asserts that the ID and size of the next element, and the
  cluster they announce, have arrived (mkvparser.cpp:2551, 2604, 2622); where it
  returns NULL instead, Track::GetNext reports the end of the track (4742-4745)
  with a frame still due. A seek asserts that the clusters it looks through have
  arrived as far as it parses them (7086). Built with NDEBUG the assertions let it go on with what it
  has; in the model they end the reader. WalksInOrder and SeeksByTime except this
  case and no other.
* FindCluster finds the first cluster for a time that is not after its own, even if
  a later one has the same.
* The last cluster of a stream of unknown length and without sizes never ends:
  ReadsToTheEnd is about files whose size is known.
* The WebVTT parser reads the fraction ".005", which vttdemux writes for 5 ms, as
  500 ms: `TimeRead` leaves fractions below 100 out, except 0.
* oggpack_writecopy's aligned copy fails, and clears the buffer, whenever the
  buffer would have to grow (bitwise.cpp:200-202: the condition for the error
  follows from the one for growing).

### Bounds, and why they are enough

* Frames: MaxTs up to 4 captures per track (`MCOneTrack`) with 2 input frames
  and KeyFrameRatio 1, so that the pipeline fills, drains and fills again and at
  least two forced key frames fall into a recording. KEY_FRAME_RATIO is 20 in
  the code; only the comparison with frame_count matters, and the interval
  theorem is proved for every ratio.
* Buffers: 2 or 3 per track: one held, one arriving, one free.
* Track changes: one in the run with two tracks, which has the handlers on both
  sides of it, frames of both tracks in the pipeline and the stop of both tracks,
  statement by statement; one in the run for liveness, where
  the one track is selected again. The theorems on labels and the file (section 5)
  are for any number.
* Times in Segment and WebmMuxer: a timecode is two units of time, so that frames share
  timecodes; kMaxBlockTimecode is 4 instead of 32767 and the cluster's duration 4
  or 5 units instead of 30 s, so that as in the code a cluster's duration ends
  before its timecodes do; a step of 11 units exceeds both.
* MaxFrames: 5 frames make up to five clusters with audio queued across each.
  `MaxSkew` keeps the two tracks within 2 units, as two live sources are, in the
  run that says no frame is lost.
* MaxCalls: 5 frames to the muxer, in up to two files: three frames delayed
  between two saved, or a gap, a refusal and a frame after it.
* Session: two starts, two tracks and a resource that is none, three track changes, up to three posted works:
  what goes wrong with a second recording needs only the first before it.
* Container: real constants (kMaxBlockTimecode is 32767, sizes are bytes), few
  frames: up to three, which make up to three clusters, each met by loading, by a cue
  or by a walk; twelve where the cues are to grow when they move. Each configuration of
  MCContainer is there for one thing: any setting of any header element; blocks of
  every kind in clusters of 30 bytes; a file that arrives byte by byte, in pieces,
  without sizes; times at both sides of kMaxBlockTimecode; a device that is full in
  the headers, in a cluster, in the cues; laced blocks with sizes around 63, 127
  and 255; captions; times of WebVTT up to 100 hours. Frames of 123 bytes make the
  size of a block 127, the first number that one byte cannot code.
* libogg: lacing limit 2 instead of 255, 2 segments to a page: packets of 0, 1 and 4
  bytes end in the middle of a page, exactly with it, and on the page after. Three
  packets and one fault: what a fault does reaches its neighbours only. Portions
  of 6 tokens cut pages anywhere. Bytes of 3 bits, words of 12, three packing calls
  and two reads; the tests run with the source's constants, page checksums up to
  bodies of 100 bytes.
* Counters bounded by guards: `MaxTs`, `MaxSwitches`, `MaxFrames`, `MaxCalls`,
  `MaxFiles`, `MaxStarts`, `MaxWork`, `MaxChanges`, `MaxPackets`, `MaxFaults`,
  `PackOps`, `ReadOps`, and a configuration's `setup` and `frames`. When they are reached the
  system stops, which is why deadlock is not checked.

### Fairness

Weak fairness is assumed of the callbacks of the encoder thread, which is a
message loop that runs what was posted; of the browser's answers to requests;
and of the rest of StopEncode once it has begun. None is assumed of the camera,
of the page, or of the outcome of anything that may fail.

In MkvClient the bytes of a file that is being read go on arriving, and the reader
goes on with its next call when it has one that is not waiting for bytes; the
latter is weak fairness of its calls, written as []<>~CanRead \/ []<><<HasRead>>_vars,
because TLC would compute the whole parse for ENABLED once more in every state.

## 4. What is assumed of the code outside src/

* The browser codes inputs in order and answers one bitstream request per
  successful Encode; callbacks of one kind are posted in order.
* A PPAPI call that fails at once posts its callback with the error, as the
  callbacks here are not optional; Close aborts the requests not yet answered.
* A deleted object's callback factory drops its callbacks.
* An input frame is free again when OnEncodeDone runs.
* A track cannot capture while all its buffers are lent.
* Writes to the file succeed in Segment, SegmentClient and WebmMuxer; in MkvFile
  the device may be full. Reads succeed. Allocations succeed, except in libogg's
  framing.
* A failing write is told by the call it happens in: stdio's buffer is left out.
* The CRC of a damaged page is never the one it carries; `OggSelfTest` checks the
  function itself.

## 5. What is proved

The theorems hold for every value of the constants: any number of tracks,
buffers, frames, calls, files and recordings, any times, and any choice of what
may fail. Where a theorem assumes more, this section says so. Each states a
property that a run checks.

**From the camera to the encoder's client**

* `TrackClient_proofs`: `NoBufferLost` (LentIsInHand) and `HeldOnce`
  (OneHolder). LentIsInHand is not inductive alone: a captured frame must be
  new, which is why the invariant `IInv` adds `Past` (frames in hand are not
  younger than their track's clock) and `Awaited` (a frame arrives only where a
  request is open, and the request of a track not being stopped is that of a
  tracking loop). While a track is being stopped, what is in hand is still lent, but
  a frame that arrives between two of the statements is dropped and stays lent.
* `VideoEncoder_proofs`: `TypeCorrect` (TypeOK), by `TypeInv`: labels can only
  be typed if front() is not taken of an empty queue, which needs `LabelQueued`
  (at least one label per frame in the encoder) and `Idle` (nothing is in the
  pipeline before initialization). `InputsConserved` (SlotsConserved).
  `KeyFramesOften` (KeyFrameInterval), by `KeyInv`, which relates frame_count to
  the frames submitted and the OnEncodeDone callbacks on the way.
  `LabelsKeepStep` (LabelsInStep): the queue of labels is the sequence of the
  times in the encoder, coded first, preserved as frames move between the two.
  Then the two refinements, and what follows from them. A track's
  frames are younger the further they are from the file: last block, coded,
  submitted, given an input frame, waiting for one, the track's own, its clock.
  `OrderInv` says so; each handler takes the head of one stage and makes it the
  tail of the next.
  * `FileKept` (FileSpec): VideoEncoder implements Recording while no Encode
    fails: `FileInv` adds that labels are in step and that no block has a label
    after `lastTs`.
  * `ContractKept` (ContractSpec): without track changes it implements
    TrackClient, step by step: `OneTrack` says that all that was taken is the
    track's in use, and no frame is in two places.
  * `BuffersRemain` (RunningTracksHaveBuffers, of tracks that are tracking and not
    being stopped): this contract, with the theorems
    of TrackClient_proofs instantiated for the frames VideoEncoder has taken.

**From the muxer to the file**

* `Segment_proofs`: the lemmas. `Good` is what every method of Segment leaves of
  a segment, whether it succeeds or not: the queue holds audio only, each cluster
  has the position it has in the file, the cues are those of the clusters with
  video, key frames come first, and new_cuepoint is set just as long as the last
  cluster has no video. None of these is inductive without the others: a cue is
  added because new_cuepoint says so, with the cluster's position, and a queued
  video frame would be written behind a key frame. What the file contains, cluster
  after cluster (`Content`), and which clusters are closed is here as well.
* `SegmentClient_proofs`: `CuesAreTheIndex` (CuesIndexClusters) and
  `KeyFramesFirst` (KeyFramesOpenClusters), for every caller. And for tracks that
  keep together, for any m with `Gentle(m)`: `NothingLost` (AcceptedIsKept),
  `InOrderIsWritten` (FrameInOrderIsWritten), `AudioFollowsKeyFrame`
  (AudioWithKeyFrame) and, with a seek entry left for the cues (`Extras # 2`),
  `VideoFinishes` (VideoCanBeFinished). The invariant is `Keeping`: file and queue,
  one behind the other, are the frames accepted in the order they came (`Held`).
  That alone is not inductive, since a loop that meets a block its cluster refuses
  loses what is behind it. `Steady` adds why none does: only the last cluster is
  open, it begins at most `Bound(m)` before the last frame written, the queue is in
  order of times and numbers, and no queued frame is earlier than the last one
  written or more than m later. From there each turn of DoNewClusterProcessing is
  followed through its three loops (`Wrote`, `Settled`, `Made`): a new cluster
  begins at the frame or at the first one left queued, which is in reach of both.
  With the program's values, a cluster of 30 s and kMaxBlockTimecode 32767 of a
  millisecond each, any m below 2.768 s is short enough.
* `WebmMuxer_proofs`: `AnswersAreWritten` (SavedIsWritten) and
  `FinishCompletes` (FinishedIsComplete), by `MuxerInv`: the muxer's segment never
  has audio (`Muxed`: hence no queue, no cluster without blocks, and only the last
  one open), and `Holds`, that the file is in the order of the calls up to the
  one of last_frame and has the frames answered.
  `PictureFrozen` (FrozenPicture), by `PicInv` on top of it: the blocks written
  and the frames delayed make up the calls since the first frame, each block has
  the frame last saved before its call (`Shown`), and the segment is `Open`: its
  last cluster is not closed and begins no more than its duration before the last
  frame, so that no frame from there on is refused unless it is a gap. Here the
  arithmetic of SaveDelayed counts: what it repeats never reaches past the frame
  that follows.

**libogg's framing**

* `OggChannel_proofs`: `PagesSpanOnlyWhenFullHolds` (PagesSpanOnlyWhenFull),
  `PacketsKeepLabelsHolds` (PacketsKeepLabels) and `ChannelSpecHolds`
  (ChannelSpec), for pages and lacing values of any size, packets of any lengths,
  also such as look like pages, bytes that arrive in any portions, and any number of
  pages lost, cut or damaged, of allocations that fail and of seeks. The third says
  that OggChannel implements PacketChannel, step by step: a packet that comes out
  is one of those submitted, later than the last one, and the next one unless a
  hole or a seek is in the log before it.

  Everything is said about one layout of the packets submitted so far: where each
  begins among the lacing values (`st`), how many bytes each lacing value ends at
  (`off`), the bytes of all packets (`bytes`), and how many lacing values the pages
  take (`cut`). The invariant `Inv` says that such a layout exists, with a number n
  of pages the reader is past, and that
  * what the encoder holds is what lies behind the last cut (`EncoderOk`), and each
    page is the piece between two cuts, with the flags, the granule position and the
    number that go with it (`Paged`, `OnPage`). A page cannot end inside a packet
    with room left: the flush loop stops only at an end of a packet or at the limit;
  * each checksum on the wire or in the sync layer's buffer that belongs to the
    stream is that of a page after the n-th, and they come in order (`Carrying`).
    This, and nothing about where pages begin, is what loss, cuts, damage and
    capture patterns in the data leave intact, and it is enough: what `Pageseek`
    accepts has a checksum in its third place, which is then behind the reader;
  * each lacing value the decoder holds is either one of the layout, with its own
    bytes, or the mark of a hole, and what follows a mark or nothing begins a packet
    (`View`, `Holds`): `SkippedSegments` drops the end of a packet whose beginning is
    missing, `OutOfSequence` drops a beginning whose end is missing;
  * what comes out next is the packet after the last one in the log, or the log ends
    with a hole or a seek (`Begins`).
  None of the four is inductive without the others. The number in the log is that
  of the packet because packets differ in their bytes (`Distinct`), which is a guard
  of `Submit` in the model only: it is how the reader tells packets apart.

**Around both**

* `Session_proofs`: `StopsTheLatest` (StopsLatest, an action property), for any
  page, by `Numbered`. `OneRecording` (OneEncodes) and `OwnTracks`
  (TracksOfItsStart) as long as the page waits for StopComplete, whatever else
  it does, by `Waiting`: only the current encoder is live (`Current`), and the
  list of tracks is empty when there is none and otherwise the one the current
  encoder was started with (`Listed`). Without `waited` neither holds: section 3
  says why. `WorkersFindTheEncoder` (NoDanglingWorker) and `LastChangeWins`
  (LastTrackWins) for a page that is patient as well, by `Patience`: while there is
  work the globals serve the encoder in use (`Served`), and the track asked for
  last is in use or in the globals with a change still to run (`AskedFor`).

Assumptions used: the named ASSUMEs of the modules (`TrackAssumption`,
`EncoderAssumption`, `SegmentAssumption`, `ClientAssumption`, `MuxerAssumption`,
`SessionAssumption`, `SizeAssumption`, `CaptureAssumption`,
`ChannelAssumption`), which say only that bounds and scales are numbers, positive
where the code divides by them or would stop without (a track has at least one
buffer, a portion at least one byte), that steps of time are integers, and that null values are no values.
`FileKept` assumes that no Encode fails, `ContractKept` that no track is changed;
the runs that check these properties assume the same, and section 3 says what
happens otherwise. The four theorems about tracks that keep together assume
`Gentle(m)`, which the run's constants satisfy with m = 2 (`MCGentle`, evaluated by
TLC). They do not hold without: a queue of audio is lost to a gap, a key frame
after one is refused.

Recursion over a sequence (FlattenSeq, WriteQueue, the sum in MaxOffset, the
repetitions of SaveDelayed) is a recursive function in these modules, and what it
computes is proved by induction without a theorem that takes an operator: `UpTo`
of Segment_proofs and OggChannel_proofs is induction over a set of numbers. That the recursive
function exists at all, which CHOOSE alone does not say, is the first thing
proved with it.

## 6. What is only model-checked

* Liveness under fairness: FramesGivenBack, SubmittedIsSaved, SwitchHappens,
  ReadsToTheEnd (out of the prover's reach, as is ENABLED).
* IntactPacketsArrive, that no packet is left behind whose pages all arrived. The
  theorems on libogg say that nothing wrong comes out; this one says that something
  does, and needs an invariant of its own: which segments the decoder dropped, page
  by page, back to the first, where `Inv` only knows those that it holds.
* The bit packer, the container and the WebVTT tools: packing and parsing are
  recursion over bits and bytes, for which these modules use RECURSIVE operators.

## 7. What is not modelled, and why

* The mount of the file system.
* A statement of the stop in the middle of a handler. The main thread's statements
  interleave with whole handlers of the encoder thread; in the code they may also
  fall between the tick's test of the current frame, the copy of its handle and the
  detach (video_encoder.cpp:194-196), or inside TrackFramesLoop
  (video_track.cpp:67-83). Then the tick may take a null frame or one already
  recycled, a frame may be stored after the stop, or be recycled twice. No property
  here speaks of it: section 3's results on stops are for handlers that are not cut.
* Of the Segment: chunking (files of one cluster each, for a server; nothing
  calls SetChunking), writers that cannot seek, and allocations that fail. The queue of
  audio is in Segment only; durations, additional data and padding are in MkvFile only.
* Of mkvparser: which error a call returns, reads that fail, numbers of 2^31 and
  more (TLC's integers), the limit of 100 clusters after which a walk gives up,
  and most elements that this muxer never writes: laced blocks apart, no run meets
  them.
* Opening and closing of files by name.
* AudioEncoder: compiled out, and it calls methods WebmMuxer no longer has.
* Frame sizes, the pacing of ticks, logging, ProbeEncoder (its answer only sets a
  flag that nothing else reads), factories and type names.

## 8. Plan

Done, in this order: VideoTrack and its contract; VideoEncoder with its
refinements; Segment and its client; WebmMuxer; Session; libogg's framing over an
abstract channel, its bit packer and its tests; the file byte by byte, its
parser, and the WebVTT tools on top of both; the proofs, from the tracks to the
file, the session around them, and libogg's framing.

Next, by importance:

1. A proof of IntactPacketsArrive: to `Inv`, a part that says of each packet below
   the one in front that its pages did not all arrive or that it is in the log.
2. A composition of Session with the stop sequence, so that NothingAfterFinish
   and NoDanglingWorker are seen together.
3. Chunking; the control of AudioEncoder as it would be with the Segment's audio
   track.
