-------------------------------- MODULE Session --------------------------------
(***************************************************************************)
(* VideoEncoderInstance (src/src/video_encoder_instance.cpp): how the      *)
(* commands of the page create, use and delete the encoders, on the main   *)
(* thread, while the work they post runs on the encoder thread and finds   *)
(* its arguments in globals.                                               *)
(*                                                                         *)
(* An encoder and the muxer made with it are one object here, numbered in  *)
(* the order of creation; 0 is the null pointer.  A command is one step:   *)
(* what happens between the statements of StopEncode is in VideoEncoder.   *)
(* Of the encoder only what commands can see is kept.  `crashed' is the    *)
(* use of a null or deleted encoder.                                       *)
(***************************************************************************)
EXTENDS Naturals, Sequences, FiniteSets

CONSTANTS
  Resources,    \* what the page may hand over as a track
  Tracks,       \* those that are media stream video tracks
  MaxStarts,    \* bound: encoders made
  MaxWork,      \* bound: work waiting on the encoder thread
  MaxChanges    \* bound: change_track commands

ASSUME SessionAssumption ==
  /\ Tracks \subseteq Resources
  /\ MaxStarts \in Nat /\ MaxWork \in Nat /\ MaxChanges \in Nat

Encoders == 1 .. MaxStarts
NoTrack == "none"

VARIABLES
  video_enc,        \* the instance's current encoder
  video_track_res,  \* the instance's list of tracks
  encoder,          \* [Encoders -> encoder object]
  made,             \* how many encoders were made
  g_video_enc,      \* the global _video_enc
  g_chng_track_id,  \* the global _chng_track_id
  running,          \* whether the encoder thread was started
  work,             \* the encoder thread's message loop
  crashed,          \* a null or deleted encoder was used
  gone,             \* the page has closed and the instance is destroyed
  changes,          \* auxiliary: change_track commands so far
  waited,           \* auxiliary: so far every start was valid and came after
                    \* the "StopComplete" of the encoder before
  patient,          \* auxiliary: so far every change_track named a track of
                    \* an encoder that was encoding, and no stop was obeyed
                    \* and no page closed with work posted
  asked             \* auxiliary: per encoder, the tracks its start named and
                    \* the track the page asked for last

vars == <<video_enc, video_track_res, encoder, made, g_video_enc,
          g_chng_track_id, running, work, crashed, gone, changes, waited, patient,
          asked>>

NewEncoder ==
  [life |-> "none", encoding |-> FALSE, tracks |-> <<>>,
   track |-> NoTrack, initializing |-> 0]

Init ==
  /\ video_enc = 0
  /\ video_track_res = <<>>
  /\ encoder = [e \in Encoders |-> NewEncoder]
  /\ made = 0
  /\ g_video_enc = 0 /\ g_chng_track_id = 0
  /\ running = FALSE
  /\ work = <<>>
  /\ crashed = FALSE /\ gone = FALSE
  /\ changes = 0 /\ waited = TRUE /\ patient = TRUE
  /\ asked = [e \in Encoders |-> [tracks |-> <<>>, track |-> NoTrack]]

Encoding == video_enc # 0 /\ encoder[video_enc].encoding
Post(w) == Len(work) < MaxWork /\ work' = Append(work, w)

(* AddTrack passes over a resource that is no video track: its id is not   *)
(* in the encoder's map, and the ids after it are.                         *)
Added(list, id) == id + 1 \in DOMAIN list /\ list[id + 1] \in Tracks

(* SetTrack: the track takes effect now or at the next tick; an id that    *)
(* was not added is an error and changes nothing.                          *)
Selected(enc, id) ==
  IF Added(enc.tracks, id)
  THEN [enc EXCEPT !.track = enc.tracks[id + 1]] ELSE enc

-----------------------------------------------------------------------------
(* The commands of the page, on the main thread. *)

Listens == ~crashed /\ ~gone

(* A start while the current encoder is encoding is refused.               *)
StartRefused ==
  /\ Listens /\ Encoding
  /\ UNCHANGED vars

MakeEncoder(tracks, enc) ==
  /\ made < MaxStarts
  /\ made' = made + 1
  /\ video_enc' = made + 1
  /\ encoder' = [encoder EXCEPT ![made + 1] = enc]
  /\ asked' = [asked EXCEPT ![made + 1] =
                 [tracks |-> tracks,
                  track |-> IF enc.tracks # <<>> /\ Added(tracks, 0)
                            THEN tracks[1] ELSE NoTrack]]

(* Variant: the global is left to the next change_track.                   *)
StartNoGlobal(tracks) ==
  LET all == video_track_res \o tracks
      enc == Selected([NewEncoder EXCEPT !.life = "live", !.tracks = all], 0)
  IN /\ Listens /\ ~Encoding
     /\ tracks # <<>>
     /\ MakeEncoder(tracks, enc)
     /\ video_track_res' = all
     /\ running' = TRUE
     /\ Post([run |-> "encode"])
     /\ waited' = (waited /\ video_enc = 0)
     /\ UNCHANGED <<g_video_enc, g_chng_track_id, crashed, changes, patient, gone>>

(* The tracks of the command are added to those already listed, and the    *)
(* encoder gets them all.                                                  *)
Start(tracks) ==
  LET all == video_track_res \o tracks
      enc == Selected([NewEncoder EXCEPT !.life = "live", !.tracks = all], 0)
  IN /\ Listens /\ ~Encoding
     /\ tracks # <<>>
     /\ MakeEncoder(tracks, enc)
     /\ video_track_res' = all
     /\ g_video_enc' = made + 1
     /\ running' = TRUE
     /\ Post([run |-> "encode"])
     /\ waited' = (waited /\ video_enc = 0)
     /\ UNCHANGED <<g_chng_track_id, crashed, changes, patient, gone>>

(* A start with a bad argument returns after the encoder was made and the  *)
(* tracks before the bad argument were listed.                             *)
StartInvalid(tracks) ==
  /\ Listens /\ ~Encoding
  /\ MakeEncoder(tracks, [NewEncoder EXCEPT !.life = "live"])
  /\ video_track_res' = video_track_res \o tracks
  /\ waited' = FALSE
  /\ UNCHANGED <<g_video_enc, g_chng_track_id, running, work, crashed,
                 changes, patient, gone>>

(* Variant: the id is left in place for a change that is still to run.     *)
ChangeTrackFirst(id) ==
  /\ Listens
  /\ changes < MaxChanges
  /\ changes' = changes + 1
  /\ g_chng_track_id' = IF g_chng_track_id = 0 THEN id ELSE g_chng_track_id
  /\ g_video_enc' = video_enc
  /\ Post([run |-> "change"])
  /\ asked' = IF video_enc # 0 /\ Added(asked[video_enc].tracks, id)
              THEN [asked EXCEPT ![video_enc].track =
                      asked[video_enc].tracks[id + 1]]
              ELSE asked
  /\ patient' = (patient /\ Encoding /\ Added(asked[video_enc].tracks, id))
  /\ UNCHANGED <<video_enc, video_track_res, encoder, made, running, crashed,
                 waited, gone>>

ChangeTrack(id) ==
  /\ Listens
  /\ changes < MaxChanges
  /\ changes' = changes + 1
  /\ g_chng_track_id' = id
  /\ g_video_enc' = video_enc
  /\ Post([run |-> "change"])
  /\ asked' = IF video_enc # 0 /\ Added(asked[video_enc].tracks, id)
              THEN [asked EXCEPT ![video_enc].track =
                      asked[video_enc].tracks[id + 1]]
              ELSE asked
  /\ patient' = (patient /\ Encoding /\ Added(asked[video_enc].tracks, id))
  /\ UNCHANGED <<video_enc, video_track_res, encoder, made, running, crashed,
                 waited, gone>>

(* "Inicie um encode ..." and "Encoder ja parado": the command does        *)
(* nothing.                                                                *)
StopIgnored ==
  /\ Listens /\ ~Encoding
  /\ UNCHANGED vars

(* Variant: the list of tracks is kept for the next start.                 *)
StopKeepingTracks ==
  /\ Listens /\ Encoding
  /\ encoder' = [encoder EXCEPT ![video_enc].life = "deleted",
                                ![video_enc].encoding = FALSE]
  /\ video_enc' = 0
  /\ patient' = (patient /\ work = <<>>)
  /\ UNCHANGED <<video_track_res, made, g_video_enc, g_chng_track_id,
                 running, work, crashed, changes, waited, asked, gone>>

(* Variant: the encoder is forgotten instead of stopped.                   *)
StopForgetting ==
  /\ Listens /\ Encoding
  /\ video_enc' = 0
  /\ video_track_res' = <<>>
  /\ patient' = (patient /\ work = <<>>)
  /\ UNCHANGED <<encoder, made, g_video_enc, g_chng_track_id, running, work,
                 crashed, changes, waited, asked, gone>>

(* Variant: the encoder stopped is the one the last worker was given.      *)
StopGlobal ==
  /\ Listens /\ g_video_enc # 0
  /\ encoder[g_video_enc].encoding
  /\ encoder' = [encoder EXCEPT ![g_video_enc].life = "deleted",
                                ![g_video_enc].encoding = FALSE]
  /\ video_enc' = 0
  /\ video_track_res' = <<>>
  /\ patient' = (patient /\ work = <<>>)
  /\ UNCHANGED <<made, g_video_enc, g_chng_track_id, running, work, crashed,
                 changes, waited, asked, gone>>

(* StopEncode and the deletes; the globals keep pointing at the encoder.   *)
Stop ==
  /\ Listens /\ Encoding
  /\ encoder' = [encoder EXCEPT ![video_enc].life = "deleted",
                                ![video_enc].encoding = FALSE]
  /\ video_enc' = 0
  /\ video_track_res' = <<>>
  /\ patient' = (patient /\ work = <<>>)
  /\ UNCHANGED <<made, g_video_enc, g_chng_track_id, running, work, crashed,
                 changes, waited, asked, gone>>

(* The destructor: the current encoder is deleted whatever it is doing, and *)
(* the thread is joined after it, so that what was posted still runs.      *)
Destroy ==
  /\ Listens
  /\ gone' = TRUE
  /\ encoder' = [e \in Encoders |->
                   IF e = video_enc
                   THEN [encoder[e] EXCEPT !.life = "deleted", !.encoding = FALSE]
                   ELSE encoder[e]]
  /\ video_enc' = 0
  /\ video_track_res' = <<>>
  /\ patient' = (patient /\ work = <<>>)
  /\ UNCHANGED <<made, g_video_enc, g_chng_track_id, running, work, crashed,
                 changes, waited, asked>>

-----------------------------------------------------------------------------
(* The encoder thread, and the browser that initializes the encoder. *)

Takes(w) == ~crashed /\ running /\ work # <<>> /\ Head(work).run = w

(* Whether the worker finds an encoder behind the global.                  *)
Usable(e) == e # 0 /\ encoder[e].life = "live"

(* VideoEncoderWorker: Encode of whatever encoder the global names now.    *)
VideoEncoderWorker ==
  /\ Takes("encode")
  /\ work' = Tail(work)
  /\ IF Usable(g_video_enc)
     THEN /\ encoder' = [encoder EXCEPT ![g_video_enc].initializing = @ + 1]
          /\ UNCHANGED crashed
     ELSE crashed' = TRUE /\ UNCHANGED encoder
  /\ UNCHANGED <<video_enc, video_track_res, made, g_video_enc,
                 g_chng_track_id, running, changes, waited, patient,
                 asked, gone>>

ChangeTrackWorker ==
  /\ Takes("change")
  /\ work' = Tail(work)
  /\ IF Usable(g_video_enc)
     THEN /\ encoder' = [encoder EXCEPT ![g_video_enc] =
                           Selected(@, g_chng_track_id)]
          /\ UNCHANGED crashed
     ELSE crashed' = TRUE /\ UNCHANGED encoder
  /\ UNCHANGED <<video_enc, video_track_res, made, g_video_enc,
                 g_chng_track_id, running, changes, waited, patient,
                 asked, gone>>

(* The browser completes an Initialize and posts the callback; deleting    *)
(* the encoder drops it.                                                   *)
Initialized(e, ok) ==
  /\ ~crashed
  /\ encoder[e].life = "live" /\ encoder[e].initializing > 0
  /\ encoder' = [encoder EXCEPT ![e].initializing = @ - 1]
  /\ Post([run |-> "initialized", of |-> e, ok |-> ok])
  /\ UNCHANGED <<video_enc, video_track_res, made, g_video_enc,
                 g_chng_track_id, running, crashed, changes, waited, patient,
                 asked, gone>>

OnInitializedEncoder ==
  /\ Takes("initialized")
  /\ work' = Tail(work)
  /\ LET w == Head(work)
     IN encoder' = IF w.ok /\ encoder[w.of].life = "live"
                   THEN [encoder EXCEPT ![w.of].encoding = TRUE] ELSE encoder
  /\ UNCHANGED <<video_enc, video_track_res, made, g_video_enc,
                 g_chng_track_id, running, crashed, changes, waited, patient,
                 asked, gone>>

-----------------------------------------------------------------------------

(* The track lists a start may carry.                                      *)
TrackLists == {<<t>> : t \in Resources}
                \cup {<<t, u>> : t \in Resources, u \in Resources}

Command ==
  \/ StartRefused
  \/ \E tracks \in TrackLists : Start(tracks)
  \/ \E tracks \in TrackLists \cup {<<>>} : StartInvalid(tracks)
  \/ \E id \in 0 .. 2 : ChangeTrack(id)
  \/ StopIgnored
  \/ Stop

Worker == VideoEncoderWorker \/ ChangeTrackWorker \/ OnInitializedEncoder

Next ==
  \/ Command
  \/ Destroy
  \/ Worker
  \/ \E e \in Encoders, ok \in BOOLEAN : Initialized(e, ok)

Spec == Init /\ [][Next]_vars

-----------------------------------------------------------------------------
(* Properties. *)

(* With a patient page that waits, the workers find a live encoder behind *)
(* the globals.                                                            *)
NoDanglingWorker == waited /\ patient => ~crashed

(* As long as the page waited for "StopComplete", at most one encoder is   *)
(* encoding: there is one file name, and stop reaches one encoder only.    *)
OneEncodes ==
  waited => Cardinality({e \in Encoders : encoder[e].encoding}) <= 1

(* As long as the page waited, track ids denote the tracks of the start    *)
(* that made the encoder, in their order, not those of an earlier one.     *)
TracksOfItsStart ==
  waited => \A e \in 1 .. made :
    encoder[e].tracks # <<>> => encoder[e].tracks = asked[e].tracks

(* When the encoder thread has nothing left to do, the encoder in use has  *)
(* the track a patient page asked for last: quick changes share one        *)
(* global, and the worker of the first may run after the second.           *)
LastTrackWins ==
  waited /\ patient /\ Encoding /\ work = <<>> =>
    encoder[video_enc].track = asked[video_enc].track

(* A stop that is obeyed deletes the encoder made last, and no other; so   *)
(* does the end of the page.                                               *)
StopsLatest ==
  [][\A e \in Encoders :
       (encoder[e].life = "live" /\ encoder'[e].life = "deleted")
         => e = made]_vars

=============================================================================
