----------------------------- MODULE Session_proofs -----------------------------
(***************************************************************************)
(* What the instance guarantees to a page, by how careful the page is.     *)
(*                                                                         *)
(* To any page: a stop deletes the encoder made last (Numbered: the        *)
(* encoders are made in the order of their numbers, and video_enc is the   *)
(* last one or null).                                                      *)
(*                                                                         *)
(* To a page that sends a start only after the "StopComplete" of the       *)
(* recording before: one recording at a time, and track ids that denote    *)
(* the tracks of its own start. Everything else it may do at any time. The *)
(* argument (Waiting): the current encoder is the only live one, so a      *)
(* start without a current encoder adds the only one, and the list of      *)
(* tracks is empty whenever there is none.                                 *)
(*                                                                         *)
(* To one that is patient as well: work that finds its encoder, and the    *)
(* last track change wins. Patience: the globals name the encoder in use   *)
(* as long as there is work (Served), and either the track asked for last  *)
(* is in use or the globals name it and a change is still to run           *)
(* (AskedFor).                                                             *)
(***************************************************************************)
EXTENDS Session, FiniteSetTheorems, TLAPS

(* The encoder objects.                                                    *)
Objects == [life : {"none", "live", "deleted"}, encoding : BOOLEAN,
            tracks : Seq(Resources), track : Tracks \cup {NoTrack},
            initializing : Nat]

USE DEF Objects

(* Only the current encoder is live, and only a live encoder encodes.      *)
Current ==
  /\ made \in 0 .. MaxStarts
  /\ encoder \in [Encoders -> Objects]
  /\ video_enc \in Encoders \cup {0}
  /\ \A e \in Encoders : encoder[e].life = "live" => e = video_enc
  /\ \A e \in Encoders : encoder[e].encoding => encoder[e].life = "live"

(* The list of tracks is the one the current encoder was started with.     *)
Listed ==
  /\ video_track_res \in Seq(Resources)
  /\ asked \in [Encoders -> [tracks : Seq(Resources), track : Tracks \cup {NoTrack}]]
  /\ video_enc = 0 => video_track_res = <<>>
  /\ \A e \in Encoders : encoder[e].tracks # <<>> =>
                           encoder[e].tracks = asked[e].tracks

Inv == Current /\ Listed

(* A one-element bound on the encoders that encode.                        *)
LEMMA OneOfCurrent ==
  ASSUME NEW S, NEW x, S \subseteq {x}
  PROVE  IsFiniteSet(S) /\ Cardinality(S) <= 1
<1>1. IsFiniteSet({x}) /\ Cardinality({x}) = 1
  BY FS_Singleton
<1>2. IsFiniteSet(S) /\ Cardinality(S) <= Cardinality({x})
  BY <1>1, FS_Subset
<1>. QED BY <1>1, <1>2

(* SetTrack changes nothing but the track.                                 *)
LEMMA SelectedKeeps ==
  ASSUME NEW enc \in Objects, NEW id \in Nat
  PROVE  /\ Selected(enc, id) \in Objects
         /\ Selected(enc, id).life = enc.life
         /\ Selected(enc, id).encoding = enc.encoding
         /\ Selected(enc, id).tracks = enc.tracks
<1>1. Added(enc.tracks, id) => enc.tracks[id + 1] \in Tracks
  BY DEF Added
<1>. QED BY <1>1 DEF Selected

(* There is no encoder at first.                                            *)
LEMMA InitInv == Init => Inv
<1>. SUFFICES ASSUME Init PROVE Inv
  OBVIOUS
<1>1. NewEncoder \in Objects
  BY DEF NewEncoder
<1>2. Current
  BY <1>1, SessionAssumption DEF Init, Current, NewEncoder
<1>3. Listed
  BY DEF Init, Listed, NewEncoder
<1>. QED BY <1>2, <1>3 DEF Inv

(* A start is accepted only without a current encoder, so the one it makes *)
(* is the only live one and the list it extends is empty.                  *)
LEMMA StartKeepsInv ==
  ASSUME Inv, waited', NEW tracks \in Seq(Resources), tracks # <<>>,
         Start(tracks)
  PROVE  Inv'
<1>. DEFINE enc == Selected([NewEncoder EXCEPT !.life = "live",
                                               !.tracks = tracks], 0)
<1>1. video_enc = 0 /\ video_track_res = <<>>
  BY DEF Start, Inv, Listed
<1>2. video_track_res \o tracks = tracks
  BY <1>1
<1>3. [NewEncoder EXCEPT !.life = "live", !.tracks = tracks] \in Objects
  BY DEF NewEncoder
<1>4. /\ enc \in Objects
      /\ enc.life = "live" /\ enc.encoding = FALSE /\ enc.tracks = tracks
  <2>1. /\ [NewEncoder EXCEPT !.life = "live", !.tracks = tracks].life = "live"
        /\ [NewEncoder EXCEPT !.life = "live", !.tracks = tracks].encoding = FALSE
        /\ [NewEncoder EXCEPT !.life = "live", !.tracks = tracks].tracks = tracks
    BY DEF NewEncoder
  <2>. QED BY <1>3, <2>1, SelectedKeeps
<1>5. MakeEncoder(tracks, enc) /\ video_track_res' = tracks
  BY <1>2 DEF Start
<1>. HIDE DEF enc
<1>6. made + 1 \in Encoders /\ made' = made + 1 /\ video_enc' = made + 1
  BY <1>5, SessionAssumption DEF MakeEncoder, Inv, Current, Encoders
<1>7. encoder' = [encoder EXCEPT ![made + 1] = enc]
  BY <1>5 DEF MakeEncoder
<1>8. PICK t \in Tracks \cup {NoTrack} :
        asked' = [asked EXCEPT ![made + 1] = [tracks |-> tracks, track |-> t]]
  <2>. DEFINE u == IF enc.tracks # <<>> /\ Added(tracks, 0)
                   THEN tracks[1] ELSE NoTrack
  <2>1. 0 + 1 = 1
    OBVIOUS
  <2>2. u \in Tracks \cup {NoTrack}
    BY <2>1 DEF Added
  <2>3. asked' = [asked EXCEPT ![made + 1] = [tracks |-> tracks, track |-> u]]
    BY <1>5 DEF MakeEncoder
  <2>. QED BY <2>2, <2>3
<1>9. Current'
  <2>1. /\ made' \in 0 .. MaxStarts
        /\ video_enc' \in Encoders \cup {0}
    BY <1>6, SessionAssumption DEF Encoders
  <2>2. encoder' \in [Encoders -> Objects]
    BY <1>4, <1>6, <1>7 DEF Inv, Current
  <2>3. \A e \in Encoders : encoder[e].life # "live" /\ ~encoder[e].encoding
    BY <1>1 DEF Inv, Current, Encoders
  <2>4. \A e \in Encoders : e # made + 1 => encoder'[e] = encoder[e]
    BY <1>7 DEF Inv, Current
  <2>5. encoder'[made + 1] = enc
    BY <1>6, <1>7 DEF Inv, Current
  <2>. QED BY <1>4, <1>6, <2>1, <2>2, <2>3, <2>4, <2>5 DEF Current
<1>10. Listed'
  <2>1. asked' \in [Encoders -> [tracks : Seq(Resources),
                                 track : Tracks \cup {NoTrack}]]
    BY <1>8 DEF Inv, Listed
  <2>2. ASSUME NEW e \in Encoders, encoder'[e].tracks # <<>>
        PROVE  encoder'[e].tracks = asked'[e].tracks
    <3>1. CASE e = made + 1
      BY <3>1, <1>4, <1>6, <1>7, <1>8 DEF Inv, Current, Listed
    <3>2. CASE e # made + 1
      BY <3>2, <2>2, <1>6, <1>7, <1>8 DEF Inv, Current, Listed
    <3>. QED BY <3>1, <3>2
  <2>3. video_enc' # 0
    BY <1>6 DEF Encoders
  <2>. QED BY <1>5, <2>1, <2>2, <2>3 DEF Listed
<1>. QED BY <1>9, <1>10 DEF Inv

(* Stop leaves no encoder live and the list of tracks empty.               *)
LEMMA StopKeepsInv ==
  ASSUME Inv, Stop
  PROVE  Inv'
<1>1. video_enc \in Encoders /\ encoder[video_enc].encoding
  BY DEF Stop, Encoding, Inv, Current
<1>2. encoder' = [encoder EXCEPT ![video_enc].life = "deleted",
                                 ![video_enc].encoding = FALSE]
  BY DEF Stop
<1>3. Current'
  BY <1>1, <1>2 DEF Stop, Inv, Current, Encoders
<1>4. \A e \in Encoders : encoder'[e].tracks = encoder[e].tracks
  BY <1>2 DEF Inv, Current
<1>5. asked' = asked /\ video_track_res' = <<>> /\ <<>> \in Seq(Resources)
  BY DEF Stop
<1>6. Listed'
  BY <1>4, <1>5 DEF Inv, Listed
<1>. QED BY <1>3, <1>6 DEF Inv

(* So does the end of the page.                                            *)
LEMMA DestroyKeepsInv ==
  ASSUME Inv, Destroy
  PROVE  Inv'
<1>. DEFINE Deleted(e) == [encoder[e] EXCEPT !.life = "deleted", !.encoding = FALSE]
<1>1. encoder' = [e \in Encoders |->
                    IF e = video_enc THEN Deleted(e) ELSE encoder[e]]
  BY DEF Destroy
<1>2. encoder \in [Encoders -> Objects]
  BY DEF Inv, Current
<1>3. \A e \in Encoders :
        /\ Deleted(e) \in Objects
        /\ Deleted(e).life = "deleted" /\ Deleted(e).encoding = FALSE
        /\ Deleted(e).tracks = encoder[e].tracks
  BY <1>2
<1>. HIDE DEF Deleted
<1>4. Current'
  <2>1. encoder' \in [Encoders -> Objects]
    BY <1>1, <1>2, <1>3
  <2>2. \A e \in Encoders : encoder'[e].life # "live" /\ ~encoder'[e].encoding
    BY <1>1, <1>3 DEF Inv, Current
  <2>3. video_enc' = 0 /\ made' = made
    BY DEF Destroy
  <2>. QED BY <2>1, <2>2, <2>3 DEF Inv, Current
<1>5. \A e \in Encoders : encoder'[e].tracks = encoder[e].tracks
  BY <1>1, <1>3
<1>6. UNCHANGED asked /\ video_track_res' = <<>>
  BY DEF Destroy
<1>7. Listed'
  BY <1>5, <1>6 DEF Inv, Listed
<1>. QED BY <1>4, <1>7 DEF Inv

(* Replacing one encoder by one with the same life and the same tracks     *)
(* keeps the invariant, when nothing else of it changes.                   *)
LEMMA ReplaceKeepsInv ==
  ASSUME Inv, NEW e \in Encoders, NEW new,
         new \in Objects,
         new.life = encoder[e].life, new.tracks = encoder[e].tracks,
         new.encoding => new.life = "live",
         encoder' = [encoder EXCEPT ![e] = new],
         UNCHANGED <<video_enc, video_track_res, made, asked>>
  PROVE  Inv'
<1>1. Current'
  BY DEF Inv, Current
<1>2. \A f \in Encoders : encoder'[f].tracks = encoder[f].tracks
  BY DEF Inv, Current
<1>3. Listed'
  BY <1>2 DEF Inv, Listed
<1>. QED BY <1>1, <1>3 DEF Inv

(* The encoder thread and the browser touch neither lives nor lists.       *)
LEMMA WorkerKeepsInv ==
  ASSUME Inv,
         Worker \/ \E e \in Encoders, ok \in BOOLEAN : Initialized(e, ok),
         g_video_enc \in Encoders \cup {0}, g_chng_track_id \in Nat
  PROVE  Inv'
<1>1. CASE VideoEncoderWorker
  <2>1. CASE Usable(g_video_enc)
    <3>. DEFINE old == encoder[g_video_enc]
                new == [old EXCEPT !.initializing = old.initializing + 1]
    <3>1. g_video_enc \in Encoders
      BY <2>1 DEF Usable
    <3>2. encoder' = [encoder EXCEPT ![g_video_enc] = new]
      BY <1>1, <2>1 DEF VideoEncoderWorker
    <3>3. /\ new \in Objects
          /\ new.life = old.life /\ new.tracks = old.tracks
      BY <3>1 DEF Inv, Current
    <3>4. new.encoding => new.life = "live"
      BY <3>1 DEF Inv, Current
    <3>5. UNCHANGED <<video_enc, video_track_res, made, asked>>
      BY <1>1 DEF VideoEncoderWorker
    <3>. HIDE DEF new
    <3>. QED BY <3>1, <3>2, <3>3, <3>4, <3>5, ReplaceKeepsInv
  <2>2. CASE ~Usable(g_video_enc)
    BY <1>1, <2>2 DEF VideoEncoderWorker, Inv, Current, Listed
  <2>. QED BY <2>1, <2>2
<1>2. CASE ChangeTrackWorker
  <2>1. CASE Usable(g_video_enc)
    <3>. DEFINE new == Selected(encoder[g_video_enc], g_chng_track_id)
    <3>1. g_video_enc \in Encoders
      BY <2>1 DEF Usable
    <3>2. encoder' = [encoder EXCEPT ![g_video_enc] = new]
      BY <1>2, <2>1 DEF ChangeTrackWorker
    <3>3. /\ new \in Objects
          /\ new.life = encoder[g_video_enc].life
          /\ new.encoding = encoder[g_video_enc].encoding
          /\ new.tracks = encoder[g_video_enc].tracks
      BY <3>1, SelectedKeeps DEF Inv, Current
    <3>. HIDE DEF new
    <3>. QED BY <1>2, <3>1, <3>2, <3>3
             DEF ChangeTrackWorker, Inv, Current, Listed
  <2>2. CASE ~Usable(g_video_enc)
    BY <1>2, <2>2 DEF ChangeTrackWorker, Inv, Current, Listed
  <2>. QED BY <2>1, <2>2
<1>3. CASE OnInitializedEncoder
  <2>. DEFINE w == Head(work)
  <2>1. CASE w.ok /\ encoder[w.of].life = "live" /\ w.of \in Encoders
    <3>. DEFINE old == encoder[w.of]
                new == [old EXCEPT !.encoding = TRUE]
    <3>1. encoder' = [encoder EXCEPT ![w.of] = new]
      BY <1>3, <2>1 DEF OnInitializedEncoder
    <3>2. /\ new \in Objects
          /\ new.life = old.life /\ new.tracks = old.tracks
      BY <2>1 DEF Inv, Current
    <3>3. new.life = "live"
      BY <2>1, <3>2
    <3>4. UNCHANGED <<video_enc, video_track_res, made, asked>>
      BY <1>3 DEF OnInitializedEncoder
    <3>. HIDE DEF new, w
    <3>. QED BY <2>1, <3>1, <3>2, <3>3, <3>4, ReplaceKeepsInv
  <2>2. CASE ~(w.ok /\ encoder[w.of].life = "live" /\ w.of \in Encoders)
    <3>1. encoder' = encoder
      BY <1>3, <2>2 DEF OnInitializedEncoder, Inv, Current
    <3>. QED BY <1>3, <3>1 DEF OnInitializedEncoder, Inv, Current, Listed
  <2>. QED BY <2>1, <2>2
<1>4. CASE \E e \in Encoders, ok \in BOOLEAN : Initialized(e, ok)
  <2>1. PICK e \in Encoders, ok \in BOOLEAN : Initialized(e, ok)
    BY <1>4
  <2>. DEFINE old == encoder[e]
              new == [old EXCEPT !.initializing = old.initializing - 1]
  <2>2. encoder' = [encoder EXCEPT ![e] = new]
    BY <2>1 DEF Initialized
  <2>3. old.initializing - 1 \in Nat
    BY <2>1 DEF Initialized, Inv, Current
  <2>4. /\ new \in Objects
        /\ new.life = old.life /\ new.tracks = old.tracks
    BY <2>3 DEF Inv, Current
  <2>5. new.encoding => new.life = "live"
    BY DEF Inv, Current
  <2>6. UNCHANGED <<video_enc, video_track_res, made, asked>>
    BY <2>1 DEF Initialized
  <2>. HIDE DEF new
  <2>. QED BY <2>2, <2>4, <2>5, <2>6, ReplaceKeepsInv
<1>. QED BY <1>1, <1>2, <1>3, <1>4 DEF Worker

(* The globals: an encoder that was made, or null, and an id.              *)
Globals ==
  /\ g_video_enc \in Encoders \cup {0}
  /\ g_chng_track_id \in Nat

(* change_track writes the globals, posts work and notes what was asked.   *)
LEMMA ChangeTrackKeepsInv ==
  ASSUME Inv, NEW id \in Nat, ChangeTrack(id)
  PROVE  Inv' /\ Globals'
<1>1. Current'
  BY DEF ChangeTrack, Inv, Current
<1>2. \A e \in Encoders : asked'[e].tracks = asked[e].tracks
  BY DEF ChangeTrack, Inv, Listed
<1>3. asked' \in [Encoders -> [tracks : Seq(Resources),
                               track : Tracks \cup {NoTrack}]]
  <2>1. CASE video_enc # 0 /\ Added(asked[video_enc].tracks, id)
    <3>1. video_enc \in Encoders
      BY <2>1 DEF Inv, Current
    <3>2. asked[video_enc].tracks[id + 1] \in Tracks
      BY <2>1 DEF Added
    <3>3. asked' = [asked EXCEPT ![video_enc].track =
                      asked[video_enc].tracks[id + 1]]
      BY <2>1 DEF ChangeTrack
    <3>. QED BY <3>1, <3>2, <3>3 DEF Inv, Listed
  <2>2. CASE ~(video_enc # 0 /\ Added(asked[video_enc].tracks, id))
    BY <2>2 DEF ChangeTrack, Inv, Listed
  <2>. QED BY <2>1, <2>2
<1>4. Listed'
  BY <1>2, <1>3 DEF ChangeTrack, Inv, Listed
<1>5. Globals'
  BY DEF ChangeTrack, Globals, Inv, Current
<1>. QED BY <1>1, <1>4, <1>5 DEF Inv

(* A page that has waited up to now and still has after the step: the one  *)
(* step that such a page does not take is StartInvalid.                    *)
LEMMA NextKeepsInv ==
  ASSUME Inv, Globals, waited', [Next]_vars
  PROVE  Inv' /\ Globals'
<1>1. CASE StartRefused
  BY <1>1 DEF StartRefused, vars, Inv, Current, Listed, Globals
<1>2. ASSUME NEW tracks \in TrackLists, Start(tracks)
      PROVE  Inv' /\ Globals'
  <2>1. tracks \in Seq(Resources) /\ tracks # <<>>
    <3>1. CASE \E t \in Resources : tracks = <<t>>
      BY <3>1
    <3>2. CASE \E t, u \in Resources : tracks = <<t, u>>
      BY <3>2
    <3>. QED BY <3>1, <3>2 DEF TrackLists
  <2>2. Inv'
    BY <1>2, <2>1, StartKeepsInv
  <2>3. g_video_enc' = video_enc' /\ UNCHANGED g_chng_track_id
    BY <1>2 DEF Start, MakeEncoder
  <2>. QED BY <2>2, <2>3 DEF Globals, Inv, Current
<1>3. ASSUME NEW tracks \in TrackLists \cup {<<>>}, StartInvalid(tracks)
      PROVE  FALSE
  BY <1>3 DEF StartInvalid
<1>4. ASSUME NEW id \in 0 .. 2, ChangeTrack(id)
      PROVE  Inv' /\ Globals'
  BY <1>4, ChangeTrackKeepsInv
<1>5. CASE StopIgnored
  BY <1>5 DEF StopIgnored, vars, Inv, Current, Listed, Globals
<1>6. CASE Stop
  BY <1>6, StopKeepsInv DEF Stop, Globals
<1>7. CASE Worker \/ \E e \in Encoders, ok \in BOOLEAN : Initialized(e, ok)
  <2>1. Inv'
    BY <1>7, WorkerKeepsInv DEF Globals
  <2>2. UNCHANGED <<g_video_enc, g_chng_track_id>>
    BY <1>7 DEF Worker, VideoEncoderWorker, ChangeTrackWorker,
                OnInitializedEncoder, Initialized
  <2>. QED BY <2>1, <2>2 DEF Globals
<1>8. CASE Destroy
  BY <1>8, DestroyKeepsInv DEF Destroy, Globals
<1>9. CASE UNCHANGED vars
  BY <1>9 DEF vars, Inv, Current, Listed, Globals
<1>. QED BY <1>1, <1>2, <1>3, <1>4, <1>5, <1>6, <1>7, <1>8, <1>9 DEF Next, Command

(* A page that did not wait once never counts as one that waited again.    *)
LEMMA WaitedBefore ==
  ASSUME [Next]_vars, waited'
  PROVE  waited
<1>1. ASSUME NEW tracks, Start(tracks)
      PROVE  waited
  BY <1>1 DEF Start
<1>2. ASSUME NEW tracks, StartInvalid(tracks)
      PROVE  waited
  BY <1>2 DEF StartInvalid
<1>3. ASSUME NEW id, ChangeTrack(id)
      PROVE  waited
  BY <1>3 DEF ChangeTrack
<1>4. CASE Stop \/ Destroy
  BY <1>4 DEF Stop, Destroy
<1>5. CASE Worker \/ \E e \in Encoders, ok \in BOOLEAN : Initialized(e, ok)
  BY <1>5 DEF Worker, VideoEncoderWorker, ChangeTrackWorker,
              OnInitializedEncoder, Initialized
<1>6. CASE StartRefused \/ StopIgnored \/ UNCHANGED vars
  BY <1>6 DEF StartRefused, StopIgnored, vars
<1>. QED BY <1>1, <1>2, <1>3, <1>4, <1>5, <1>6 DEF Next, Command

(* The inductive invariant: all of the above, as long as the page waited.  *)
Waiting == waited => Inv /\ Globals

(* For a page that waits the invariant holds.                               *)
LEMMA WaitingInvariant == Spec => []Waiting
<1>1. Init => Waiting
  BY InitInv DEF Init, Waiting, Globals
<1>2. Waiting /\ [Next]_vars => Waiting'
  BY NextKeepsInv, WaitedBefore DEF Waiting
<1>. QED BY <1>1, <1>2, PTL DEF Spec

(* OneEncodes, for every list of tracks and number of recordings: as long  *)
(* as the page waits for "StopComplete" before it starts again, there are  *)
(* never two encoders encoding.                                            *)
THEOREM OneRecording == Spec => []OneEncodes
<1>1. Waiting => OneEncodes
  <2>. SUFFICES ASSUME Inv
                PROVE  Cardinality({e \in Encoders : encoder[e].encoding}) <= 1
    BY DEF Waiting, OneEncodes
  <2>1. {e \in Encoders : encoder[e].encoding} \subseteq {video_enc}
    BY DEF Inv, Current
  <2>. QED BY <2>1, OneOfCurrent
<1>. QED BY <1>1, WaitingInvariant, PTL

(* TracksOfItsStart, for such a page: no id denotes a track of an earlier  *)
(* recording.                                                              *)
THEOREM OwnTracks == Spec => []TracksOfItsStart
<1>1. Waiting => TracksOfItsStart
  BY SessionAssumption
     DEF Waiting, Inv, Current, Listed, TracksOfItsStart, Encoders
<1>. QED BY <1>1, WaitingInvariant, PTL
-----------------------------------------------------------------------------
(* What holds for every page, whatever it sends and when. *)

(* Work for the encoder thread.                                            *)
Work == [run : {"encode", "change"}]
          \cup [run : {"initialized"}, of : Encoders, ok : BOOLEAN]

(* The types, and that the current encoder is the one made last.           *)
Numbered ==
  /\ made \in 0 .. MaxStarts
  /\ video_enc \in {0, made}
  /\ video_track_res \in Seq(Resources)
  /\ encoder \in [Encoders -> Objects]
  /\ work \in Seq(Work)
  /\ Globals

(* No encoder has been made at first.                                       *)
LEMMA InitNumbered == ASSUME Init PROVE Numbered
<1>1. NewEncoder \in Objects
  BY DEF NewEncoder
<1>. QED BY <1>1, SessionAssumption DEF Init, Numbered, Globals

(* Taking a piece of work leaves the others.                               *)
LEMMA TakesWork ==
  ASSUME Numbered, work # <<>>
  PROVE  /\ Head(work) \in Work /\ Tail(work) \in Seq(Work)
         /\ Len(work) \in Nat \ {0} /\ Head(work) = work[1]
         /\ Len(Tail(work)) = Len(work) - 1
         /\ \A i \in 1 .. Len(work) - 1 : Tail(work)[i] = work[i + 1]
BY DEF Numbered

(* Posting one puts it behind them.                                        *)
LEMMA PostsWork ==
  ASSUME Numbered, NEW w \in Work, Post(w)
  PROVE  /\ work' \in Seq(Work)
         /\ Len(work) \in Nat /\ Len(work') = Len(work) + 1
         /\ \A i \in 1 .. Len(work) : work'[i] = work[i]
         /\ work'[Len(work) + 1] = w
BY DEF Numbered, Post

(* What the operations write into an encoder object.                       *)
LEMMA NewObject ==
  ASSUME NEW tracks \in Seq(Resources)
  PROVE  /\ [NewEncoder EXCEPT !.life = "live"] \in Objects
         /\ [NewEncoder EXCEPT !.life = "live"].life = "live"
         /\ [NewEncoder EXCEPT !.life = "live", !.tracks = tracks] \in Objects
         /\ [NewEncoder EXCEPT !.life = "live", !.tracks = tracks].life = "live"
<1>1. <<>> \in Seq(Resources)
  OBVIOUS
<1>. QED BY <1>1 DEF NewEncoder

(* An encoder that encodes is an object still.                              *)
LEMMA EncodingObject ==
  ASSUME NEW old \in Objects
  PROVE  /\ [old EXCEPT !.encoding = TRUE] \in Objects
         /\ [old EXCEPT !.encoding = TRUE].life = old.life
OBVIOUS

(* One that initializes as well.                                            *)
LEMMA InitializingObject ==
  ASSUME NEW old \in Objects, NEW n \in Nat
  PROVE  /\ [old EXCEPT !.initializing = n] \in Objects
         /\ [old EXCEPT !.initializing = n].life = old.life
OBVIOUS

(* The lists of tracks a start may carry.                                  *)
LEMMA TrackListsAreSeqs ==
  ASSUME NEW tracks \in TrackLists \cup {<<>>}
  PROVE  tracks \in Seq(Resources)
<1>1. CASE \E t \in Resources : tracks = <<t>>
  BY <1>1
<1>2. CASE \E t, u \in Resources : tracks = <<t, u>>
  BY <1>2
<1>3. CASE tracks = <<>>
  BY <1>3
<1>. QED BY <1>1, <1>2, <1>3 DEF TrackLists

(* A life that a step ends is that of the current encoder.                 *)
Ends(e) == encoder[e].life = "live" /\ encoder'[e].life = "deleted"

(* The commands that make an encoder.                                      *)
LEMMA MakeNumbered ==
  ASSUME Numbered, NEW enc \in Objects, enc.life = "live", NEW tracks,
         MakeEncoder(tracks, enc)
  PROVE  /\ made' \in 0 .. MaxStarts /\ made' = made + 1 /\ video_enc' = made'
         /\ made' \in Encoders
         /\ encoder' \in [Encoders -> Objects]
         /\ \A e \in Encoders : ~Ends(e)
<1>1. /\ made + 1 \in Encoders /\ made' = made + 1 /\ video_enc' = made + 1
      /\ made' \in 0 .. MaxStarts
  BY SessionAssumption DEF MakeEncoder, Numbered, Encoders
<1>2. encoder' = [encoder EXCEPT ![made + 1] = enc]
  BY DEF MakeEncoder
<1>3. encoder' \in [Encoders -> Objects]
  BY <1>1, <1>2 DEF Numbered
<1>4. ASSUME NEW e \in Encoders
      PROVE  encoder'[e] = IF e = made + 1 THEN enc ELSE encoder[e]
  BY <1>2 DEF Numbered
<1>5. \A e \in Encoders : ~Ends(e)
  BY <1>4 DEF Ends
<1>. QED BY <1>1, <1>3, <1>5

(* A command keeps the numbering and deletes only the latest.               *)
LEMMA CommandNumbered ==
  ASSUME Numbered, Command \/ Destroy \/ UNCHANGED vars
  PROVE  Numbered' /\ \A e \in Encoders : Ends(e) => e = made
<1>1. ASSUME NEW tracks \in TrackLists, Start(tracks)
      PROVE  Numbered' /\ \A e \in Encoders : Ends(e) => e = made
  <2>. DEFINE all == video_track_res \o tracks
              new == [NewEncoder EXCEPT !.life = "live", !.tracks = all]
              enc == Selected(new, 0)
  <2>1. tracks \in Seq(Resources)
    BY TrackListsAreSeqs
  <2>2. all \in Seq(Resources)
    BY <2>1 DEF Numbered
  <2>3. new \in Objects /\ new.life = "live"
    BY <2>2, NewObject
  <2>4. enc \in Objects /\ enc.life = "live"
    BY <2>3, SelectedKeeps
  <2>. HIDE DEF new, enc
  <2>5. MakeEncoder(tracks, enc) /\ Post([run |-> "encode"])
    BY <1>1 DEF Start, enc, new
  <2>6. /\ made' \in 0 .. MaxStarts /\ made' = made + 1 /\ video_enc' = made'
        /\ made' \in Encoders /\ encoder' \in [Encoders -> Objects]
        /\ \A e \in Encoders : ~Ends(e)
    BY <2>4, <2>5, MakeNumbered
  <2>7. work' \in Seq(Work)
    <3>1. [run |-> "encode"] \in Work
      BY DEF Work
    <3>. QED BY <3>1, <2>5, PostsWork
  <2>8. Globals' /\ video_track_res' = all
    BY <1>1, <2>6 DEF Start, Globals, Numbered
  <2>. QED BY <2>2, <2>6, <2>7, <2>8 DEF Numbered
<1>2. ASSUME NEW tracks \in TrackLists \cup {<<>>}, StartInvalid(tracks)
      PROVE  Numbered' /\ \A e \in Encoders : Ends(e) => e = made
  <2>. DEFINE enc == [NewEncoder EXCEPT !.life = "live"]
  <2>1. tracks \in Seq(Resources)
    BY TrackListsAreSeqs
  <2>2. enc \in Objects /\ enc.life = "live"
    BY <2>1, NewObject
  <2>. HIDE DEF enc
  <2>3. MakeEncoder(tracks, enc)
    BY <1>2 DEF StartInvalid, enc
  <2>4. /\ made' \in 0 .. MaxStarts /\ video_enc' = made'
        /\ encoder' \in [Encoders -> Objects]
        /\ \A e \in Encoders : ~Ends(e)
    BY <2>2, <2>3, MakeNumbered
  <2>5. video_track_res' \in Seq(Resources)
    BY <1>2, <2>1 DEF StartInvalid, Numbered
  <2>. QED BY <1>2, <2>4, <2>5 DEF StartInvalid, Numbered, Globals
<1>3. ASSUME NEW id \in 0 .. 2, ChangeTrack(id)
      PROVE  Numbered' /\ \A e \in Encoders : Ends(e) => e = made
  <2>1. [run |-> "change"] \in Work
    BY DEF Work
  <2>2. work' \in Seq(Work)
    BY <1>3, <2>1, PostsWork DEF ChangeTrack
  <2>3. g_video_enc' \in Encoders \cup {0} /\ g_chng_track_id' \in Nat
    BY <1>3, SessionAssumption DEF ChangeTrack, Numbered, Encoders
  <2>. QED BY <1>3, <2>2, <2>3 DEF ChangeTrack, Numbered, Globals, Ends
<1>4. CASE StartRefused \/ StopIgnored \/ UNCHANGED vars
  BY <1>4 DEF StartRefused, StopIgnored, vars, Numbered, Globals, Ends
<1>5. CASE Stop
  <2>1. video_enc \in Encoders /\ video_enc = made
    BY <1>5, SessionAssumption DEF Stop, Encoding, Numbered, Encoders
  <2>2. encoder' = [encoder EXCEPT ![video_enc].life = "deleted",
                                   ![video_enc].encoding = FALSE]
    BY <1>5 DEF Stop
  <2>3. encoder' \in [Encoders -> Objects]
    <3>. DEFINE x == encoder[video_enc]
                y == [x EXCEPT !.life = "deleted", !.encoding = FALSE]
    <3>1. x \in Objects /\ encoder \in [Encoders -> Objects]
      BY <2>1 DEF Numbered
    <3>2. encoder' = [encoder EXCEPT ![video_enc] = y]
      BY <2>2
    <3>. HIDE DEF x
    <3>3. y \in Objects
      BY <3>1 DEF Objects
    <3>. HIDE DEF y
    <3>. QED BY <3>1, <3>2, <3>3
  <2>4. \A e \in Encoders : e # made => encoder'[e] = encoder[e]
    BY <2>1, <2>2 DEF Numbered
  <2>5. \A e \in Encoders : Ends(e) => e = made
    BY <2>4 DEF Ends
  <2>6. <<>> \in Seq(Resources)
    OBVIOUS
  <2>. QED BY <1>5, <2>3, <2>5, <2>6 DEF Stop, Numbered, Globals
<1>6. CASE Destroy
  <2>. DEFINE Deleted(e) == [encoder[e] EXCEPT !.life = "deleted",
                                               !.encoding = FALSE]
  <2>1. \A e \in Encoders : Deleted(e) \in Objects
    BY DEF Numbered
  <2>. HIDE DEF Deleted
  <2>2. encoder' = [e \in Encoders |->
                      IF e = video_enc THEN Deleted(e) ELSE encoder[e]]
    BY <1>6 DEF Destroy, Deleted
  <2>3. encoder' \in [Encoders -> Objects]
    BY <2>1, <2>2 DEF Numbered
  <2>4. \A e \in Encoders : Ends(e) => e = made
    BY <2>2 DEF Numbered, Ends, Encoders
  <2>5. <<>> \in Seq(Resources)
    OBVIOUS
  <2>. QED BY <1>6, <2>3, <2>4, <2>5 DEF Destroy, Numbered, Globals
<1>. QED BY <1>1, <1>2, <1>3, <1>4, <1>5, <1>6 DEF Command

(* The encoder thread and the browser end no encoder.                      *)
LEMMA WorkerNumbered ==
  ASSUME Numbered,
         Worker \/ \E e \in Encoders, ok \in BOOLEAN : Initialized(e, ok)
  PROVE  Numbered' /\ \A e \in Encoders : ~Ends(e)
<1>1. ASSUME NEW e \in Encoders, NEW new \in Objects,
             new.life = encoder[e].life,
             encoder' = [encoder EXCEPT ![e] = new]
      PROVE  encoder' \in [Encoders -> Objects] /\ \A f \in Encoders : ~Ends(f)
  BY <1>1 DEF Numbered, Ends
<1>2. CASE VideoEncoderWorker
  <2>1. encoder' \in [Encoders -> Objects] /\ \A e \in Encoders : ~Ends(e)
    <3>. DEFINE old == encoder[g_video_enc]
                new == [old EXCEPT !.initializing = old.initializing + 1]
    <3>1. CASE Usable(g_video_enc)
      <4>1. g_video_enc \in Encoders
        BY <3>1 DEF Usable, Numbered, Globals
      <4>2. old \in Objects /\ old.initializing + 1 \in Nat
        BY <4>1 DEF Numbered
      <4>3. new \in Objects /\ new.life = old.life
        BY <4>2, InitializingObject
      <4>4. encoder' = [encoder EXCEPT ![g_video_enc] = new]
        BY <1>2, <3>1 DEF VideoEncoderWorker
      <4>. HIDE DEF new
      <4>. QED BY <1>1, <4>1, <4>3, <4>4
    <3>2. CASE ~Usable(g_video_enc)
      BY <1>2, <3>2 DEF VideoEncoderWorker, Numbered, Ends
    <3>. QED BY <3>1, <3>2
  <2>2. work' \in Seq(Work)
    BY <1>2, TakesWork DEF VideoEncoderWorker, Takes
  <2>. QED BY <1>2, <2>1, <2>2 DEF VideoEncoderWorker, Numbered, Globals
<1>3. CASE ChangeTrackWorker
  <2>1. encoder' \in [Encoders -> Objects] /\ \A e \in Encoders : ~Ends(e)
    <3>. DEFINE new == Selected(encoder[g_video_enc], g_chng_track_id)
    <3>1. CASE Usable(g_video_enc)
      <4>1. g_video_enc \in Encoders /\ g_chng_track_id \in Nat
        BY <3>1 DEF Usable, Numbered, Globals
      <4>2. new \in Objects /\ new.life = encoder[g_video_enc].life
        BY <4>1, SelectedKeeps DEF Numbered
      <4>3. encoder' = [encoder EXCEPT ![g_video_enc] = new]
        BY <1>3, <3>1 DEF ChangeTrackWorker
      <4>. HIDE DEF new
      <4>. QED BY <1>1, <4>1, <4>2, <4>3
    <3>2. CASE ~Usable(g_video_enc)
      BY <1>3, <3>2 DEF ChangeTrackWorker, Numbered, Ends
    <3>. QED BY <3>1, <3>2
  <2>2. work' \in Seq(Work)
    BY <1>3, TakesWork DEF ChangeTrackWorker, Takes
  <2>. QED BY <1>3, <2>1, <2>2 DEF ChangeTrackWorker, Numbered, Globals
<1>4. CASE OnInitializedEncoder
  <2>. DEFINE w == Head(work)
              new == [encoder[w.of] EXCEPT !.encoding = TRUE]
  <2>1. w \in Work /\ w.run = "initialized" /\ work' \in Seq(Work)
    BY <1>4, TakesWork DEF OnInitializedEncoder, Takes
  <2>2. w.of \in Encoders
    BY <2>1 DEF Work
  <2>3. new \in Objects /\ new.life = encoder[w.of].life
    <3>1. encoder[w.of] \in Objects
      BY <2>2 DEF Numbered
    <3>. QED BY <3>1, EncodingObject
  <2>4. encoder' = [encoder EXCEPT ![w.of] = new] \/ encoder' = encoder
    BY <1>4 DEF OnInitializedEncoder
  <2>. HIDE DEF w, new
  <2>5. encoder' \in [Encoders -> Objects] /\ \A e \in Encoders : ~Ends(e)
    <3>1. CASE encoder' = encoder
      BY <3>1 DEF Numbered, Ends
    <3>. QED BY <1>1, <2>2, <2>3, <2>4, <3>1
  <2>. QED BY <1>4, <2>1, <2>5 DEF OnInitializedEncoder, Numbered, Globals
<1>5. ASSUME NEW e \in Encoders, NEW ok \in BOOLEAN, Initialized(e, ok)
      PROVE  Numbered' /\ \A f \in Encoders : ~Ends(f)
  <2>. DEFINE old == encoder[e]
              new == [old EXCEPT !.initializing = old.initializing - 1]
  <2>1. new \in Objects /\ new.life = old.life
    <3>1. old \in Objects /\ old.initializing - 1 \in Nat
      BY <1>5 DEF Initialized, Numbered
    <3>. QED BY <3>1, InitializingObject
  <2>2. encoder' = [encoder EXCEPT ![e] = new]
    BY <1>5 DEF Initialized
  <2>. HIDE DEF new
  <2>3. encoder' \in [Encoders -> Objects] /\ \A f \in Encoders : ~Ends(f)
    BY <1>1, <2>1, <2>2
  <2>4. [run |-> "initialized", of |-> e, ok |-> ok] \in Work
    BY DEF Work
  <2>5. work' \in Seq(Work)
    BY <1>5, <2>4, PostsWork DEF Initialized
  <2>. QED BY <1>5, <2>3, <2>5 DEF Initialized, Numbered, Globals
<1>. QED BY <1>2, <1>3, <1>4, <1>5 DEF Worker

(* Every step does.                                                         *)
LEMMA NextNumbered ==
  ASSUME Numbered, [Next]_vars
  PROVE  Numbered' /\ \A e \in Encoders : Ends(e) => e = made
BY CommandNumbered, WorkerNumbered DEF Next

(* StopsLatest, for every page and however its commands, the workers and   *)
(* the browser interleave: what a stop or the destructor deletes is the    *)
(* encoder made last (video_encoder_instance.cpp, HandleMessage).          *)
THEOREM StopsTheLatest == Spec => StopsLatest
<1>1. Init => Numbered
  BY InitNumbered
<1>2. Numbered /\ [Next]_vars => Numbered'
  BY NextNumbered
<1>3. Numbered /\ [Next]_vars
        => [\A e \in Encoders :
              (encoder[e].life = "live" /\ encoder'[e].life = "deleted")
                => e = made]_vars
  BY NextNumbered DEF Ends
<1>. QED BY <1>1, <1>2, <1>3, PTL DEF Spec, StopsLatest
-----------------------------------------------------------------------------
(* What a page gets that waits and is patient. *)

(* A track change is waiting for the encoder thread.                       *)
Changing == \E i \in 1 .. Len(work) : work[i].run = "change"

(* The globals serve the encoder in use, and there is one while there is   *)
(* work to do.                                                             *)
Served ==
  /\ ~crashed
  /\ video_enc # 0 => /\ g_video_enc = video_enc
                      /\ encoder[video_enc].life = "live"
                      /\ encoder[video_enc].tracks = asked[video_enc].tracks
  /\ work # <<>> => video_enc # 0

(* The track asked for last is in use, or the global names it and a track  *)
(* change is still to run.                                                 *)
AskedFor ==
  video_enc # 0 =>
    IF Changing
    THEN /\ Added(asked[video_enc].tracks, g_chng_track_id)
         /\ asked[video_enc].track = asked[video_enc].tracks[g_chng_track_id + 1]
    ELSE encoder[video_enc].track = asked[video_enc].track

Patience == waited /\ patient => Served /\ AskedFor

(* Whether a change is waiting, after a piece of work was taken or posted. *)
LEMMA ChangingTakes ==
  ASSUME Numbered, work # <<>>, work' = Tail(work)
  PROVE  /\ Changing' => Changing
         /\ Head(work).run = "change" => Changing
         /\ Head(work).run # "change" /\ Changing => Changing'
<1>1. /\ Len(work) \in Nat \ {0} /\ Head(work) = work[1]
      /\ Len(work') = Len(work) - 1
      /\ \A i \in 1 .. Len(work) - 1 : work'[i] = work[i + 1]
  BY TakesWork
<1>2. ASSUME Changing' PROVE Changing
  <2>1. PICK i \in 1 .. Len(work) - 1 : work[i + 1].run = "change"
    BY <1>1, <1>2 DEF Changing
  <2>2. i + 1 \in 1 .. Len(work)
    BY <1>1
  <2>. QED BY <2>1, <2>2 DEF Changing
<1>3. ASSUME Head(work).run = "change" PROVE Changing
  BY <1>1, <1>3 DEF Changing
<1>4. ASSUME Head(work).run # "change", Changing PROVE Changing'
  <2>1. PICK i \in 1 .. Len(work) : work[i].run = "change"
    BY <1>4 DEF Changing
  <2>2. i # 1
    BY <2>1, <1>1, <1>4
  <2>3. i - 1 \in 1 .. Len(work) - 1 /\ (i - 1) + 1 = i
    BY <2>2, <1>1
  <2>4. work'[i - 1] = work[i]
    BY <2>3, <1>1
  <2>. QED BY <2>1, <2>3, <2>4, <1>1 DEF Changing
<1>. QED BY <1>2, <1>3, <1>4

(* A change posted behind the work there is.                                *)
LEMMA ChangingPosts ==
  ASSUME Numbered, NEW w \in Work, Post(w)
  PROVE  /\ Changing' <=> Changing \/ w.run = "change"
         /\ work' # <<>>
<1>1. /\ Len(work) \in Nat /\ Len(work') = Len(work) + 1
      /\ \A i \in 1 .. Len(work) : work'[i] = work[i]
      /\ work'[Len(work) + 1] = w
  BY PostsWork
<1>2. \A i \in 1 .. Len(work') : i = Len(work) + 1 \/ i \in 1 .. Len(work)
  BY <1>1
<1>3. \A i \in 1 .. Len(work) : i \in 1 .. Len(work')
  BY <1>1
<1>4. Len(work) + 1 \in 1 .. Len(work')
  BY <1>1
<1>5. work' # <<>>
  BY <1>1
<1>. QED BY <1>1, <1>2, <1>3, <1>4, <1>5 DEF Changing

(* Nothing is posted at first.                                              *)
LEMMA InitPatience == ASSUME Init PROVE Patience
BY DEF Init, Patience, Served, AskedFor

(* The encoder made finds the encoder thread idle, since a patient page    *)
(* stopped the one before with no work posted.                             *)
LEMMA StartPatience ==
  ASSUME Numbered, Inv, Served, waited', NEW tracks \in TrackLists, Start(tracks)
  PROVE  Served' /\ AskedFor'
<1>. DEFINE new == [NewEncoder EXCEPT !.life = "live", !.tracks = tracks]
            enc == Selected(new, 0)
<1>1. video_enc = 0 /\ video_track_res = <<>> /\ work = <<>> /\ ~crashed
  BY DEF Start, Inv, Listed, Served
<1>2. tracks \in Seq(Resources) /\ tracks # <<>> /\ 1 \in DOMAIN tracks
  <2>1. tracks \in Seq(Resources) /\ tracks # <<>>
    BY TrackListsAreSeqs DEF Start
  <2>. QED BY <2>1
<1>3. video_track_res \o tracks = tracks
  BY <1>1, <1>2
<1>4. new \in Objects /\ new.life = "live" /\ new.tracks = tracks
  BY <1>2, NewObject DEF NewEncoder
<1>5. /\ enc.life = "live" /\ enc.tracks = tracks
      /\ enc.track = IF Added(tracks, 0) THEN tracks[1] ELSE NoTrack
  <2>1. new.track = NoTrack
    BY DEF NewEncoder
  <2>. HIDE DEF new
  <2>. QED BY <2>1, <1>4 DEF Selected
<1>6. MakeEncoder(tracks, enc) /\ Post([run |-> "encode"])
  BY <1>3 DEF Start
<1>. HIDE DEF enc, new
<1>7. made + 1 \in Encoders /\ video_enc' = made + 1
  BY <1>6, SessionAssumption DEF MakeEncoder, Numbered, Encoders
<1>8. encoder'[made + 1] = enc
  BY <1>6, <1>7 DEF MakeEncoder, Numbered
<1>9. asked'[made + 1] = [tracks |-> tracks, track |-> enc.track]
  BY <1>2, <1>5, <1>6, <1>7 DEF MakeEncoder, Inv, Listed
<1>10. ~Changing'
  <2>1. [run |-> "encode"] \in Work /\ [run |-> "encode"].run # "change"
    BY DEF Work
  <2>2. ~Changing
    BY <1>1 DEF Changing
  <2>. QED BY <2>1, <2>2, <1>6, ChangingPosts
<1>11. Served'
  BY <1>1, <1>5, <1>7, <1>8, <1>9 DEF Start, Served, Encoders
<1>12. AskedFor'
  BY <1>5, <1>7, <1>8, <1>9, <1>10 DEF AskedFor
<1>. QED BY <1>11, <1>12

(* Each change of a patient page names the encoder in use and one of its   *)
(* tracks, so the last one to write the globals is the last one asked for. *)
LEMMA ChangePatience ==
  ASSUME Numbered, Inv, Served, patient', NEW id \in 0 .. 2, ChangeTrack(id)
  PROVE  Served' /\ AskedFor'
<1>1. /\ video_enc \in Encoders /\ Added(asked[video_enc].tracks, id)
  BY DEF ChangeTrack, Encoding, Inv, Current
<1>2. asked' = [asked EXCEPT ![video_enc].track =
                  asked[video_enc].tracks[id + 1]]
  BY <1>1, SessionAssumption DEF ChangeTrack, Encoders
<1>3. /\ asked'[video_enc].tracks = asked[video_enc].tracks
      /\ asked'[video_enc].track = asked[video_enc].tracks[id + 1]
  BY <1>1, <1>2 DEF Inv, Listed
<1>4. Changing'
  <2>1. [run |-> "change"] \in Work /\ [run |-> "change"].run = "change"
    BY DEF Work
  <2>. QED BY <2>1, ChangingPosts DEF ChangeTrack
<1>5. Served'
  BY <1>1, <1>3 DEF ChangeTrack, Served, Encoders
<1>6. AskedFor'
  BY <1>1, <1>3, <1>4 DEF ChangeTrack, AskedFor
<1>. QED BY <1>5, <1>6

(* Writing into the encoder in use anything but its life, its tracks and   *)
(* its track changes nothing for the page.                                 *)
LEMMA ReplacePatience ==
  ASSUME Numbered, Served, AskedFor, NEW e \in Encoders, NEW new,
         new.life = encoder[e].life, new.tracks = encoder[e].tracks,
         new.track = encoder[e].track,
         encoder' = [encoder EXCEPT ![e] = new],
         UNCHANGED <<video_enc, g_video_enc, g_chng_track_id, crashed, asked>>,
         Changing' <=> Changing, work' # <<>> => video_enc # 0
  PROVE  Served' /\ AskedFor'
<1>1. \A f \in Encoders : /\ encoder'[f].life = encoder[f].life
                          /\ encoder'[f].tracks = encoder[f].tracks
                          /\ encoder'[f].track = encoder[f].track
  BY DEF Numbered
<1>2. video_enc # 0 => video_enc \in Encoders
  BY SessionAssumption DEF Numbered, Encoders
<1>. QED BY <1>1, <1>2 DEF Served, AskedFor

(* The workers find the encoder in use behind the global.                  *)
LEMMA WorkerPatience ==
  ASSUME Numbered, Served, AskedFor, Worker
  PROVE  Served' /\ AskedFor'
<1>1. /\ work # <<>> /\ work' = Tail(work) /\ Head(work) \in Work
      /\ UNCHANGED <<video_enc, g_video_enc, g_chng_track_id, asked>>
  BY TakesWork DEF Worker, VideoEncoderWorker, ChangeTrackWorker,
                   OnInitializedEncoder, Takes
<1>2. /\ video_enc # 0 /\ video_enc = g_video_enc /\ Usable(g_video_enc)
      /\ video_enc \in Encoders /\ encoder[video_enc] \in Objects
  BY <1>1, SessionAssumption DEF Served, Usable, Numbered, Encoders
<1>3. CASE VideoEncoderWorker
  <2>. DEFINE old == encoder[video_enc]
              new == [old EXCEPT !.initializing = old.initializing + 1]
  <2>1. encoder' = [encoder EXCEPT ![video_enc] = new] /\ UNCHANGED crashed
    BY <1>2, <1>3 DEF VideoEncoderWorker
  <2>2. /\ new.life = old.life /\ new.tracks = old.tracks
        /\ new.track = old.track
    BY <1>2
  <2>3. Changing' <=> Changing
    BY <1>1, <1>3, ChangingTakes DEF VideoEncoderWorker, Takes
  <2>. HIDE DEF new
  <2>. QED BY <1>1, <1>2, <2>1, <2>2, <2>3, ReplacePatience
<1>4. CASE ChangeTrackWorker
  <2>. DEFINE old == encoder[video_enc]
              list == asked[video_enc].tracks
  <2>1. /\ encoder' = [encoder EXCEPT ![video_enc] =
                         Selected(old, g_chng_track_id)]
        /\ UNCHANGED crashed
    BY <1>2, <1>4 DEF ChangeTrackWorker
  <2>2. /\ Added(list, g_chng_track_id) /\ old.tracks = list
        /\ asked[video_enc].track = list[g_chng_track_id + 1]
    <3>1. Changing
      BY <1>1, <1>4, ChangingTakes DEF ChangeTrackWorker, Takes
    <3>. QED BY <3>1, <1>2 DEF AskedFor, Served
  <2>3. Selected(old, g_chng_track_id)
          = [old EXCEPT !.track = list[g_chng_track_id + 1]]
    BY <2>2 DEF Selected
  <2>4. encoder'[video_enc] = [old EXCEPT !.track = list[g_chng_track_id + 1]]
    BY <1>2, <2>1, <2>3 DEF Numbered
  <2>5. /\ encoder'[video_enc].life = "live"
        /\ encoder'[video_enc].tracks = list
        /\ encoder'[video_enc].track = list[g_chng_track_id + 1]
    BY <1>2, <2>2, <2>4 DEF Served
  <2>6. Served'
    BY <1>1, <1>2, <2>1, <2>5 DEF Served
  <2>7. AskedFor'
    BY <1>1, <1>2, <2>2, <2>5 DEF AskedFor
  <2>. QED BY <2>6, <2>7
<1>5. CASE OnInitializedEncoder
  <2>. DEFINE w == Head(work)
              new == [encoder[w.of] EXCEPT !.encoding = TRUE]
  <2>1. w.run = "initialized" /\ UNCHANGED crashed
    BY <1>5 DEF OnInitializedEncoder, Takes
  <2>2. w.of \in Encoders
    BY <1>1, <2>1 DEF Work
  <2>3. Changing' <=> Changing
    BY <1>1, <2>1, ChangingTakes
  <2>4. CASE encoder' = encoder
    BY <1>1, <1>2, <2>1, <2>3, <2>4 DEF Served, AskedFor
  <2>5. CASE encoder' = [encoder EXCEPT ![w.of] = new]
    <3>1. encoder[w.of] \in Objects
      BY <2>2 DEF Numbered
    <3>2. /\ new.life = encoder[w.of].life /\ new.tracks = encoder[w.of].tracks
          /\ new.track = encoder[w.of].track
      BY <3>1
    <3>. HIDE DEF w, new
    <3>. QED BY <1>1, <1>2, <2>1, <2>2, <2>3, <2>5, <3>2, ReplacePatience
  <2>6. encoder' = encoder \/ encoder' = [encoder EXCEPT ![w.of] = new]
    BY <1>5 DEF OnInitializedEncoder
  <2>. QED BY <2>4, <2>5, <2>6
<1>. QED BY <1>3, <1>4, <1>5 DEF Worker

(* The browser answers only the encoder in use.                            *)
LEMMA InitializedPatience ==
  ASSUME Numbered, Inv, Served, AskedFor, NEW e \in Encoders,
         NEW ok \in BOOLEAN, Initialized(e, ok)
  PROVE  Served' /\ AskedFor'
<1>. DEFINE old == encoder[e]
            new == [old EXCEPT !.initializing = old.initializing - 1]
            w == [run |-> "initialized", of |-> e, ok |-> ok]
<1>1. e = video_enc /\ old \in Objects
  BY DEF Initialized, Inv, Current
<1>2. /\ new.life = old.life /\ new.tracks = old.tracks /\ new.track = old.track
  BY <1>1
<1>3. w \in Work /\ w.run # "change" /\ Post(w)
  BY DEF Initialized, Work
<1>4. Changing' <=> Changing
  BY <1>3, ChangingPosts
<1>5. /\ encoder' = [encoder EXCEPT ![e] = new]
      /\ UNCHANGED <<video_enc, g_video_enc, g_chng_track_id, crashed, asked>>
  BY DEF Initialized
<1>6. video_enc # 0
  BY <1>1 DEF Encoders
<1>. HIDE DEF new, w
<1>. QED BY <1>2, <1>4, <1>5, <1>6, ReplacePatience

(* A page patient now was patient before.                                   *)
LEMMA PatientBefore ==
  ASSUME [Next]_vars, patient'
  PROVE  patient
<1>1. ASSUME NEW tracks, Start(tracks) \/ StartInvalid(tracks)
      PROVE  patient
  BY <1>1 DEF Start, StartInvalid
<1>2. ASSUME NEW id, ChangeTrack(id)
      PROVE  patient
  BY <1>2 DEF ChangeTrack
<1>3. CASE Stop \/ Destroy
  BY <1>3 DEF Stop, Destroy
<1>4. CASE Worker \/ \E e \in Encoders, ok \in BOOLEAN : Initialized(e, ok)
  BY <1>4 DEF Worker, VideoEncoderWorker, ChangeTrackWorker,
              OnInitializedEncoder, Initialized
<1>5. CASE StartRefused \/ StopIgnored \/ UNCHANGED vars
  BY <1>5 DEF StartRefused, StopIgnored, vars
<1>. QED BY <1>1, <1>2, <1>3, <1>4, <1>5 DEF Next, Command

(* Every step keeps the work of a patient page served.                      *)
LEMMA NextPatience ==
  ASSUME Numbered, Waiting, Patience, [Next]_vars
  PROVE  Patience'
<1>. SUFFICES ASSUME waited', patient'
              PROVE  Served' /\ AskedFor'
  BY DEF Patience
<1>1. Inv /\ Served /\ AskedFor
  BY WaitedBefore, PatientBefore DEF Waiting, Patience
<1>2. ASSUME NEW tracks \in TrackLists, Start(tracks)
      PROVE  Served' /\ AskedFor'
  BY <1>1, <1>2, StartPatience
<1>3. ASSUME NEW tracks \in TrackLists \cup {<<>>}, StartInvalid(tracks)
      PROVE  FALSE
  BY <1>3 DEF StartInvalid
<1>4. ASSUME NEW id \in 0 .. 2, ChangeTrack(id)
      PROVE  Served' /\ AskedFor'
  BY <1>1, <1>4, ChangePatience
<1>5. CASE Stop \/ Destroy
  <2>1. /\ work = <<>> /\ work' = work /\ video_enc' = 0
        /\ crashed' = crashed /\ ~crashed
    BY <1>1, <1>5, Zenon DEF Stop, Destroy, Served
  <2>2. Served'
    BY <2>1, Zenon DEF Served
  <2>. QED BY <2>1, <2>2 DEF AskedFor
<1>6. CASE Worker
  BY <1>1, <1>6, WorkerPatience
<1>7. ASSUME NEW e \in Encoders, NEW ok \in BOOLEAN, Initialized(e, ok)
      PROVE  Served' /\ AskedFor'
  BY <1>1, <1>7, InitializedPatience
<1>8. CASE StartRefused \/ StopIgnored \/ UNCHANGED vars
  <2>1. UNCHANGED vars
    BY <1>8 DEF StartRefused, StopIgnored
  <2>2. Served'
    BY <1>1, <2>1, Zenon DEF vars, Served
  <2>3. AskedFor'
    BY <1>1, <2>1 DEF vars, AskedFor, Changing
  <2>. QED BY <2>2, <2>3
<1>. QED BY <1>2, <1>3, <1>4, <1>5, <1>6, <1>7, <1>8 DEF Next, Command

(* For a patient page the invariant holds.                                  *)
LEMMA PatientInvariant == Spec => [](Numbered /\ Waiting /\ Patience)
<1>1. Init => Numbered /\ Patience
  BY InitNumbered, InitPatience
<1>2. Numbered /\ Waiting /\ Patience /\ [Next]_vars => (Numbered /\ Patience)'
  BY NextNumbered, NextPatience
<1>. QED BY <1>1, <1>2, WaitingInvariant, PTL DEF Spec

(* NoDanglingWorker: the workers of a page that waits and is patient never *)
(* find a deleted encoder, or none, behind the globals they share, however *)
(* they interleave with its commands, the end of the page among them.      *)
THEOREM WorkersFindTheEncoder == Spec => []NoDanglingWorker
<1>1. Patience => NoDanglingWorker
  BY Zenon DEF Patience, Served, NoDanglingWorker
<1>. QED BY <1>1, PatientInvariant, PTL

(* LastTrackWins: although quick changes share one global, such a page has *)
(* the track it asked for last once the encoder thread is done.            *)
THEOREM LastChangeWins == Spec => []LastTrackWins
<1>1. Patience => LastTrackWins
  <2>. SUFFICES ASSUME AskedFor, Encoding, work = <<>>
                PROVE  encoder[video_enc].track = asked[video_enc].track
    BY DEF Patience, LastTrackWins
  <2>1. ~Changing
    BY DEF Changing
  <2>. QED BY <2>1 DEF AskedFor, Encoding
<1>. QED BY <1>1, PatientInvariant, PTL
=============================================================================
