------------------------- MODULE VideoEncoder_proofs --------------------------
(***************************************************************************)
(* Proofs about VideoEncoder, for every number of tracks, buffers and      *)
(* input frames, every key frame ratio and every choice of faults.         *)
(***************************************************************************)
EXTENDS VideoEncoder, VideoTrack_proofs, SequenceTheorems, FiniteSetTheorems

(* A label is queued for every frame in the browser's encoder, and the     *)
(* bitstream request is answered only with a coded frame: so front() is    *)
(* never taken of an empty queue.                                          *)
LabelQueued ==
  /\ Len(timestamps) >= Len(coded) + Len(submitted)
  /\ bits = "ready" => coded # <<>>

(* Nothing is in the pipeline before the encoder is initialized.           *)
Idle ==
  init # "over" =>
    /\ ~encoding /\ ticks = 0 /\ bits = "none" /\ waiting = NoFrame
    /\ given = <<>> /\ submitted = <<>> /\ coded = <<>>

TypeInv == TypeOK /\ LabelQueued /\ Idle

(* The handlers, their requests and the browser, as one list of cases.     *)
LEMMA NextCases ==
  ASSUME Next
  PROVE  \/ \E t \in Tracks : AddTrack(t)
         \/ \E t \in Tracks : SetTrack(t)
         \/ Encode \/ StopEncode
         \/ CloseEncoder \/ ClearTracks \/ ClearEncoding \/ FinishMuxer
         \/ DeleteEncoder
         \/ OnInitializedEncoder \/ InitializeFailed
         \/ GetEncoderFrameTick \/ LastTick
         \/ OnEncoderFrame \/ OnEncoderFrameNotCopied
         \/ \E f \in refused : OnEncoderFrameRefused(f)
         \/ OnEncoderFrameAborted
         \/ OnEncodeDone \/ OnGetBitstreamBuffer \/ BitstreamLoopEnds
         \/ GiveInput \/ Code \/ CodeFailed \/ BitsReady
         \/ \E t \in Tracks : StopTrack(t)
         \/ \E t \in Tracks : TrackStep(t)
BY DEF Next, Command, Stop, Callback, Handler, Browser

(* Sequences: what the queues of the encoder are used for.                 *)
LEMMA TailFacts ==
  ASSUME NEW S, NEW s \in Seq(S), s # <<>>
  PROVE  /\ Tail(s) \in Seq(S) /\ Head(s) \in S /\ Head(s) = s[1]
         /\ Len(s) \in Nat /\ Len(s) > 0
         /\ Len(Tail(s)) = Len(s) - 1
         /\ \A i \in 1 .. Len(s) - 1 : Tail(s)[i] = s[i + 1]
BY HeadTailProperties, EmptySeq, LenProperties

(* Append, element by element.                                              *)
LEMMA AppendFacts ==
  ASSUME NEW S, NEW s \in Seq(S), NEW e \in S
  PROVE  /\ Append(s, e) \in Seq(S)
         /\ Len(s) \in Nat
         /\ Len(Append(s, e)) = Len(s) + 1
         /\ \A i \in 1 .. Len(s) : Append(s, e)[i] = s[i]
         /\ Append(s, e)[Len(s) + 1] = e
BY AppendProperties, LenProperties

(* The initial state is well typed.                                        *)
LEMMA InitType == ASSUME Init PROVE TypeInv
<1>1. TrackTypeOK
  BY TrackInitType DEF Init
<1>2. /\ timestamps \in Seq(1 .. MaxTs) /\ given \in Seq(Frame)
      /\ submitted \in Seq(Input) /\ coded \in Seq(Input)
  BY EmptySeq DEF Init
<1>3. TypeOK
  <2>1. slots \in Nat /\ lastTs \in 0 .. MaxTs
    BY EncoderAssumption, TrackAssumption DEF Init
  <2>2. recorded \in Block \cup {NoBlock} /\ waiting \in Frame \cup {NoFrame}
    BY DEF Init
  <2> QED
    BY <1>1, <1>2, <2>1, <2>2 DEF Init, TypeOK
<1>4. LabelQueued /\ Idle
  BY EmptySeq DEF Init, LabelQueued, Idle
<1> QED
  BY <1>3, <1>4 DEF TypeInv

(* Commands, the stop sequence and the callbacks that move no frame.       *)
LEMMA QuietType ==
  ASSUME TypeInv,
         \/ \E t \in Tracks : AddTrack(t)
         \/ \E t \in Tracks : SetTrack(t)
         \/ Encode \/ StopEncode
         \/ CloseEncoder \/ ClearTracks \/ ClearEncoding \/ FinishMuxer
         \/ DeleteEncoder
         \/ OnInitializedEncoder \/ InitializeFailed \/ LastTick
         \/ BitstreamLoopEnds \/ BitsReady
         \/ \E t \in Tracks : StopTrack(t)
         \/ \E t \in Tracks : TrackStep(t)
         \/ UNCHANGED vars
  PROVE  TypeInv'
<1> USE DEF TypeInv, TypeOK, LabelQueued, Idle, vars, fieldVars, requestVars,
            browserVars, auxVars
<1>0. ASSUME UNCHANGED trackVars PROVE TrackTypeOK'
  BY <1>0 DEF trackVars, TrackTypeOK
<1>1. CASE \E t \in Tracks : AddTrack(t)
  BY <1>0, <1>1 DEF AddTrack
<1>2. CASE \E t \in Tracks : SetTrack(t)
  BY <1>0, <1>2 DEF SetTrack
<1>3. CASE Encode
  BY <1>3, StartTrackingType, EmptySeq DEF Encode
<1>4. CASE StopEncode
  BY <1>0, <1>4, ZenonT(30) DEF StopEncode
<1>5. CASE CloseEncoder \/ ClearTracks \/ ClearEncoding \/ FinishMuxer
             \/ DeleteEncoder
  <2>1. CASE CloseEncoder
    BY <1>0, <2>1 DEF CloseEncoder
  <2>2. CASE ClearTracks
    BY <1>0, <2>2 DEF ClearTracks
  <2>3. CASE ClearEncoding
    BY <1>0, <2>3, ZenonT(60) DEF ClearEncoding
  <2>4. CASE FinishMuxer
    BY <1>0, <2>4 DEF FinishMuxer
  <2>5. CASE DeleteEncoder
    BY <1>0, <2>5 DEF DeleteEncoder
  <2> QED
    BY <1>5, <2>1, <2>2, <2>3, <2>4, <2>5
<1>6. CASE OnInitializedEncoder
  BY <1>0, <1>6 DEF OnInitializedEncoder
<1>7. CASE InitializeFailed \/ BitstreamLoopEnds \/ BitsReady
  <2>1. CASE InitializeFailed
    BY <1>0, <2>1 DEF InitializeFailed
  <2>2. CASE BitstreamLoopEnds
    BY <1>0, <2>2 DEF BitstreamLoopEnds
  <2>3. CASE BitsReady
    BY <1>0, <2>3 DEF BitsReady
  <2> QED
    BY <1>7, <2>1, <2>2, <2>3
<1>8. CASE LastTick
  BY <1>0, <1>8 DEF LastTick
<1>9. CASE \E t \in Tracks : TrackStep(t)
  BY <1>9, CaptureType, TrackCallbackType DEF TrackStep
<1>10. CASE \E t \in Tracks : StopTrack(t)
  BY <1>10, StopTrackingType DEF StopTrack
<1>11. CASE UNCHANGED vars
  BY <1>0, <1>11
<1> QED
  BY <1>1, <1>2, <1>3, <1>4, <1>5, <1>6, <1>7, <1>8, <1>9, <1>10, <1>11

(* The tick loop: a frame taken is one the track held.                     *)
LEMMA TickType ==
  ASSUME TypeInv, GetEncoderFrameTick
  PROVE  TypeInv'
<1> USE DEF TypeInv, TypeOK, GetEncoderFrameTick
<1>1. NextTrack \in Tracks \cup {NoTrack}
  BY DEF NextTrack
<1>2. TrackTypeOK'
  <2>1. CASE UNCHANGED trackVars
    BY <2>1 DEF trackVars, TrackTypeOK
  <2>2. CASE TakeFrame(NextTrack)
    BY <2>2, TakeFrameType
  <2> QED
    BY <2>1, <2>2
<1>3. waiting' \in Frame \cup {NoFrame} /\ refused' \subseteq Frame
  <2>1. CASE receiving /\ NextTrack # NoTrack /\ current[NextTrack] # NoFrame
    <3>1. current[NextTrack] \in Frame
      BY <2>1, <1>1 DEF TrackTypeOK
    <3> QED
      BY <2>1, <3>1 DEF GetEncoderFrame
  <2>2. CASE ~(receiving /\ NextTrack # NoTrack /\ current[NextTrack] # NoFrame)
    BY <2>2
  <2> QED
    BY <2>1, <2>2
<1>4. TypeOK'
  BY <1>1, <1>2, <1>3 DEF browserVars, auxVars
<1>5. LabelQueued' /\ Idle'
  BY DEF LabelQueued, Idle, browserVars
<1> QED
  BY <1>4, <1>5

(* Encoding: a label is queued with the frame it belongs to.               *)
LEMMA EncodeType ==
  ASSUME TypeInv, OnEncoderFrame
  PROVE  TypeInv'
<1> USE DEF TypeInv, TypeOK, OnEncoderFrame
<1> DEFINE f == Head(given)
           e == [frame |-> f, key |-> frameCount > KeyFrameRatio]
<1>1. TrackTypeOK'
  BY RecycleFrameType
<1>2. f \in Frame /\ Tail(given) \in Seq(Frame)
  BY TailFacts
<1>3. f.ts \in 1 .. MaxTs /\ e \in Input
  <2>1. f.ts \in 1 .. MaxTs
    BY <1>2 DEF Frame
  <2>2. (frameCount > KeyFrameRatio) \in BOOLEAN
    OBVIOUS
  <2>3. e \in Input
    BY <1>2, <2>2, Zenon DEF Input
  <2> QED
    BY <2>1, <2>3
<1>4. /\ timestamps' = Append(timestamps, f.ts)
      /\ submitted' = Append(submitted, e)
      /\ gap' \in Nat /\ forceKey' \in BOOLEAN
  BY DEF EncodeFrame
<1>5. /\ timestamps' \in Seq(1 .. MaxTs) /\ Len(timestamps') = Len(timestamps) + 1
      /\ submitted' \in Seq(Input) /\ Len(submitted') = Len(submitted) + 1
  BY <1>3, <1>4, AppendFacts
<1>6. TypeOK'
  BY <1>1, <1>2, <1>4, <1>5
<1>7. LabelQueued'
  BY <1>5, LenProperties DEF LabelQueued
<1>8. Idle'
  BY DEF Idle
<1> QED
  BY <1>6, <1>7, <1>8

(* The other answers to GetVideoFrame.                                     *)
LEMMA ReturnType ==
  ASSUME TypeInv,
         \/ OnEncoderFrameNotCopied
         \/ \E f \in refused : OnEncoderFrameRefused(f)
         \/ OnEncoderFrameAborted
  PROVE  TypeInv'
<1> USE DEF TypeInv, TypeOK, LabelQueued, Idle, fieldVars, browserVars, auxVars
<1>1. CASE OnEncoderFrameNotCopied
  <2>1. TrackTypeOK'
    BY <1>1, RecycleFrameType DEF OnEncoderFrameNotCopied
  <2>2. given' \in Seq(Frame)
    BY <1>1, TailFacts DEF OnEncoderFrameNotCopied
  <2> QED
    BY <1>1, <2>1, <2>2 DEF OnEncoderFrameNotCopied
<1>2. CASE \E f \in refused : OnEncoderFrameRefused(f)
  <2>1. TrackTypeOK'
    BY <1>2, RecycleFrameType DEF OnEncoderFrameRefused
  <2> QED
    BY <1>2, <2>1 DEF OnEncoderFrameRefused
<1>3. CASE OnEncoderFrameAborted
  <2>1. TrackTypeOK'
    BY <1>3, RecycleFrameType DEF OnEncoderFrameAborted
  <2> QED
    BY <1>3, <2>1 DEF OnEncoderFrameAborted
<1> QED
  BY <1>1, <1>2, <1>3

(* Collecting a coded frame: it has a label, which is dropped with it.     *)
LEMMA CollectType ==
  ASSUME TypeInv, OnGetBitstreamBuffer
  PROVE  TypeInv'
<1> USE DEF TypeInv, TypeOK, OnGetBitstreamBuffer, BitstreamUnchanged
<1>1. coded # <<>> /\ Len(coded) > 0
  BY EmptySeq DEF LabelQueued
<1>2. timestamps # <<>>
  BY <1>1, EmptySeq, LenProperties DEF LabelQueued
<1>3. /\ Head(timestamps) \in 1 .. MaxTs
      /\ Tail(timestamps) \in Seq(1 .. MaxTs)
      /\ Len(Tail(timestamps)) = Len(timestamps) - 1
  BY <1>2, TailFacts
<1>4. /\ Head(coded) \in Input /\ Tail(coded) \in Seq(Input)
      /\ Len(Tail(coded)) = Len(coded) - 1
  BY <1>1, TailFacts
<1>5. [frame |-> Head(coded).frame, label |-> Head(timestamps),
       key |-> Head(coded).key] \in Block
  BY <1>3, <1>4 DEF Input, Block
<1>6. lastTs' \in 0 .. MaxTs /\ recorded' \in Block \cup {NoBlock}
  BY <1>3, <1>5, TrackAssumption, SMTT(20)
<1>7. TrackTypeOK'
  BY DEF trackVars, TrackTypeOK
<1>8. TypeOK'
  BY <1>3, <1>4, <1>6, <1>7
<1>9. LabelQueued'
  BY <1>3, <1>4, LenProperties DEF LabelQueued
<1>10. Idle'
  BY DEF Idle
<1> QED
  BY <1>8, <1>9, <1>10

(* The browser's encoder and OnEncodeDone.                                 *)
LEMMA BrowserType ==
  ASSUME TypeInv, GiveInput \/ Code \/ CodeFailed \/ OnEncodeDone
  PROVE  TypeInv'
<1> USE DEF TypeInv, TypeOK, fieldVars, requestVars, auxVars
<1>0. ASSUME UNCHANGED trackVars PROVE TrackTypeOK'
  BY <1>0 DEF trackVars, TrackTypeOK
<1>1. CASE GiveInput
  <2>1. waiting \in Frame /\ init = "over"
    BY <1>1 DEF GiveInput, Idle
  <2>2. given' \in Seq(Frame)
    BY <1>1, <2>1, AppendFacts DEF GiveInput
  <2> QED
    BY <1>0, <1>1, <2>1, <2>2 DEF GiveInput, LabelQueued, Idle
<1>2. CASE Code
  <2>1. /\ Head(submitted) \in Input /\ Tail(submitted) \in Seq(Input)
        /\ Len(Tail(submitted)) = Len(submitted) - 1
    BY <1>2, TailFacts DEF Code
  <2>2. /\ coded' \in Seq(Input) /\ Len(coded') = Len(coded) + 1
        /\ coded' # <<>>
    BY <1>2, <2>1, AppendFacts, EmptySeq, LenProperties DEF Code
  <2>3. TypeOK'
    BY <1>0, <1>2, <2>1, <2>2 DEF Code
  <2>4. LabelQueued'
    BY <1>2, <2>1, <2>2, LenProperties DEF Code, LabelQueued
  <2>5. Idle'
    BY <1>2 DEF Code, Idle
  <2> QED
    BY <2>3, <2>4, <2>5
<1>3. CASE CodeFailed
  <2>1. /\ Tail(submitted) \in Seq(Input)
        /\ Len(Tail(submitted)) = Len(submitted) - 1
    BY <1>3, TailFacts DEF CodeFailed
  <2>2. TypeOK'
    BY <1>0, <1>3, <2>1 DEF CodeFailed
  <2>3. LabelQueued'
    BY <1>3, <2>1, LenProperties DEF CodeFailed, LabelQueued
  <2>4. Idle'
    BY <1>3 DEF CodeFailed, Idle
  <2> QED
    BY <2>2, <2>3, <2>4
<1>4. CASE OnEncodeDone
  <2>1. dones' \in Nat /\ slots' \in Nat /\ frameCount' \in Nat
    BY <1>4 DEF OnEncodeDone
  <2>2. TypeOK'
    <3>1. TrackTypeOK'
      BY <1>0, <1>4 DEF OnEncodeDone
    <3>2. forceKey' \in BOOLEAN
      BY <1>4 DEF OnEncodeDone
    <3>3. UNCHANGED <<tracks, track, newTrack, encoding, ticking, receiving,
                      timestamps, lastTs, init, ticks, waiting, given, refused,
                      bits, submitted, coded, shut, stopping, switches,
                      recorded, gap>>
      BY <1>4 DEF OnEncodeDone
    <3> QED
      BY <2>1, <3>1, <3>2, <3>3
  <2>3. LabelQueued' /\ Idle'
    BY <1>4 DEF OnEncodeDone, LabelQueued, Idle
  <2> QED
    BY <2>2, <2>3
<1> QED
  BY <1>1, <1>2, <1>3, <1>4

(* Every step keeps the types.                                              *)
LEMMA NextTypeInv == ASSUME TypeInv, [Next]_vars PROVE TypeInv'
<1>1. CASE UNCHANGED vars
  BY <1>1, QuietType
<1>2. CASE Next
  BY <1>2, NextCases, QuietType, TickType, EncodeType, ReturnType,
     CollectType, BrowserType
<1> QED
  BY <1>1, <1>2

(* Every variable keeps its type; in particular a label is there for every *)
(* bitstream buffer collected.                                             *)
THEOREM TypeCorrect == Spec => []TypeOK
<1>1. Init => TypeInv
  BY InitType
<1>2. TypeInv /\ [Next]_vars => TypeInv'
  BY NextTypeInv
<1>3. TypeInv => TypeOK
  BY DEF TypeInv
<1> QED
  BY <1>1, <1>2, <1>3, PTL DEF Spec

-----------------------------------------------------------------------------
(* Input frames. *)

(* The steps that leave the input frames where they are.                   *)
LEMMA SlotsKept ==
  ASSUME [Next]_vars, ~OnEncoderFrame, ~OnEncoderFrameNotCopied,
         ~OnEncodeDone, ~GiveInput, ~Code, ~CodeFailed
  PROVE  UNCHANGED <<slots, given, submitted, dones>>
<1> USE DEF vars, fieldVars, requestVars, browserVars, auxVars
<1>1. CASE UNCHANGED vars
  BY <1>1
<1>2. CASE Next
  <2>1. CASE \E t \in Tracks :
               AddTrack(t) \/ SetTrack(t) \/ StopTrack(t) \/ TrackStep(t)
    BY <2>1 DEF AddTrack, SetTrack, StopTrack, TrackStep
  <2>2. CASE Encode \/ StopEncode \/ CloseEncoder \/ ClearTracks
               \/ ClearEncoding \/ FinishMuxer \/ DeleteEncoder
    BY <2>2 DEF Encode, StopEncode, CloseEncoder, ClearTracks, ClearEncoding,
                FinishMuxer, DeleteEncoder
  <2>3. CASE OnInitializedEncoder \/ InitializeFailed \/ GetEncoderFrameTick
               \/ LastTick
    BY <2>3 DEF OnInitializedEncoder, InitializeFailed, GetEncoderFrameTick,
                LastTick
  <2>4. CASE (\E f \in refused : OnEncoderFrameRefused(f))
               \/ OnEncoderFrameAborted
    BY <2>4 DEF OnEncoderFrameRefused, OnEncoderFrameAborted
  <2>5. CASE OnGetBitstreamBuffer \/ BitstreamLoopEnds \/ BitsReady
    BY <2>5 DEF OnGetBitstreamBuffer, BitstreamUnchanged, BitstreamLoopEnds, BitsReady
  <2> QED
    BY <1>2, <2>1, <2>2, <2>3, <2>4, <2>5, NextCases
<1> QED
  BY <1>1, <1>2

(* Every step conserves the input frames.                                   *)
LEMMA SlotsNext ==
  ASSUME TypeInv, SlotsConserved, [Next]_vars
  PROVE  SlotsConserved'
<1> SUFFICES ASSUME "copy" \notin Faults
             PROVE  slots' + Len(given') + Len(submitted') + dones' = EncBuffers
  BY DEF SlotsConserved
<1>0. /\ slots + Len(given) + Len(submitted) + dones = EncBuffers
      /\ slots \in Nat /\ dones \in Nat
      /\ Len(given) \in Nat /\ Len(submitted) \in Nat
      /\ given \in Seq(Frame) /\ submitted \in Seq(Input)
  BY LenProperties DEF SlotsConserved, TypeInv, TypeOK
<1>1. CASE OnEncoderFrame
  <2>1. /\ Head(given) \in Frame /\ Len(given') = Len(given) - 1
    BY <1>0, <1>1, TailFacts DEF OnEncoderFrame
  <2>2. (frameCount > KeyFrameRatio) \in BOOLEAN
    OBVIOUS
  <2>3. [frame |-> Head(given), key |-> frameCount > KeyFrameRatio] \in Input
    BY <2>1, <2>2, Zenon DEF Input
  <2>4. Len(submitted') = Len(submitted) + 1
    BY <1>0, <1>1, <2>3, AppendFacts DEF OnEncoderFrame, EncodeFrame
  <2> QED
    BY <1>0, <1>1, <2>1, <2>4 DEF OnEncoderFrame
<1>2. CASE OnEncodeDone
  BY <1>0, <1>2 DEF OnEncodeDone
<1>3. CASE GiveInput
  <2>1. waiting \in Frame
    BY <1>3 DEF GiveInput, TypeInv, TypeOK
  <2>2. Len(given') = Len(given) + 1
    BY <1>0, <1>3, <2>1, AppendFacts DEF GiveInput
  <2> QED
    BY <1>0, <1>3, <2>2 DEF GiveInput
<1>4. CASE Code
  <2>1. Len(submitted') = Len(submitted) - 1
    BY <1>0, <1>4, TailFacts DEF Code
  <2> QED
    BY <1>0, <1>4, <2>1 DEF Code
<1>5. CASE CodeFailed
  <2>1. Len(submitted') = Len(submitted) - 1
    BY <1>0, <1>5, TailFacts DEF CodeFailed
  <2> QED
    BY <1>0, <1>5, <2>1 DEF CodeFailed, requestVars
<1> QED
  BY <1>0, <1>1, <1>2, <1>3, <1>4, <1>5, SlotsKept DEF OnEncoderFrameNotCopied

(* No input frame of the browser's encoder is lost while copies succeed,   *)
(* whatever is refused, aborted or fails to encode.                        *)
THEOREM InputsConserved == Spec => []SlotsConserved
<1>1. Init => TypeInv /\ SlotsConserved
  <2>1. ASSUME Init PROVE SlotsConserved
    BY <2>1, EmptySeq, EncoderAssumption DEF Init, SlotsConserved
  <2> QED
    BY <2>1, InitType
<1>2. TypeInv /\ SlotsConserved /\ [Next]_vars => (TypeInv /\ SlotsConserved)'
  BY NextTypeInv, SlotsNext
<1> QED
  BY <1>1, <1>2, PTL DEF Spec

-----------------------------------------------------------------------------
(* Key frames. *)

(* Frames submitted since the last forced key frame are counted, are on    *)
(* their way to being counted, or are none.                                *)
KeyInv ==
  switches = 0 /\ Faults \cap {"copy", "encode"} = {} =>
    /\ newTrack = NoTrack
    /\ forceKey => gap = 0
    /\ ~forceKey => gap <= frameCount + dones + Len(submitted)
    /\ gap <= KeyFrameRatio + EncBuffers

(* Steps that leave the count of frames since a key frame alone.           *)
LEMMA KeyKept ==
  ASSUME [Next]_vars, ~GetEncoderFrameTick, ~OnEncoderFrame,
         ~OnEncodeDone, ~Code, ~CodeFailed, switches' = 0, TypeInv
  PROVE  /\ UNCHANGED <<submitted, dones, forceKey, frameCount, gap>>
         /\ switches = 0
         /\ newTrack' = newTrack
<1> USE DEF vars, fieldVars, requestVars, browserVars, auxVars
<1>1. CASE UNCHANGED vars
  BY <1>1
<1>2. CASE Next
  <2>1. CASE \E t \in Tracks : AddTrack(t) \/ StopTrack(t) \/ TrackStep(t)
    BY <2>1 DEF AddTrack, StopTrack, TrackStep
  <2>2. CASE \E t \in Tracks : SetTrack(t)
    BY <2>2 DEF SetTrack, TypeInv, TypeOK
  <2>3. CASE Encode \/ StopEncode \/ CloseEncoder \/ ClearTracks
               \/ ClearEncoding \/ FinishMuxer \/ DeleteEncoder
    BY <2>3 DEF Encode, StopEncode, CloseEncoder, ClearTracks, ClearEncoding,
                FinishMuxer, DeleteEncoder
  <2>4. CASE OnInitializedEncoder \/ InitializeFailed \/ LastTick
    BY <2>4 DEF OnInitializedEncoder, InitializeFailed, LastTick
  <2>5. CASE OnEncoderFrameNotCopied \/ OnEncoderFrameAborted
               \/ (\E f \in refused : OnEncoderFrameRefused(f))
    BY <2>5 DEF OnEncoderFrameNotCopied, OnEncoderFrameRefused,
                OnEncoderFrameAborted
  <2>6. CASE OnGetBitstreamBuffer \/ BitstreamLoopEnds \/ BitsReady \/ GiveInput
    BY <2>6 DEF OnGetBitstreamBuffer, BitstreamUnchanged, BitstreamLoopEnds, BitsReady, GiveInput
  <2> QED
    BY <1>2, <2>1, <2>2, <2>3, <2>4, <2>5, <2>6, NextCases
<1> QED
  BY <1>1, <1>2

(* Every step keeps it below the ratio.                                     *)
LEMMA KeyNext ==
  ASSUME TypeInv, SlotsConserved, KeyInv, [Next]_vars
  PROVE  KeyInv'
<1> SUFFICES ASSUME switches' = 0, Faults \cap {"copy", "encode"} = {}
             PROVE  /\ newTrack' = NoTrack
                    /\ forceKey' => gap' = 0
                    /\ ~forceKey' => gap' <= frameCount' + dones' + Len(submitted')
                    /\ gap' <= KeyFrameRatio + EncBuffers
  BY DEF KeyInv
<1>0. /\ Len(submitted) \in Nat /\ Len(given) \in Nat /\ slots \in Nat
      /\ frameCount \in Nat /\ dones \in Nat /\ gap \in Nat
      /\ KeyFrameRatio \in Nat /\ EncBuffers \in Nat
      /\ submitted \in Seq(Input) /\ given \in Seq(Frame) /\ coded \in Seq(Input)
      /\ forceKey \in BOOLEAN
  BY LenProperties, EncoderAssumption DEF TypeInv, TypeOK
<1>1. slots + Len(given) + Len(submitted) + dones = EncBuffers
  BY DEF SlotsConserved
<1>2. CASE GetEncoderFrameTick
  <2>1. switches = 0 /\ newTrack = NoTrack
    BY <1>2 DEF GetEncoderFrameTick, auxVars, KeyInv
  <2>2. forceKey' = forceKey
    BY <1>2, <1>0, <2>1 DEF GetEncoderFrameTick
  <2> QED
    BY <1>2, <2>1, <2>2 DEF GetEncoderFrameTick, auxVars, browserVars, KeyInv
<1>3. CASE OnEncoderFrame
  <2> DEFINE key == frameCount > KeyFrameRatio
  <2>1. Head(given) \in Frame /\ Len(given) > 0
    BY <1>0, <1>3, TailFacts DEF OnEncoderFrame
  <2>2. key \in BOOLEAN
    OBVIOUS
  <2>3. [frame |-> Head(given), key |-> key] \in Input
    BY <2>1, <2>2, Zenon DEF Input
  <2>4. Len(submitted') = Len(submitted) + 1
    BY <1>0, <1>3, <2>3, AppendFacts DEF OnEncoderFrame, EncodeFrame
  <2>5. /\ forceKey' = key /\ gap' = IF key THEN 0 ELSE gap + 1
        /\ UNCHANGED <<newTrack, frameCount, dones, switches>>
    BY <1>3 DEF OnEncoderFrame, EncodeFrame
  <2>6. KeyInv!2
    BY <2>5 DEF KeyInv
  <2>7. CASE key
    BY <2>5, <2>6, <2>7, <1>0
  <2>8. CASE ~key
    <3>1. gap <= frameCount + dones + Len(submitted)
      BY <1>0, <2>6
    <3>2. gap' = gap + 1 /\ frameCount <= KeyFrameRatio
      BY <1>0, <2>5, <2>8
    <3> QED
      <4>1. Len(submitted) + 1 + dones <= EncBuffers
        BY <2>1, <1>0, <1>1
      <4>2. gap' <= KeyFrameRatio + EncBuffers
        BY <3>1, <3>2, <4>1, <1>0
      <4>3. gap' <= frameCount' + dones' + Len(submitted')
        BY <3>1, <3>2, <2>4, <2>5, <1>0
      <4> QED
        BY <4>2, <4>3, <2>5, <2>6, <2>8
  <2> QED
    BY <2>7, <2>8
<1>4. CASE OnEncodeDone
  <2>1. /\ forceKey' = FALSE /\ dones' = dones - 1 /\ dones > 0
        /\ frameCount' = IF forceKey THEN 1 ELSE frameCount + 1
        /\ UNCHANGED <<newTrack, gap, submitted, switches>>
    BY <1>4 DEF OnEncodeDone, auxVars
  <2>2. KeyInv!2
    BY <2>1 DEF KeyInv
  <2> QED
    BY <2>1, <2>2, <1>0
<1>5. CASE Code
  <2>1. Len(submitted') = Len(submitted) - 1
    BY <1>0, <1>5, TailFacts DEF Code
  <2>2. /\ dones' = dones + 1
        /\ UNCHANGED <<newTrack, gap, forceKey, frameCount, switches>>
    BY <1>5 DEF Code, auxVars, fieldVars
  <2>3. KeyInv!2
    BY <2>2 DEF KeyInv
  <2> QED
    BY <2>1, <2>2, <2>3, <1>0
<1>6. CASE CodeFailed
  BY <1>6 DEF CodeFailed
<1>7. CASE /\ ~GetEncoderFrameTick /\ ~OnEncoderFrame /\ ~OnEncodeDone
           /\ ~Code /\ ~CodeFailed
  BY <1>7, KeyKept DEF KeyInv
<1> QED
  BY <1>2, <1>3, <1>4, <1>5, <1>6, <1>7

(* With one track in use and an encoder that works, a key frame is forced  *)
(* at least every KEY_FRAME_RATIO frames plus those the encoder can hold.  *)
THEOREM KeyFramesOften == Spec => []KeyFrameInterval
<1>1. Init => TypeInv /\ SlotsConserved /\ KeyInv
  <2>1. ASSUME Init PROVE SlotsConserved /\ KeyInv
    BY <2>1, EmptySeq, EncoderAssumption DEF Init, SlotsConserved, KeyInv
  <2> QED
    BY <2>1, InitType
<1>2. TypeInv /\ SlotsConserved /\ KeyInv /\ [Next]_vars
        => (TypeInv /\ SlotsConserved /\ KeyInv)'
  BY NextTypeInv, SlotsNext, KeyNext
<1>3. KeyInv => KeyFrameInterval
  BY DEF KeyInv, KeyFrameInterval
<1> QED
  BY <1>1, <1>2, <1>3, PTL DEF Spec

-----------------------------------------------------------------------------
(* Labels. *)

(* LabelsInStep, queue by queue.                                           *)
InStep ==
  "encode" \notin Faults =>
    /\ Len(timestamps) = Len(coded) + Len(submitted)
    /\ \A i \in 1 .. Len(coded) : timestamps[i] = coded[i].frame.ts
    /\ \A i \in 1 .. Len(submitted) :
         timestamps[Len(coded) + i] = submitted[i].frame.ts

(* The labels in step are those of the frames in the encoder.               *)
LEMMA InStepLabels == ASSUME TypeInv, InStep PROVE LabelsInStep
<1> SUFFICES ASSUME "encode" \notin Faults
             PROVE  timestamps = [i \in 1 .. Len(coded \o submitted) |->
                                    (coded \o submitted)[i].frame.ts]
  BY DEF LabelsInStep
<1> DEFINE all == coded \o submitted
<1>1. /\ timestamps \in Seq(1 .. MaxTs)
      /\ coded \in Seq(Input) /\ submitted \in Seq(Input)
      /\ Len(coded) \in Nat /\ Len(submitted) \in Nat
  BY LenProperties DEF TypeInv, TypeOK
<1>2. /\ Len(all) = Len(coded) + Len(submitted)
      /\ \A i \in 1 .. Len(all) :
           all[i] = IF i <= Len(coded) THEN coded[i]
                    ELSE submitted[i - Len(coded)]
  BY <1>1, ConcatProperties
<1>3. \A i \in 1 .. Len(all) : timestamps[i] = all[i].frame.ts
  <2> SUFFICES ASSUME NEW i \in 1 .. Len(all)
               PROVE  timestamps[i] = all[i].frame.ts
    OBVIOUS
  <2>1. CASE i <= Len(coded)
    BY <2>1, <1>1, <1>2 DEF InStep
  <2>2. CASE ~(i <= Len(coded))
    <3>1. i - Len(coded) \in 1 .. Len(submitted)
      BY <2>2, <1>1, <1>2
    <3>2. timestamps[Len(coded) + (i - Len(coded))]
            = submitted[i - Len(coded)].frame.ts
      BY <3>1 DEF InStep
    <3>3. Len(coded) + (i - Len(coded)) = i
      BY <1>1, <1>2
    <3> QED
      BY <3>2, <3>3, <2>2, <1>2
  <2> QED
    BY <2>1, <2>2
<1>4. timestamps = [i \in 1 .. Len(timestamps) |-> timestamps[i]]
  BY <1>1, SeqDef, LenProperties
<1>5. Len(timestamps) = Len(all)
  BY <1>2 DEF InStep
<1> HIDE DEF all
<1>6. [i \in 1 .. Len(timestamps) |-> timestamps[i]]
        = [i \in 1 .. Len(all) |-> all[i].frame.ts]
  BY <1>3, <1>5
<1> QED
  BY <1>4, <1>6 DEF all

(* Steps that leave the labels and the encoder's queues alone.             *)
LEMMA QueuesKept ==
  ASSUME TypeInv, [Next]_vars,
         ~OnEncoderFrame, ~Code, ~CodeFailed, ~OnGetBitstreamBuffer, ~Encode
  PROVE  UNCHANGED <<timestamps, coded, submitted>>
<1> USE DEF vars, fieldVars, requestVars, browserVars, auxVars
<1>1. CASE UNCHANGED vars
  BY <1>1
<1>2. CASE Next
  <2>1. CASE \E t \in Tracks :
               AddTrack(t) \/ SetTrack(t) \/ StopTrack(t) \/ TrackStep(t)
    BY <2>1 DEF AddTrack, SetTrack, StopTrack, TrackStep
  <2>2. CASE StopEncode \/ CloseEncoder \/ ClearTracks
               \/ ClearEncoding \/ FinishMuxer \/ DeleteEncoder
    BY <2>2 DEF StopEncode, CloseEncoder, ClearTracks, ClearEncoding,
                FinishMuxer, DeleteEncoder
  <2>3. CASE OnInitializedEncoder \/ InitializeFailed \/ GetEncoderFrameTick
               \/ LastTick
    BY <2>3 DEF OnInitializedEncoder, InitializeFailed, GetEncoderFrameTick,
                LastTick
  <2>4. CASE OnEncoderFrameNotCopied \/ OnEncoderFrameAborted
               \/ (\E f \in refused : OnEncoderFrameRefused(f))
    BY <2>4 DEF OnEncoderFrameNotCopied, OnEncoderFrameRefused,
                OnEncoderFrameAborted
  <2>5. CASE BitstreamLoopEnds \/ BitsReady \/ GiveInput \/ OnEncodeDone
    BY <2>5 DEF BitstreamLoopEnds, BitsReady, GiveInput, OnEncodeDone
  <2> QED
    BY <1>2, <2>1, <2>2, <2>3, <2>4, <2>5, NextCases
<1> QED
  BY <1>1, <1>2

(* Every step keeps them in step, while no Encode fails.                    *)
LEMMA InStepNext ==
  ASSUME TypeInv, InStep, [Next]_vars
  PROVE  InStep'
<1> SUFFICES ASSUME "encode" \notin Faults
             PROVE  /\ Len(timestamps') = Len(coded') + Len(submitted')
                    /\ \A i \in 1 .. Len(coded') :
                         timestamps'[i] = coded'[i].frame.ts
                    /\ \A i \in 1 .. Len(submitted') :
                         timestamps'[Len(coded') + i] = submitted'[i].frame.ts
  BY DEF InStep
<1>0. /\ timestamps \in Seq(1 .. MaxTs) /\ given \in Seq(Frame)
      /\ coded \in Seq(Input) /\ submitted \in Seq(Input)
      /\ Len(coded) \in Nat /\ Len(submitted) \in Nat /\ Len(timestamps) \in Nat
  BY LenProperties DEF TypeInv, TypeOK
<1>1. /\ Len(timestamps) = Len(coded) + Len(submitted)
      /\ \A i \in 1 .. Len(coded) : timestamps[i] = coded[i].frame.ts
      /\ \A i \in 1 .. Len(submitted) :
           timestamps[Len(coded) + i] = submitted[i].frame.ts
  BY DEF InStep
<1>2. CASE OnEncoderFrame
  <2> DEFINE f == Head(given)
             e == [frame |-> f, key |-> frameCount > KeyFrameRatio]
  <2>1. f \in Frame
    BY <1>0, <1>2, TailFacts DEF OnEncoderFrame
  <2>2. (frameCount > KeyFrameRatio) \in BOOLEAN
    OBVIOUS
  <2>3. e \in Input
    BY <2>1, <2>2, Zenon DEF Input
  <2>4. f.ts \in 1 .. MaxTs
    BY <2>1 DEF Frame
  <2>5. /\ timestamps' = Append(timestamps, f.ts)
        /\ submitted' = Append(submitted, e) /\ coded' = coded
    BY <1>2 DEF OnEncoderFrame, EncodeFrame
  <2>6. e.frame = f
    OBVIOUS
  <2> HIDE DEF e, f
  <2>7. /\ Len(timestamps') = Len(timestamps) + 1
        /\ \A i \in 1 .. Len(timestamps) : timestamps'[i] = timestamps[i]
        /\ timestamps'[Len(timestamps) + 1] = f.ts
    BY <1>0, <2>4, <2>5, AppendFacts
  <2>8. /\ Len(submitted') = Len(submitted) + 1
        /\ \A i \in 1 .. Len(submitted) : submitted'[i] = submitted[i]
        /\ submitted'[Len(submitted) + 1] = e
    BY <1>0, <2>3, <2>5, AppendFacts
  <2>9. \A i \in 1 .. Len(coded') : timestamps'[i] = coded'[i].frame.ts
    BY <1>0, <1>1, <2>5, <2>7
  <2>10. ASSUME NEW i \in 1 .. Len(submitted')
         PROVE  timestamps'[Len(coded') + i] = submitted'[i].frame.ts
    <3>1. CASE i = Len(submitted) + 1
      BY <3>1, <1>0, <1>1, <2>5, <2>6, <2>7, <2>8
    <3>2. CASE i \in 1 .. Len(submitted)
      <4>1. Len(coded) + i \in 1 .. Len(timestamps)
        BY <3>2, <1>0, <1>1
      <4> QED
        BY <4>1, <3>2, <1>1, <2>5, <2>7, <2>8
    <3> QED
      BY <3>1, <3>2, <1>0, <2>8
  <2>11. Len(timestamps') = Len(coded') + Len(submitted')
    BY <2>5, <2>7, <2>8, <1>0, <1>1
  <2> QED
    BY <2>9, <2>10, <2>11
<1>3. CASE Code
  <2>1. /\ submitted # <<>> /\ submitted' = Tail(submitted)
        /\ coded' = Append(coded, Head(submitted)) /\ timestamps' = timestamps
    BY <1>3 DEF Code, fieldVars
  <2>2. /\ Len(submitted') = Len(submitted) - 1 /\ Len(submitted) > 0
        /\ Head(submitted) = submitted[1] /\ Head(submitted) \in Input
        /\ \A i \in 1 .. Len(submitted) - 1 : submitted'[i] = submitted[i + 1]
    BY <1>0, <2>1, TailFacts
  <2>3. /\ Len(coded') = Len(coded) + 1
        /\ \A i \in 1 .. Len(coded) : coded'[i] = coded[i]
        /\ coded'[Len(coded) + 1] = submitted[1]
    BY <1>0, <2>1, <2>2, AppendFacts
  <2>4. ASSUME NEW i \in 1 .. Len(coded')
        PROVE  timestamps'[i] = coded'[i].frame.ts
    <3>1. CASE i = Len(coded) + 1
      <4>1. timestamps[Len(coded) + 1] = submitted[1].frame.ts
        BY <1>0, <1>1, <2>2
      <4> QED
        BY <4>1, <3>1, <2>1, <2>3
    <3>2. CASE i \in 1 .. Len(coded)
      BY <3>2, <1>1, <2>1, <2>3
    <3> QED
      BY <3>1, <3>2, <1>0, <2>3
  <2>5. ASSUME NEW i \in 1 .. Len(submitted')
        PROVE  timestamps'[Len(coded') + i] = submitted'[i].frame.ts
    <3>1. i + 1 \in 1 .. Len(submitted) /\ i \in 1 .. Len(submitted) - 1
      BY <1>0, <2>2
    <3>2. timestamps[Len(coded) + (i + 1)] = submitted[i + 1].frame.ts
      BY <3>1, <1>1
    <3>3. Len(coded) + (i + 1) = Len(coded') + i
      BY <3>1, <1>0, <2>3
    <3> QED
      BY <3>1, <3>2, <3>3, <2>1, <2>2
  <2> QED
    BY <2>1, <2>2, <2>3, <2>4, <2>5, <1>0, <1>1
<1>4. CASE OnGetBitstreamBuffer
  <2>1. /\ coded' = Tail(coded) /\ timestamps' = Tail(timestamps)
        /\ submitted' = submitted /\ coded # <<>>
    BY <1>4 DEF OnGetBitstreamBuffer, BitstreamUnchanged, TypeInv, LabelQueued
  <2>2. Len(coded) > 0 /\ timestamps # <<>>
    BY <1>0, <1>1, <2>1, EmptySeq
  <2>3. /\ Len(coded') = Len(coded) - 1
        /\ \A i \in 1 .. Len(coded) - 1 : coded'[i] = coded[i + 1]
    BY <1>0, <2>1, TailFacts
  <2>4. /\ Len(timestamps') = Len(timestamps) - 1
        /\ \A i \in 1 .. Len(timestamps) - 1 : timestamps'[i] = timestamps[i + 1]
    BY <1>0, <2>1, <2>2, TailFacts
  <2>5. ASSUME NEW i \in 1 .. Len(coded')
        PROVE  timestamps'[i] = coded'[i].frame.ts
    <3>1. i \in 1 .. Len(coded) - 1 /\ i + 1 \in 1 .. Len(coded)
            /\ i \in 1 .. Len(timestamps) - 1
      BY <1>0, <1>1, <2>3
    <3> QED
      BY <3>1, <1>1, <2>3, <2>4
  <2>6. ASSUME NEW i \in 1 .. Len(submitted')
        PROVE  timestamps'[Len(coded') + i] = submitted'[i].frame.ts
    <3>1. /\ i \in 1 .. Len(submitted)
          /\ Len(coded') + i \in 1 .. Len(timestamps) - 1
          /\ (Len(coded') + i) + 1 = Len(coded) + i
      BY <1>0, <1>1, <2>1, <2>2, <2>3
    <3>2. timestamps'[Len(coded') + i] = timestamps[(Len(coded') + i) + 1]
      BY <3>1, <2>4
    <3> QED
      BY <3>1, <3>2, <1>1, <2>1
  <2> QED
    BY <2>1, <2>3, <2>4, <2>5, <2>6, <1>0, <1>1
<1>5. CASE Encode
  <2>1. coded' = <<>> /\ submitted' = <<>> /\ timestamps' = <<>>
    BY <1>5 DEF Encode, browserVars, TypeInv, Idle
  <2> QED
    BY <2>1, EmptySeq
<1>6. CASE CodeFailed
  BY <1>6 DEF CodeFailed
<1> QED
  BY <1>1, <1>2, <1>3, <1>4, <1>5, <1>6, QueuesKept

(* While no Encode fails, the queue of labels holds the timestamps of the  *)
(* frames being encoded, in order: every block is saved under its own.     *)
THEOREM LabelsKeepStep == Spec => []LabelsInStep
<1>1. Init => TypeInv /\ InStep
  <2>1. ASSUME Init PROVE InStep
    BY <2>1, EmptySeq DEF Init, InStep
  <2> QED
    BY <2>1, InitType
<1>2. TypeInv /\ InStep /\ [Next]_vars => (TypeInv /\ InStep)'
  BY NextTypeInv, InStepNext
<1>3. TypeInv /\ InStep => LabelsInStep
  BY InStepLabels
<1> QED
  BY <1>1, <1>2, <1>3, PTL DEF Spec

-----------------------------------------------------------------------------
(***************************************************************************)
(* The order of the frames on their way from the tracks to the file, and   *)
(* with it the two refinements of VideoEncoder: the file it promises       *)
(* (Recording) and the contract VideoTrack asks of it (TrackClient).       *)
(*                                                                         *)
(* A track's frames are older the further they are: the last block, then   *)
(* the frames coded, those submitted, those with an input frame, the one   *)
(* that waits for one, the track's current frame, the one arriving, and    *)
(* the clock.  Each handler moves a frame from the head of one stage to    *)
(* the tail of the next, or takes one out; frames refused are beside the   *)
(* pipeline and come back to their track.                                  *)
(***************************************************************************)

(* Frames of one track are ordered by their timestamps.                    *)
Older(f, g) == f.track = g.track => f.ts < g.ts
Before(P, Q) == \A f \in P, g \in Q : Older(f, g)
Sorted(q) == \A i, j \in 1 .. Len(q) : i < j => Older(q[i], q[j])

Elems(q) == {q[i] : i \in 1 .. Len(q)}
FramesOf(q) == [i \in 1 .. Len(q) |-> q[i].frame]

(* The stages, from the file back to the track in use.                     *)
Saved == IF recorded = NoBlock THEN {} ELSE {recorded.frame}
Coded == Elems(FramesOf(coded))
Submitted == Elems(FramesOf(submitted))
Given == Elems(given)
Waiting == {waiting} \ {NoFrame}

Piped == Saved \cup Coded \cup Submitted \cup Given \cup Waiting
Gone == Piped \cup refused

InOrder ==
  /\ Sorted(FramesOf(coded)) /\ Sorted(FramesOf(submitted)) /\ Sorted(given)
  /\ Before(Saved, Coded \cup Submitted \cup Given \cup Waiting)
  /\ Before(Coded, Submitted \cup Given \cup Waiting)
  /\ Before(Submitted, Given \cup Waiting)
  /\ Before(Given, Waiting)

(* A frame track t holds or receives is younger than all that has gone.    *)
Later(t, f) ==
  f # NoFrame => f.track = t /\ f.ts <= clock[t] /\ Before(Gone, {f})

HeldLast ==
  /\ \A t \in Tracks : Later(t, current[t]) /\ Later(t, arrival[t])
  /\ \A t \in Tracks : current[t] # NoFrame /\ arrival[t] # NoFrame
                         => current[t].ts < arrival[t].ts
  /\ \A f \in Gone : f.ts <= clock[f.track]

(* A frame refused is not in the pipeline as well.                         *)
Apart == refused \cap (Given \cup Waiting) = {}

OrderInv == TypeInv /\ InOrder /\ HeldLast /\ Apart

-----------------------------------------------------------------------------
(* Queues. *)

(* The frames of a queue of inputs move as the inputs do.                  *)
LEMMA FramesType ==
  ASSUME NEW q \in Seq(Input)
  PROVE  /\ FramesOf(q) \in Seq(Frame) /\ Len(FramesOf(q)) = Len(q)
         /\ q # <<>> => FramesOf(q) # <<>> /\ Head(FramesOf(q)) = Head(q).frame
<1>1. ASSUME NEW i \in 1 .. Len(q) PROVE q[i].frame \in Frame
  <2>1. q[i] \in Input
    BY ElementOfSeq
  <2> QED
    BY <2>1 DEF Input
<1>2. FramesOf(q) \in Seq(Frame) /\ Len(FramesOf(q)) = Len(q)
  BY <1>1, LenProperties DEF FramesOf
<1>3. ASSUME q # <<>>
      PROVE  FramesOf(q) # <<>> /\ Head(FramesOf(q)) = Head(q).frame
  <2>1. Len(q) \in Nat /\ Len(q) > 0 /\ Head(q) = q[1]
    BY <1>3, TailFacts
  <2>2. FramesOf(q) # <<>>
    BY <2>1, <1>2, EmptySeq
  <2>3. Head(FramesOf(q)) = FramesOf(q)[1]
    BY <2>2, <1>2, TailFacts
  <2> QED
    BY <2>1, <2>2, <2>3 DEF FramesOf
<1> QED
  BY <1>2, <1>3

(* The frames of a queue without its head.                                  *)
LEMMA FramesTail ==
  ASSUME NEW q \in Seq(Input), q # <<>>
  PROVE  FramesOf(Tail(q)) = Tail(FramesOf(q))
<1>1. /\ Tail(q) \in Seq(Input) /\ Len(q) \in Nat /\ Len(q) > 0
      /\ Len(Tail(q)) = Len(q) - 1
      /\ \A i \in 1 .. Len(q) - 1 : Tail(q)[i] = q[i + 1]
  BY TailFacts
<1>2. /\ FramesOf(q) \in Seq(Frame) /\ FramesOf(q) # <<>>
      /\ Len(FramesOf(q)) = Len(q)
  BY FramesType
<1>3. /\ Tail(FramesOf(q)) \in Seq(Frame)
      /\ Len(Tail(FramesOf(q))) = Len(q) - 1
      /\ \A i \in 1 .. Len(q) - 1 : Tail(FramesOf(q))[i] = FramesOf(q)[i + 1]
  BY <1>2, TailFacts
<1>4. FramesOf(Tail(q)) \in Seq(Frame) /\ Len(FramesOf(Tail(q))) = Len(q) - 1
  BY <1>1, FramesType
<1>5. ASSUME NEW i \in 1 .. Len(q) - 1
      PROVE  FramesOf(Tail(q))[i] = Tail(FramesOf(q))[i]
  <2>1. i \in 1 .. Len(Tail(q)) /\ i + 1 \in 1 .. Len(q)
    BY <1>1
  <2>2. FramesOf(Tail(q))[i] = Tail(q)[i].frame
    BY <2>1 DEF FramesOf
  <2>3. FramesOf(q)[i + 1] = q[i + 1].frame
    BY <2>1 DEF FramesOf
  <2> QED
    BY <2>2, <2>3, <1>1, <1>3
<1> QED
  BY <1>3, <1>4, <1>5, SeqEqual

(* The frames of a queue with one input more.                               *)
LEMMA FramesAppend ==
  ASSUME NEW q \in Seq(Input), NEW e \in Input
  PROVE  FramesOf(Append(q, e)) = Append(FramesOf(q), e.frame)
<1>1. /\ Append(q, e) \in Seq(Input) /\ Len(q) \in Nat
      /\ Len(Append(q, e)) = Len(q) + 1
      /\ \A i \in 1 .. Len(q) : Append(q, e)[i] = q[i]
      /\ Append(q, e)[Len(q) + 1] = e
  BY AppendFacts
<1>2. FramesOf(q) \in Seq(Frame) /\ Len(FramesOf(q)) = Len(q) /\ e.frame \in Frame
  BY FramesType DEF Input
<1>3. /\ Append(FramesOf(q), e.frame) \in Seq(Frame)
      /\ Len(Append(FramesOf(q), e.frame)) = Len(q) + 1
      /\ \A i \in 1 .. Len(q) : Append(FramesOf(q), e.frame)[i] = FramesOf(q)[i]
      /\ Append(FramesOf(q), e.frame)[Len(q) + 1] = e.frame
  BY <1>2, AppendFacts
<1>4. /\ FramesOf(Append(q, e)) \in Seq(Frame)
      /\ Len(FramesOf(Append(q, e))) = Len(q) + 1
  BY <1>1, FramesType
<1>5. ASSUME NEW i \in 1 .. Len(q) + 1
      PROVE  FramesOf(Append(q, e))[i] = Append(FramesOf(q), e.frame)[i]
  <2>1. FramesOf(Append(q, e))[i] = Append(q, e)[i].frame
    BY <1>1 DEF FramesOf
  <2>2. CASE i = Len(q) + 1
    BY <2>1, <2>2, <1>1, <1>3
  <2>3. CASE i \in 1 .. Len(q)
    <3>1. FramesOf(q)[i] = q[i].frame
      BY <2>3 DEF FramesOf
    <3> QED
      BY <2>1, <2>3, <3>1, <1>1, <1>3
  <2>4. i = Len(q) + 1 \/ i \in 1 .. Len(q)
    BY <1>1
  <2> QED
    BY <2>2, <2>3, <2>4
<1> QED
  BY <1>3, <1>4, <1>5, SeqEqual

(* Taking the head of a sorted queue: it is older than what stays.         *)
LEMMA TakeHead ==
  ASSUME NEW q \in Seq(Frame), q # <<>>, Sorted(q)
  PROVE  /\ Sorted(Tail(q)) /\ Head(q) \in Frame
         /\ Elems(q) = {Head(q)} \cup Elems(Tail(q))
         /\ Before({Head(q)}, Elems(Tail(q)))
<1>1. /\ Tail(q) \in Seq(Frame) /\ Head(q) \in Frame /\ Head(q) = q[1]
      /\ Len(q) \in Nat /\ Len(q) > 0 /\ Len(Tail(q)) = Len(q) - 1
      /\ \A i \in 1 .. Len(q) - 1 : Tail(q)[i] = q[i + 1]
  BY TailFacts
<1>2. Sorted(Tail(q))
  <2> SUFFICES ASSUME NEW i \in 1 .. Len(q) - 1, NEW j \in 1 .. Len(q) - 1, i < j
               PROVE  Older(q[i + 1], q[j + 1])
    BY <1>1 DEF Sorted
  <2>1. i + 1 \in 1 .. Len(q) /\ j + 1 \in 1 .. Len(q) /\ i + 1 < j + 1
    BY <1>1
  <2> QED
    BY <2>1 DEF Sorted
<1>3. Elems(q) = {Head(q)} \cup Elems(Tail(q))
  <2>1. ASSUME NEW i \in 1 .. Len(q)
        PROVE  q[i] \in {Head(q)} \cup Elems(Tail(q))
    <3>1. CASE i = 1
      BY <3>1, <1>1
    <3>2. CASE i # 1
      <4>1. i - 1 \in 1 .. Len(Tail(q)) /\ Tail(q)[i - 1] = q[(i - 1) + 1]
        BY <3>2, <1>1
      <4>2. (i - 1) + 1 = i
        BY <1>1
      <4> QED
        BY <4>1, <4>2 DEF Elems
    <3> QED
      BY <3>1, <3>2
  <2>2. ASSUME NEW i \in 1 .. Len(Tail(q))
        PROVE  Tail(q)[i] \in Elems(q)
    <3>1. i + 1 \in 1 .. Len(q) /\ Tail(q)[i] = q[i + 1]
      BY <1>1
    <3> QED
      BY <3>1 DEF Elems
  <2>3. Head(q) \in Elems(q)
    BY <1>1 DEF Elems
  <2> QED
    BY <2>1, <2>2, <2>3 DEF Elems
<1>4. Before({Head(q)}, Elems(Tail(q)))
  <2> SUFFICES ASSUME NEW i \in 1 .. Len(Tail(q))
               PROVE  Older(Head(q), Tail(q)[i])
    BY DEF Before, Elems
  <2>1. i + 1 \in 1 .. Len(q) /\ 1 \in 1 .. Len(q) /\ 1 < i + 1
          /\ Tail(q)[i] = q[i + 1]
    BY <1>1
  <2> QED
    BY <2>1, <1>1 DEF Sorted
<1> QED
  BY <1>1, <1>2, <1>3, <1>4

(* Adding a frame younger than those of a sorted queue.                    *)
LEMMA AddLast ==
  ASSUME NEW q \in Seq(Frame), NEW f \in Frame
  PROVE  /\ Elems(Append(q, f)) = Elems(q) \cup {f}
         /\ Sorted(q) /\ Before(Elems(q), {f}) => Sorted(Append(q, f))
<1>1. /\ Len(q) \in Nat /\ Len(Append(q, f)) = Len(q) + 1
      /\ \A i \in 1 .. Len(q) : Append(q, f)[i] = q[i]
      /\ Append(q, f)[Len(q) + 1] = f
  BY AppendFacts
<1>2. \A i \in 1 .. Len(q) + 1 : i = Len(q) + 1 \/ i \in 1 .. Len(q)
  BY <1>1
<1>3. Len(q) + 1 \in 1 .. Len(q) + 1
        /\ \A i \in 1 .. Len(q) : i \in 1 .. Len(q) + 1
  BY <1>1
<1>4. Elems(Append(q, f)) = Elems(q) \cup {f}
  BY <1>1, <1>2, <1>3 DEF Elems
<1>5. ASSUME Sorted(q), Before(Elems(q), {f}) PROVE Sorted(Append(q, f))
  <2> SUFFICES ASSUME NEW i \in 1 .. Len(q) + 1, NEW j \in 1 .. Len(q) + 1, i < j
               PROVE  Older(Append(q, f)[i], Append(q, f)[j])
    BY <1>1 DEF Sorted
  <2>1. i \in 1 .. Len(q)
    BY <1>1
  <2>2. CASE j = Len(q) + 1
    BY <1>1, <1>5, <2>1, <2>2 DEF Before, Elems
  <2>3. CASE j \in 1 .. Len(q)
    BY <1>1, <1>5, <2>1, <2>3 DEF Sorted
  <2> QED
    BY <2>2, <2>3, <1>2
<1> QED
  BY <1>4, <1>5
(* The same for a queue of inputs.                                         *)
LEMMA TakeInput ==
  ASSUME NEW q \in Seq(Input), q # <<>>, Sorted(FramesOf(q))
  PROVE  /\ Sorted(FramesOf(Tail(q)))
         /\ Head(q) \in Input /\ Head(q).frame \in Frame
         /\ Elems(FramesOf(q)) = {Head(q).frame} \cup Elems(FramesOf(Tail(q)))
         /\ Before({Head(q).frame}, Elems(FramesOf(Tail(q))))
<1>1. /\ FramesOf(q) \in Seq(Frame) /\ FramesOf(q) # <<>>
      /\ Head(FramesOf(q)) = Head(q).frame
  BY FramesType
<1>2. FramesOf(Tail(q)) = Tail(FramesOf(q))
  BY FramesTail
<1>3. Head(q) \in Input
  BY TailFacts
<1> QED
  BY <1>1, <1>2, <1>3, TakeHead

(* A frame that got its input frame goes behind those that have one.        *)
LEMMA AddInput ==
  ASSUME NEW q \in Seq(Input), NEW e \in Input
  PROVE  /\ Elems(FramesOf(Append(q, e))) = Elems(FramesOf(q)) \cup {e.frame}
         /\ Sorted(FramesOf(q)) /\ Before(Elems(FramesOf(q)), {e.frame})
              => Sorted(FramesOf(Append(q, e)))
<1>1. FramesOf(q) \in Seq(Frame) /\ e.frame \in Frame
  BY FramesType DEF Input
<1>2. FramesOf(Append(q, e)) = Append(FramesOf(q), e.frame)
  BY FramesAppend
<1> QED
  BY <1>1, <1>2, AddLast

(* An empty queue.                                                         *)
LEMMA NoFrames ==
  /\ Elems(FramesOf(<<>>)) = {} /\ Sorted(FramesOf(<<>>))
  /\ Elems(<<>>) = {} /\ Sorted(<<>>)
<1>1. Len(<<>>) = 0 /\ FramesOf(<<>>) = <<>>
  BY EmptySeq DEF FramesOf
<1> QED
  BY <1>1 DEF Elems, Sorted

(* The stages hold frames.                                                 *)
LEMMA StagesAreFrames ==
  ASSUME TypeOK
  PROVE  /\ Coded \subseteq Frame /\ Submitted \subseteq Frame
         /\ Given \subseteq Frame /\ Waiting \subseteq Frame
         /\ refused \subseteq Frame /\ Saved \subseteq Frame
         /\ Gone \subseteq Frame
<1>1. \A q \in Seq(Frame) : Elems(q) \subseteq Frame
  BY ElementOfSeq DEF Elems
<1>2. Coded \subseteq Frame /\ Submitted \subseteq Frame /\ Given \subseteq Frame
  BY <1>1, FramesType DEF TypeOK, Coded, Submitted, Given
<1>3. Waiting \subseteq Frame /\ refused \subseteq Frame
  BY DEF TypeOK, Waiting
<1>4. Saved \subseteq Frame
  BY DEF TypeOK, Saved, Block
<1> QED
  BY <1>2, <1>3, <1>4 DEF Gone, Piped

-----------------------------------------------------------------------------
(* Steps. *)

(* The order holds before anything is recorded.                             *)
LEMMA InitOrder == ASSUME Init PROVE OrderInv
<1>1. TypeInv
  BY InitType
<1>2. /\ Coded = {} /\ Submitted = {} /\ Given = {} /\ Waiting = {}
      /\ Saved = {} /\ refused = {}
  BY NoFrames DEF Init, Coded, Submitted, Given, Waiting, Saved
<1>3. InOrder
  BY <1>2, NoFrames DEF Init, InOrder, Before
<1>4. HeldLast /\ Apart
  BY <1>2 DEF Init, TrackInit, HeldLast, Later, Gone, Piped, Apart
<1> QED
  BY <1>1, <1>3, <1>4 DEF OrderInv

(* What the pipeline is made of, and what it is compared with.             *)
pipeVars == <<coded, submitted, given, waiting, refused, recorded>>
heldVars == <<current, arrival, clock>>

(* The order is about these variables only.                                 *)
LEMMA StagesKept ==
  ASSUME UNCHANGED pipeVars
  PROVE  /\ UNCHANGED <<Saved, Coded, Submitted, Given, Waiting, Gone>>
         /\ InOrder => InOrder'
         /\ Apart => Apart'
BY DEF pipeVars, Saved, Coded, Submitted, Given, Waiting, Gone, Piped,
       InOrder, Apart

(* Frames that leave a stage, or the pipeline, disturb nothing.            *)
LEMMA HeldKept ==
  ASSUME HeldLast, UNCHANGED heldVars, Gone' \subseteq Gone
  PROVE  HeldLast'
BY DEF HeldLast, heldVars, Later, Before

(* Commands, the stop sequence and the callbacks that touch no frame.      *)
LEMMA QuietKept ==
  ASSUME [Next]_vars,
         ~\E t \in Tracks : StopTrack(t) \/ TrackStep(t),
         ~GetEncoderFrameTick, ~OnEncoderFrame, ~OnEncoderFrameNotCopied,
         ~\E f \in refused : OnEncoderFrameRefused(f), ~OnEncoderFrameAborted,
         ~OnGetBitstreamBuffer, ~GiveInput, ~Code, ~CodeFailed
  PROVE  UNCHANGED <<pipeVars, heldVars>>
<1> USE DEF vars, trackVars, fieldVars, requestVars, browserVars, auxVars,
            pipeVars, heldVars
<1>1. CASE UNCHANGED vars
  BY <1>1
<1>2. CASE Next
  <2>1. CASE \E t \in Tracks : AddTrack(t) \/ SetTrack(t)
    BY <2>1 DEF AddTrack, SetTrack
  <2>2. CASE Encode
    BY <2>2 DEF Encode, StartTracking
  <2>3. CASE StopEncode \/ CloseEncoder \/ ClearTracks \/ ClearEncoding
               \/ FinishMuxer \/ DeleteEncoder
    BY <2>3 DEF StopEncode, CloseEncoder, ClearTracks, ClearEncoding,
                FinishMuxer, DeleteEncoder
  <2>4. CASE OnInitializedEncoder \/ InitializeFailed \/ LastTick
    BY <2>4 DEF OnInitializedEncoder, InitializeFailed, LastTick
  <2>5. CASE OnEncodeDone \/ BitstreamLoopEnds \/ BitsReady
    BY <2>5 DEF OnEncodeDone, BitstreamLoopEnds, BitsReady
  <2> QED
    BY <1>2, <2>1, <2>2, <2>3, <2>4, <2>5, NextCases
<1> QED
  BY <1>1, <1>2

(* The tracks: a frame captured is younger than all before it, and the one *)
(* that arrives replaces an older one.                                     *)
LEMMA TrackOrder ==
  ASSUME OrderInv, NEW t \in Tracks, TrackStep(t)
  PROVE  InOrder' /\ HeldLast' /\ Apart'
<1>0. /\ current \in [Tracks -> Frame \cup {NoFrame}]
      /\ arrival \in [Tracks -> Frame \cup {NoFrame}]
      /\ clock \in [Tracks -> 0 .. MaxTs]
      /\ MaxTs \in Nat /\ NoFrame \notin Frame
  BY TrackAssumption DEF OrderInv, TypeInv, TypeOK, TrackTypeOK
<1>1. UNCHANGED pipeVars
  BY DEF TrackStep, pipeVars, requestVars, browserVars, auxVars
<1>2. InOrder' /\ Apart' /\ Gone' = Gone
  BY <1>1, StagesKept DEF OrderInv
<1>3. Gone \subseteq Frame
  BY StagesAreFrames DEF OrderInv, TypeInv
<1>4. ASSUME Capture(t) PROVE HeldLast'
  <2>1. PICK n \in clock[t] + 1 .. MaxTs :
          /\ clock' = [clock EXCEPT ![t] = n]
          /\ arrival' = [arrival EXCEPT ![t] = [track |-> t, ts |-> n]]
    BY <1>4 DEF Capture
  <2>2. arrival[t] = NoFrame /\ UNCHANGED current
    BY <1>4 DEF Capture
  <2>3. n \in 1 .. MaxTs /\ clock[t] < n
    BY <1>0, <2>1
  <2>4. \A s \in Tracks : /\ clock'[s] \in Nat /\ clock[s] \in Nat
                          /\ clock[s] <= clock'[s]
                          /\ s # t => arrival'[s] = arrival[s]
    BY <1>0, <2>1, <2>3
  <2>5. clock'[t] = n /\ arrival'[t] = [track |-> t, ts |-> n]
    BY <1>0, <2>1
  <2>6. \A f \in Frame : f.ts \in Nat /\ f.track \in Tracks
    BY <1>0 DEF Frame
  <2>7. \A f \in Gone : f.ts <= clock'[f.track]
    BY <1>3, <2>4, <2>6 DEF OrderInv, HeldLast
  <2>. DEFINE Stays(s, f) == f # NoFrame => /\ f.track = s
                                            /\ f.ts <= clock'[s]
                                            /\ Before(Gone, {f})
  <2>a. ASSUME NEW s \in Tracks, NEW f \in Frame \cup {NoFrame}, Later(s, f)
        PROVE  Stays(s, f)
    <3> SUFFICES ASSUME f # NoFrame PROVE f.ts <= clock'[s]
      BY <2>a DEF Later
    <3>1. f.ts \in Nat /\ f.ts <= clock[s]
      BY <2>a, <2>6 DEF Later
    <3> QED
      BY <3>1, <2>4
  <2>8. \A s \in Tracks : Later(s, current[s])'
    <3> SUFFICES ASSUME NEW s \in Tracks PROVE Later(s, current[s])'
      OBVIOUS
    <3>1. Stays(s, current[s])
      BY <2>a, <1>0 DEF OrderInv, HeldLast
    <3> QED
      BY <3>1, <1>2, <2>2 DEF Later
  <2>9. Before(Gone, {[track |-> t, ts |-> n]})
    <3> SUFFICES ASSUME NEW f \in Gone, f.track = t PROVE f.ts < n
      BY DEF Before, Older
    <3>1. f.ts <= clock[t] /\ f.ts \in Nat
      BY <1>3, <2>6 DEF OrderInv, HeldLast
    <3> QED
      BY <3>1, <2>3, <2>4
  <2>10. \A s \in Tracks : Later(s, arrival[s])'
    <3> SUFFICES ASSUME NEW s \in Tracks PROVE Later(s, arrival[s])'
      OBVIOUS
    <3>1. CASE s = t
      BY <3>1, <1>2, <2>3, <2>5, <2>9 DEF Later
    <3>2. CASE s # t
      <4>1. Stays(s, arrival[s])
        BY <2>a, <1>0 DEF OrderInv, HeldLast
      <4> QED
        BY <4>1, <3>2, <1>2, <2>4 DEF Later
    <3> QED
      BY <3>1, <3>2
  <2>11. ASSUME NEW s \in Tracks, current'[s] # NoFrame, arrival'[s] # NoFrame
         PROVE  current'[s].ts < arrival'[s].ts
    <3>1. CASE s = t
      <4>1. current[t] \in Frame /\ current[t].ts <= clock[t]
        BY <3>1, <2>11, <2>2, <1>0 DEF OrderInv, HeldLast, Later
      <4> QED
        BY <4>1, <3>1, <2>2, <2>3, <2>4, <2>5, <2>6
    <3>2. CASE s # t
      BY <3>2, <2>11, <2>2, <2>4 DEF OrderInv, HeldLast
    <3> QED
      BY <3>1, <3>2
  <2> QED
    BY <1>2, <2>7, <2>8, <2>10, <2>11 DEF HeldLast
<1>5. ASSUME TrackCallback(t) PROVE HeldLast'
  <2>1. UNCHANGED clock
    BY <1>5 DEF TrackCallback, ConfigureDone, ConfigureFailed, TrackFramesLoop,
                TrackFramesAborted, TrackFramesFailed
  <2>2. /\ \A s \in Tracks : arrival'[s] \in {arrival[s], NoFrame}
        /\ \A s \in Tracks : \/ current'[s] \in {current[s], NoFrame}
                             \/ current'[s] = arrival[s] /\ arrival'[s] = NoFrame
    BY <1>0, <1>5 DEF TrackCallback, ConfigureDone, ConfigureFailed,
       TrackFramesLoop, TrackFramesAborted, TrackFramesFailed
  <2>3. \A s \in Tracks : Later(s, current[s])' /\ Later(s, arrival[s])'
    BY <1>2, <2>1, <2>2 DEF OrderInv, HeldLast, Later
  <2>4. \A s \in Tracks : current'[s] # NoFrame /\ arrival'[s] # NoFrame
                            => current'[s].ts < arrival'[s].ts
    BY <2>2 DEF OrderInv, HeldLast
  <2> QED
    BY <1>2, <2>1, <2>3, <2>4 DEF OrderInv, HeldLast
<1> QED
  BY <1>2, <1>4, <1>5 DEF TrackStep

(* StopTracking gives the track's current frame back.                      *)
LEMMA StopOrder ==
  ASSUME OrderInv, NEW t \in Tracks, StopTrack(t)
  PROVE  InOrder' /\ HeldLast' /\ Apart'
<1> USE DEF StopTracking, ClearTracking, RecycleCurrent, CloseTrack
<1>1. UNCHANGED <<pipeVars, clock, arrival>>
  BY DEF StopTrack, pipeVars, requestVars, browserVars, auxVars
<1>2. InOrder' /\ Apart' /\ Gone' = Gone
  BY <1>1, StagesKept DEF OrderInv, pipeVars
<1>3. \A s \in Tracks : current'[s] \in {current[s], NoFrame}
  BY DEF StopTrack, OrderInv, TypeInv, TypeOK, TrackTypeOK
<1>4. HeldLast'
  BY <1>1, <1>2, <1>3 DEF OrderInv, HeldLast, Later
<1> QED
  BY <1>2, <1>4

(* A tick takes the frame the track in use holds: into the pipeline if the *)
(* request can be made, else beside it.                                    *)
LEMMA TickOrder ==
  ASSUME OrderInv, GetEncoderFrameTick
  PROVE  InOrder' /\ HeldLast' /\ Apart'
<1>1. /\ UNCHANGED <<coded, submitted, given, recorded>>
      /\ UNCHANGED <<Saved, Coded, Submitted, Given>>
  BY DEF GetEncoderFrameTick, browserVars, auxVars, Saved, Coded, Submitted, Given
<1>2. CASE ~(receiving /\ NextTrack # NoTrack /\ current[NextTrack] # NoFrame)
  <2>1. UNCHANGED pipeVars /\ UNCHANGED heldVars
    BY <1>1, <1>2 DEF GetEncoderFrameTick, trackVars, pipeVars, heldVars
  <2> QED
    BY <2>1, StagesKept, HeldKept DEF OrderInv
<1>3. CASE receiving /\ NextTrack # NoTrack /\ current[NextTrack] # NoFrame
  <2> DEFINE t == NextTrack
             f == current[t]
  <2>1. t \in Tracks
    BY <1>3 DEF NextTrack, OrderInv, TypeInv, TypeOK
  <2>2. f \in Frame /\ f # NoFrame /\ f.track = t /\ f.ts <= clock[t]
          /\ Before(Gone, {f})
    BY <1>3, <2>1 DEF OrderInv, TypeInv, TypeOK, TrackTypeOK, HeldLast, Later
  <2>3. /\ current' = [current EXCEPT ![t] = NoFrame]
        /\ UNCHANGED <<arrival, clock>>
    BY <1>3 DEF GetEncoderFrameTick, TakeFrame
  <2>4. \/ Waiting = {} /\ Waiting' = {f} /\ refused' = refused
        \/ Waiting' = Waiting /\ refused' = refused \cup {f}
    BY <1>3, <2>2 DEF GetEncoderFrameTick, GetEncoderFrame, Waiting
  <2> HIDE DEF f
  <2>5. InOrder'
    BY <1>1, <2>2, <2>4 DEF OrderInv, InOrder, Before, Gone, Piped
  <2>6. f \notin Gone
    BY <2>2 DEF Before, Older, OrderInv, TypeInv, TypeOK, Frame
  <2>7. Apart'
    BY <1>1, <2>4, <2>6 DEF OrderInv, Apart, Gone, Piped
  <2>8. Gone' = Gone \cup {f}
    BY <1>1, <2>4 DEF Gone, Piped
  <2>9. ASSUME NEW s \in Tracks, NEW g \in {current[s], arrival[s]},
               g # NoFrame, g = current[s] => s # t
        PROVE  Before({f}, {g})
    <3>1. g.track = s /\ (g = arrival[s] /\ s = t => f.ts < g.ts)
      BY <2>9, <2>2 DEF OrderInv, HeldLast, Later, f
    <3> QED
      BY <3>1, <2>2, <2>9 DEF Before, Older
  <2>10. \A s \in Tracks : Later(s, current[s])'
    <3> SUFFICES ASSUME NEW s \in Tracks, current'[s] # NoFrame
                 PROVE  Later(s, current[s])'
      BY DEF Later
    <3>1. s # t /\ current'[s] = current[s]
      BY <2>1, <2>3 DEF OrderInv, TypeInv, TypeOK, TrackTypeOK
    <3>2. Before({f}, {current[s]})
      BY <3>1, <2>9
    <3>3. Later(s, current[s])
      BY DEF OrderInv, HeldLast
    <3> QED
      BY <3>1, <3>2, <3>3, <2>3, <2>8 DEF Later, Before
  <2>11. \A s \in Tracks : Later(s, arrival[s])'
    <3> SUFFICES ASSUME NEW s \in Tracks, arrival[s] # NoFrame
                 PROVE  Later(s, arrival[s])'
      BY <2>3 DEF Later
    <3>1. Before({f}, {arrival[s]})
      <4>1. CASE arrival[s] = current[s] /\ s = t
        <5>1. f.ts < f.ts
          BY <4>1, <2>1, <2>2 DEF OrderInv, HeldLast, f
        <5>2. f.ts \in Nat
          BY <2>2, TrackAssumption DEF Frame
        <5> QED
          BY <5>1, <5>2
      <4>2. CASE ~(arrival[s] = current[s] /\ s = t)
        BY <4>2, <2>9
      <4> QED
        BY <4>1, <4>2
    <3>2. Later(s, arrival[s])
      BY DEF OrderInv, HeldLast
    <3> QED
      BY <3>1, <3>2, <2>3, <2>8 DEF Later, Before
  <2>12. \A s \in Tracks : current'[s] # NoFrame /\ arrival'[s] # NoFrame
                             => current'[s].ts < arrival'[s].ts
    BY <2>1, <2>3 DEF OrderInv, HeldLast, TypeInv, TypeOK, TrackTypeOK
  <2>13. \A g \in Gone' : g.ts <= clock'[g.track]
    BY <2>2, <2>3, <2>8 DEF OrderInv, HeldLast
  <2> QED
    BY <2>5, <2>7, <2>10, <2>11, <2>12, <2>13 DEF HeldLast
<1> QED
  BY <1>2, <1>3

(* From the request to the queue of frames with an input frame.            *)
LEMMA GiveOrder ==
  ASSUME OrderInv, GiveInput
  PROVE  InOrder' /\ HeldLast' /\ Apart'
<1>1. /\ waiting \in Frame /\ waiting # NoFrame /\ given \in Seq(Frame)
      /\ given' = Append(given, waiting) /\ waiting' = NoFrame
      /\ UNCHANGED <<coded, submitted, refused, recorded>> /\ UNCHANGED heldVars
  BY DEF GiveInput, OrderInv, TypeInv, TypeOK, trackVars, auxVars, heldVars
<1>2. /\ Waiting = {waiting} /\ Waiting' = {}
      /\ UNCHANGED <<Saved, Coded, Submitted>>
  BY <1>1 DEF Waiting, Saved, Coded, Submitted
<1>3. /\ Given' = Given \cup {waiting}
      /\ Sorted(given')
  BY <1>1, <1>2, AddLast DEF OrderInv, InOrder, Given
<1>4. InOrder'
  BY <1>1, <1>2, <1>3 DEF OrderInv, InOrder, Before
<1>5. Gone' = Gone
  BY <1>1, <1>2, <1>3 DEF Gone, Piped
<1>6. HeldLast'
  BY <1>1, <1>5, HeldKept DEF OrderInv
<1>7. Apart'
  BY <1>1, <1>2, <1>3 DEF OrderInv, Apart
<1> QED
  BY <1>4, <1>6, <1>7

(* From there to the browser's encoder.                                    *)
LEMMA EncodeOrder ==
  ASSUME OrderInv, OnEncoderFrame
  PROVE  InOrder' /\ HeldLast' /\ Apart'
<1> DEFINE f == Head(given)
           e == [frame |-> f, key |-> frameCount > KeyFrameRatio]
<1>1. /\ given # <<>> /\ given \in Seq(Frame) /\ given' = Tail(given)
      /\ submitted \in Seq(Input) /\ submitted' = Append(submitted, e)
      /\ UNCHANGED <<coded, waiting, refused, recorded>> /\ UNCHANGED heldVars
  BY DEF OnEncoderFrame, EncodeFrame, RecycleFrame, OrderInv, TypeInv, TypeOK,
         heldVars
<1>2. /\ f \in Frame /\ Sorted(given') /\ Given = {f} \cup Given'
      /\ Before({f}, Given')
  BY <1>1, TakeHead DEF OrderInv, InOrder, Given
<1>3. e \in Input /\ e.frame = f
  <2>1. (frameCount > KeyFrameRatio) \in BOOLEAN
    OBVIOUS
  <2> QED
    BY <1>2, <2>1, Zenon DEF Input
<1> HIDE DEF f, e
<1>4. UNCHANGED <<Saved, Coded, Waiting>>
  BY <1>1 DEF Saved, Coded, Waiting
<1>5. /\ Submitted' = Submitted \cup {f}
      /\ Sorted(FramesOf(submitted'))
  <2>1. Before(Submitted, {f})
    BY <1>2 DEF OrderInv, InOrder, Before
  <2> QED
    BY <2>1, <1>1, <1>3, AddInput DEF OrderInv, InOrder, Submitted
<1>6. InOrder'
  BY <1>1, <1>2, <1>4, <1>5 DEF OrderInv, InOrder, Before
<1>7. Gone' = Gone
  BY <1>1, <1>2, <1>4, <1>5 DEF Gone, Piped
<1>8. HeldLast'
  BY <1>1, <1>7, HeldKept DEF OrderInv
<1>9. Apart'
  BY <1>1, <1>2, <1>4 DEF OrderInv, Apart
<1> QED
  BY <1>6, <1>8, <1>9

(* Coding moves the oldest input on; failing to drops it.                  *)
LEMMA CodeOrder ==
  ASSUME OrderInv, Code \/ CodeFailed
  PROVE  InOrder' /\ HeldLast' /\ Apart'
<1> DEFINE e == Head(submitted)
<1>1. /\ submitted # <<>> /\ submitted \in Seq(Input)
      /\ submitted' = Tail(submitted) /\ coded \in Seq(Input)
      /\ coded' = Append(coded, e) \/ coded' = coded
      /\ UNCHANGED <<given, waiting, refused, recorded>> /\ UNCHANGED heldVars
  BY DEF Code, CodeFailed, OrderInv, TypeInv, TypeOK, trackVars, requestVars,
         auxVars, heldVars
<1>2. /\ e \in Input /\ Sorted(FramesOf(submitted'))
      /\ Submitted = {e.frame} \cup Submitted'
      /\ Before({e.frame}, Submitted')
  BY <1>1, TakeInput DEF OrderInv, InOrder, Submitted
<1> HIDE DEF e
<1>3. UNCHANGED <<Saved, Given, Waiting>>
  BY <1>1 DEF Saved, Given, Waiting
<1>4. /\ Coded' = Coded \cup {e.frame} \/ Coded' = Coded
      /\ Sorted(FramesOf(coded'))
  <2>1. Before(Coded, {e.frame})
    BY <1>2 DEF OrderInv, InOrder, Before
  <2> QED
    BY <2>1, <1>1, <1>2, AddInput DEF OrderInv, InOrder, Coded
<1>5. InOrder'
  BY <1>1, <1>2, <1>3, <1>4 DEF OrderInv, InOrder, Before
<1>6. Gone' \subseteq Gone
  BY <1>1, <1>2, <1>3, <1>4 DEF Gone, Piped
<1>7. HeldLast'
  BY <1>1, <1>6, HeldKept DEF OrderInv
<1>8. Apart'
  BY <1>1, <1>3 DEF OrderInv, Apart
<1> QED
  BY <1>5, <1>7, <1>8

(* A buffer collected holds the oldest frame coded, saved or dropped.      *)
LEMMA CollectOrder ==
  ASSUME OrderInv, OnGetBitstreamBuffer
  PROVE  InOrder' /\ HeldLast' /\ Apart'
<1> DEFINE e == Head(coded)
<1>1. /\ coded # <<>> /\ coded \in Seq(Input) /\ coded' = Tail(coded)
      /\ UNCHANGED <<submitted, given, waiting, refused>> /\ UNCHANGED heldVars
  BY DEF OnGetBitstreamBuffer, BitstreamUnchanged, OrderInv, TypeInv, TypeOK,
         LabelQueued, trackVars, heldVars
<1>2. /\ e \in Input /\ e.frame \in Frame /\ Sorted(FramesOf(coded'))
      /\ Coded = {e.frame} \cup Coded'
      /\ Before({e.frame}, Coded')
  BY <1>1, TakeInput DEF OrderInv, InOrder, Coded
<1>3. UNCHANGED <<Submitted, Given, Waiting>>
  BY <1>1 DEF Submitted, Given, Waiting
<1>4. Saved' = Saved \/ Saved' = {e.frame}
  <2>1. recorded' = recorded \/ recorded'.frame = e.frame
    BY DEF OnGetBitstreamBuffer
  <2>2. CASE recorded' = recorded
    BY <2>2 DEF Saved
  <2>3. CASE recorded' # recorded
    <3>1. recorded'.label \in 1 .. MaxTs
      <4>1. recorded' \in Block \cup {NoBlock}
        BY CollectType DEF OrderInv, TypeInv, TypeOK
      <4>2. recorded' = [frame |-> e.frame, label |-> Head(timestamps),
                         key |-> e.key]
        BY <2>3 DEF OnGetBitstreamBuffer
      <4>3. "frame" \in DOMAIN recorded' /\ "frame" \notin DOMAIN NoBlock
        BY <4>2 DEF NoBlock
      <4> QED
        BY <4>1, <4>3 DEF Block
    <3>2. recorded' # NoBlock
      BY <3>1 DEF NoBlock
    <3> QED
      BY <2>1, <2>3, <3>2 DEF Saved
  <2> QED
    BY <2>2, <2>3
<1> HIDE DEF e
<1>5. InOrder'
  BY <1>1, <1>2, <1>3, <1>4 DEF OrderInv, InOrder, Before
<1>6. Gone' \subseteq Gone
  BY <1>1, <1>2, <1>3, <1>4 DEF Gone, Piped
<1>7. HeldLast'
  BY <1>1, <1>6, HeldKept DEF OrderInv
<1>8. Apart'
  BY <1>1, <1>3 DEF OrderInv, Apart
<1> QED
  BY <1>5, <1>7, <1>8

(* A frame that comes back to its track unused leaves its stage.           *)
LEMMA ReturnOrder ==
  ASSUME OrderInv,
         \/ OnEncoderFrameNotCopied
         \/ \E f \in refused : OnEncoderFrameRefused(f)
         \/ OnEncoderFrameAborted
  PROVE  InOrder' /\ HeldLast' /\ Apart'
<1>1. /\ UNCHANGED <<coded, submitted, recorded>> /\ UNCHANGED heldVars
      /\ UNCHANGED <<Saved, Coded, Submitted>>
  BY DEF OnEncoderFrameNotCopied, OnEncoderFrameRefused, OnEncoderFrameAborted,
         RecycleFrame, browserVars, auxVars, heldVars, Saved, Coded, Submitted
<1>2. /\ Sorted(given') /\ Given' \subseteq Given
      /\ Waiting' \subseteq Waiting /\ refused' \subseteq refused
  <2>1. CASE OnEncoderFrameNotCopied
    <3>1. given # <<>> /\ given' = Tail(given) /\ UNCHANGED <<waiting, refused>>
      BY <2>1 DEF OnEncoderFrameNotCopied
    <3>2. given \in Seq(Frame) /\ Sorted(given)
      BY DEF OrderInv, InOrder, TypeInv, TypeOK
    <3> QED
      BY <3>1, <3>2, TakeHead DEF Given, Waiting
  <2>2. CASE (\E f \in refused : OnEncoderFrameRefused(f)) \/ OnEncoderFrameAborted
    BY <2>2 DEF OnEncoderFrameRefused, OnEncoderFrameAborted, OrderInv, InOrder,
                Given, Waiting
  <2> QED
    BY <2>1, <2>2
<1>3. InOrder'
  BY <1>1, <1>2 DEF OrderInv, InOrder, Before
<1>4. Gone' \subseteq Gone
  BY <1>1, <1>2 DEF Gone, Piped
<1>5. HeldLast'
  BY <1>1, <1>4, HeldKept DEF OrderInv
<1>6. Apart'
  BY <1>2 DEF OrderInv, Apart
<1> QED
  BY <1>3, <1>5, <1>6

(* Every step keeps the order of the pipeline.                              *)
LEMMA NextOrder == ASSUME OrderInv, [Next]_vars PROVE OrderInv'
<1>1. TypeInv'
  BY NextTypeInv DEF OrderInv
<1>2. InOrder' /\ HeldLast' /\ Apart'
  <2>1. CASE \E t \in Tracks : StopTrack(t) \/ TrackStep(t)
    BY <2>1, StopOrder, TrackOrder
  <2>2. CASE GetEncoderFrameTick \/ GiveInput \/ OnEncoderFrame
    BY <2>2, TickOrder, GiveOrder, EncodeOrder
  <2>3. CASE Code \/ CodeFailed \/ OnGetBitstreamBuffer
    BY <2>3, CodeOrder, CollectOrder
  <2>4. CASE \/ OnEncoderFrameNotCopied
             \/ \E f \in refused : OnEncoderFrameRefused(f)
             \/ OnEncoderFrameAborted
    BY <2>4, ReturnOrder
  <2>5. CASE /\ ~\E t \in Tracks : StopTrack(t) \/ TrackStep(t)
             /\ ~GetEncoderFrameTick /\ ~OnEncoderFrame
             /\ ~OnEncoderFrameNotCopied
             /\ ~\E f \in refused : OnEncoderFrameRefused(f)
             /\ ~OnEncoderFrameAborted /\ ~OnGetBitstreamBuffer
             /\ ~GiveInput /\ ~Code /\ ~CodeFailed
    <3>1. UNCHANGED pipeVars /\ UNCHANGED heldVars
      BY <2>5, QuietKept
    <3> QED
      BY <3>1, StagesKept, HeldKept DEF OrderInv
  <2> QED
    BY <2>1, <2>2, <2>3, <2>4, <2>5
<1> QED
  BY <1>1, <1>2 DEF OrderInv

(* The order holds throughout, whatever fails and whichever track is used. *)
LEMMA OrderInvariant == Spec => []OrderInv
<1>1. Init => OrderInv
  BY InitOrder
<1>2. OrderInv /\ [Next]_vars => OrderInv'
  BY NextOrder
<1> QED
  BY <1>1, <1>2, PTL DEF Spec
-----------------------------------------------------------------------------
(* The file. *)

(* The last label compared with is no older than the last one written: a   *)
(* block the muxer failed to take leaves it behind.                        *)
LastLabel == recorded.label <= lastTs

FileInv == OrderInv /\ InStep /\ LastLabel

(* The steps that save nothing.                                            *)
LEMMA RecordedKept ==
  ASSUME [Next]_vars, ~OnGetBitstreamBuffer
  PROVE  UNCHANGED <<recorded, lastTs>>
<1> USE DEF vars, fieldVars, requestVars, browserVars, auxVars
<1>1. CASE UNCHANGED vars
  BY <1>1
<1>2. CASE Next
  <2>1. CASE \E t \in Tracks :
               AddTrack(t) \/ SetTrack(t) \/ StopTrack(t) \/ TrackStep(t)
    BY <2>1 DEF AddTrack, SetTrack, StopTrack, TrackStep
  <2>2. CASE Encode \/ StopEncode \/ CloseEncoder \/ ClearTracks
               \/ ClearEncoding \/ FinishMuxer \/ DeleteEncoder
    BY <2>2 DEF Encode, StopEncode, CloseEncoder, ClearTracks, ClearEncoding,
                FinishMuxer, DeleteEncoder
  <2>3. CASE OnInitializedEncoder \/ InitializeFailed \/ GetEncoderFrameTick
               \/ LastTick
    BY <2>3 DEF OnInitializedEncoder, InitializeFailed, GetEncoderFrameTick,
                LastTick
  <2>4. CASE OnEncoderFrame \/ OnEncoderFrameNotCopied \/ OnEncoderFrameAborted
               \/ (\E f \in refused : OnEncoderFrameRefused(f))
    BY <2>4 DEF OnEncoderFrame, EncodeFrame, OnEncoderFrameNotCopied,
                OnEncoderFrameRefused, OnEncoderFrameAborted
  <2>5. CASE BitstreamLoopEnds \/ BitsReady \/ GiveInput \/ OnEncodeDone
               \/ Code \/ CodeFailed
    BY <2>5 DEF BitstreamLoopEnds, BitsReady, GiveInput, OnEncodeDone, Code,
                CodeFailed
  <2> QED
    BY <1>2, <2>1, <2>2, <2>3, <2>4, <2>5, NextCases
<1> QED
  BY <1>1, <1>2

(* A buffer collected while no Encode fails: its label is its frame's own, *)
(* and it is saved unless that is older than the last one.                 *)
LEMMA Collected ==
  ASSUME TypeInv, InStep, "encode" \notin Faults, OnGetBitstreamBuffer
  PROVE  LET in == Head(coded) IN
           /\ coded # <<>> /\ in \in Input /\ Head(timestamps) = in.frame.ts
           /\ \/ /\ lastTs' = in.frame.ts /\ in.frame.ts >= lastTs
                 /\ recorded' \in {recorded, [frame |-> in.frame, key |-> in.key,
                                              label |-> in.frame.ts]}
              \/ UNCHANGED <<lastTs, recorded>>
<1>1. /\ coded # <<>> /\ coded \in Seq(Input) /\ timestamps \in Seq(1 .. MaxTs)
      /\ submitted \in Seq(Input)
  BY DEF OnGetBitstreamBuffer, TypeInv, TypeOK, LabelQueued
<1>2. /\ Head(coded) \in Input /\ Head(coded) = coded[1]
      /\ Len(coded) \in Nat /\ Len(coded) > 0 /\ Len(submitted) \in Nat
  BY <1>1, TailFacts, LenProperties
<1>3. timestamps # <<>> /\ timestamps[1] = coded[1].frame.ts
  <2>1. /\ Len(timestamps) = Len(coded) + Len(submitted)
        /\ \A i \in 1 .. Len(coded) : timestamps[i] = coded[i].frame.ts
    BY DEF InStep
  <2> QED
    BY <2>1, <1>2, EmptySeq
<1>4. Head(timestamps) = Head(coded).frame.ts
  BY <1>1, <1>2, <1>3, TailFacts
<1> QED
  BY <1>1, <1>2, <1>4 DEF OnGetBitstreamBuffer

(* What is saved is a frame of the past, no older than the last label, and *)
(* younger than the last block of its track.                               *)
LEMMA SaveStep ==
  ASSUME FileInv, "encode" \notin Faults, OnGetBitstreamBuffer,
         recorded' # recorded
  PROVE  File!Save /\ LastLabel'
<1> DEFINE in == Head(coded)
           f == in.frame
<1>1. /\ coded # <<>> /\ in \in Input /\ lastTs' = f.ts /\ f.ts >= lastTs
      /\ recorded' = [frame |-> f, key |-> in.key, label |-> f.ts]
  BY Collected DEF FileInv, OrderInv
<1>2. f \in Frame /\ in.key \in BOOLEAN
  BY <1>1 DEF Input
<1>3. f.track \in Tracks /\ f.ts \in 1 .. MaxTs /\ f = [track |-> f.track, ts |-> f.ts]
  BY <1>2 DEF Frame
<1>4. f \in Coded
  <2>1. coded \in Seq(Input) /\ Sorted(FramesOf(coded))
    BY DEF FileInv, OrderInv, InOrder, TypeInv, TypeOK
  <2> QED
    BY <2>1, <1>1, TakeInput DEF Coded
<1> HIDE DEF f
<1>5. f.ts <= clock[f.track]
  BY <1>4 DEF FileInv, OrderInv, HeldLast, Gone, Piped
<1>6. /\ recorded # NoBlock => recorded.frame.track # f.track
                                 \/ recorded.frame.ts < f.ts
  BY <1>4 DEF FileInv, OrderInv, InOrder, Before, Older, Saved
<1>7. /\ clock[f.track] \in Nat /\ MaxTs \in Nat
      /\ lastTs \in Nat /\ recorded.label \in Nat
  <2>1. /\ lastTs \in 0 .. MaxTs /\ recorded \in Block \cup {NoBlock}
        /\ clock \in [Tracks -> 0 .. MaxTs] /\ MaxTs \in Nat
    BY TrackAssumption DEF FileInv, OrderInv, TypeInv, TypeOK, TrackTypeOK
  <2>2. recorded.label \in Nat
    BY <2>1 DEF Block, NoBlock
  <2> QED
    BY <2>1, <2>2, <1>3
<1>8. f.ts >= recorded.label
  BY <1>1, <1>3, <1>7 DEF FileInv, LastLabel
<1>9. UNCHANGED clock
  BY DEF OnGetBitstreamBuffer, BitstreamUnchanged, trackVars
<1>10. f.ts \in 1 .. clock[f.track]
  BY <1>3, <1>5, <1>7
<1>11. recorded' = [frame |-> [track |-> f.track, ts |-> f.ts],
                    label |-> f.ts, key |-> in.key]
  BY <1>1, <1>3 DEF f
<1> HIDE DEF in
<1>12. recorded # File!NoBlock => recorded.frame.track # f.track
                                    \/ recorded.frame.ts < f.ts
  BY <1>6 DEF NoBlock, File!NoBlock
<1>13. File!Save
  BY <1>2, <1>3, <1>8, <1>9, <1>10, <1>11, <1>12 DEF File!Save
<1>14. LastLabel'
  BY <1>1, <1>3, <1>11 DEF LastLabel
<1> QED
  BY <1>13, <1>14

(* A step of VideoEncoder is a step of Recording, or none.                  *)
LEMMA FileStep ==
  ASSUME FileInv, "encode" \notin Faults, [Next]_vars
  PROVE  [File!Next]_<<clock, recorded>> /\ LastLabel'
<1>1. CASE OnGetBitstreamBuffer
  <2>1. CASE recorded' # recorded
    BY <1>1, <2>1, SaveStep DEF File!Next
  <2>2. CASE recorded' = recorded
    <3>1. UNCHANGED clock
      BY <1>1 DEF OnGetBitstreamBuffer, BitstreamUnchanged, trackVars
    <3>2. LastLabel'
      <4>1. /\ lastTs' = lastTs \/ lastTs' >= lastTs
            /\ lastTs \in Nat /\ lastTs' \in Nat /\ recorded.label \in Nat
        <5>1. /\ lastTs \in 0 .. MaxTs /\ lastTs' \in 0 .. MaxTs
              /\ recorded \in Block \cup {NoBlock} /\ MaxTs \in Nat
          BY NextTypeInv, TrackAssumption DEF FileInv, OrderInv, TypeInv, TypeOK
        <5>2. recorded.label \in Nat
          BY <5>1 DEF Block, NoBlock
        <5>3. lastTs' = lastTs \/ lastTs' >= lastTs
          BY <1>1, Collected DEF FileInv, OrderInv
        <5> QED
          BY <5>1, <5>2, <5>3
      <4> QED
        BY <2>2, <4>1 DEF FileInv, LastLabel
    <3> QED
      BY <2>2, <3>1, <3>2
  <2> QED
    BY <2>1, <2>2
<1>2. CASE ~OnGetBitstreamBuffer
  <2>1. UNCHANGED <<recorded, lastTs>> /\ LastLabel'
    BY <1>2, RecordedKept DEF FileInv, LastLabel
  <2>2. CASE \E t \in Tracks : Capture(t)
    <3>1. File!Capture
      BY <2>1, <2>2 DEF Capture, File!Capture
    <3> QED
      BY <2>1, <3>1 DEF File!Next
  <2>3. CASE ~\E t \in Tracks : Capture(t)
    <3>1. UNCHANGED clock
      <4>1. ASSUME NEW t \in Tracks, TrackStep(t) PROVE UNCHANGED clock
        BY <2>3, <4>1 DEF TrackStep, TrackCallback, ConfigureDone,
           ConfigureFailed, TrackFramesLoop, TrackFramesAborted, TrackFramesFailed
      <4>2. CASE \E t \in Tracks : StopTrack(t)
        BY <4>2 DEF StopTrack, StopTracking, ClearTracking, RecycleCurrent,
                    CloseTrack
      <4>3. CASE GetEncoderFrameTick
        BY <4>3 DEF GetEncoderFrameTick, TakeFrame, trackVars
      <4>4. CASE \/ OnEncoderFrame \/ OnEncoderFrameNotCopied
                 \/ \E f \in refused : OnEncoderFrameRefused(f)
                 \/ OnEncoderFrameAborted
        BY <4>4 DEF OnEncoderFrame, OnEncoderFrameNotCopied, RecycleFrame,
                    OnEncoderFrameRefused, OnEncoderFrameAborted
      <4>5. CASE GiveInput \/ Code \/ CodeFailed
        BY <4>5 DEF GiveInput, Code, CodeFailed, trackVars
      <4> QED
        BY <1>2, <4>1, <4>2, <4>3, <4>4, <4>5, QuietKept DEF heldVars
    <3> QED
      BY <2>1, <3>1
  <2> QED
    BY <2>2, <2>3
<1> QED
  BY <1>1, <1>2

(* FileSpec: while no Encode fails, whatever else does and whichever       *)
(* tracks are used, the blocks of the file are frames that were captured,  *)
(* under their own timestamps, never older than the block before and never *)
(* the same frame again (OnGetBitstreamBuffer).                            *)
THEOREM FileKept == ASSUME "encode" \notin Faults PROVE Spec => FileSpec
<1>1. Init => FileInv /\ File!Init
  <2>1. ASSUME Init PROVE InStep /\ LastLabel /\ File!Init
    <3>1. InStep
      BY <2>1, EmptySeq DEF Init, InStep
    <3> QED
      BY <2>1, <3>1 DEF Init, TrackInit, LastLabel, NoBlock, File!Init, File!NoBlock
  <2> QED
    BY <2>1, InitOrder DEF FileInv
<1>2. FileInv /\ [Next]_vars => FileInv'
  BY NextOrder, InStepNext, FileStep DEF FileInv, OrderInv
<1>3. FileInv /\ [Next]_vars => [File!Next]_<<clock, recorded>>
  BY FileStep
<1> QED
  BY <1>1, <1>2, <1>3, PTL DEF Spec, FileSpec, File!Spec

-----------------------------------------------------------------------------
(* The contract with the tracks. *)

(* Before any track change, all that was taken was taken from the track in *)
(* use, so giving it back there gives it back where it came from.          *)
OneTrack ==
  switches = 0 => newTrack = NoTrack /\ \A f \in Taken : f.track = track

(* The elements of a sequence of frames, in TrackClient's words.            *)
LEMMA TakenIs ==
  ASSUME NEW q \in Seq(Frame)
  PROVE  {q[i] : i \in DOMAIN q} = Elems(q) /\ Elems(q) \subseteq Frame
BY LenProperties, ElementOfSeq DEF Elems

(* A tick takes the frame the track in use holds, or nothing.              *)
LEMMA TickTakes ==
  ASSUME OrderInv, GetEncoderFrameTick
  PROVE  /\ newTrack' = NoTrack /\ track' = NextTrack /\ UNCHANGED switches
         /\ \/ UNCHANGED <<trackVars, Taken>>
            \/ /\ NextTrack \in Tracks /\ current[NextTrack] # NoFrame
               /\ current[NextTrack].track = NextTrack
               /\ TakeFrame(NextTrack)
               /\ Taken' = Taken \cup {current[NextTrack]}
<1>1. newTrack' = NoTrack /\ track' = NextTrack /\ UNCHANGED <<switches, given>>
  BY DEF GetEncoderFrameTick, auxVars
<1>2. CASE ~(receiving /\ NextTrack # NoTrack /\ current[NextTrack] # NoFrame)
  BY <1>1, <1>2 DEF GetEncoderFrameTick, Taken
<1>3. CASE receiving /\ NextTrack # NoTrack /\ current[NextTrack] # NoFrame
  <2>1. NextTrack \in Tracks
    BY <1>3 DEF NextTrack, OrderInv, TypeInv, TypeOK
  <2>2. TakeFrame(NextTrack) /\ GetEncoderFrame(current[NextTrack])
    BY <1>3 DEF GetEncoderFrameTick
  <2>3. current[NextTrack].track = NextTrack
    BY <1>3, <2>1 DEF OrderInv, HeldLast, Later
  <2>4. Taken' = Taken \cup {current[NextTrack]}
    BY <1>1, <1>3, <2>2 DEF GetEncoderFrame, Taken
  <2> QED
    BY <1>1, <1>3, <2>1, <2>2, <2>3, <2>4
<1> QED
  BY <1>2, <1>3

(* Each answer to a request gives one frame back: it is in no other stage  *)
(* where frames are kept to be returned.                                   *)
LEMMA AnswerReturns ==
  ASSUME OrderInv, [Next]_vars,
         \/ OnEncoderFrame
         \/ OnEncoderFrameNotCopied
         \/ \E f \in refused : OnEncoderFrameRefused(f)
         \/ OnEncoderFrameAborted
  PROVE  /\ UNCHANGED <<newTrack, track, switches>>
         /\ \E f \in Taken : Taken' = Taken \ {f} /\ RecycleFrame(track, f)
<1>1. UNCHANGED <<newTrack, track, switches>>
  BY DEF OnEncoderFrame, OnEncoderFrameNotCopied, OnEncoderFrameRefused,
         OnEncoderFrameAborted, fieldVars, auxVars
<1>2. /\ Taken = Given \cup Waiting \cup refused /\ Taken \subseteq Frame
      /\ Taken' = Given' \cup Waiting' \cup refused'
  <2>1. given \in Seq(Frame) /\ given' \in Seq(Frame)
    BY NextTypeInv DEF OrderInv, TypeInv, TypeOK
  <2>2. Waiting \subseteq Frame /\ refused \subseteq Frame
    BY StagesAreFrames DEF OrderInv, TypeInv
  <2> QED
    BY <2>1, <2>2, TakenIs DEF Taken, Given, Waiting
<1>3. \A f, g \in Frame : Older(f, g) => f # g
  BY DEF Older, Frame
<1>4. CASE OnEncoderFrame \/ OnEncoderFrameNotCopied
  <2> DEFINE f == Head(given)
  <2>1. /\ given # <<>> /\ given \in Seq(Frame) /\ given' = Tail(given)
        /\ UNCHANGED <<waiting, refused>> /\ RecycleFrame(track, f)
    BY <1>4 DEF OnEncoderFrame, OnEncoderFrameNotCopied, OrderInv, TypeInv, TypeOK
  <2>2. /\ f \in Frame /\ Given = {f} \cup Given' /\ Before({f}, Given')
    BY <2>1, TakeHead DEF OrderInv, InOrder, Given
  <2> HIDE DEF f
  <2>3. Given \subseteq Frame /\ Waiting \subseteq Frame
    BY <1>2
  <2>4. f \notin Given'
    BY <1>3, <2>2 DEF Before
  <2>5. f \notin Waiting
    BY <1>3, <2>2, <2>3 DEF OrderInv, InOrder, Before
  <2>6. f \notin refused
    BY <2>2 DEF OrderInv, Apart
  <2>7. Waiting' = Waiting /\ refused' = refused
    BY <2>1 DEF Waiting
  <2> QED
    BY <1>1, <1>2, <2>1, <2>2, <2>4, <2>5, <2>6, <2>7
<1>5. ASSUME NEW f \in refused, OnEncoderFrameRefused(f)
      PROVE  Taken' = Taken \ {f} /\ RecycleFrame(track, f)
  <2>1. Given' = Given /\ Waiting' = Waiting /\ refused' = refused \ {f}
    BY <1>5 DEF OnEncoderFrameRefused, Given, Waiting
  <2> QED
    BY <1>2, <1>5, <2>1 DEF OnEncoderFrameRefused, OrderInv, Apart
<1>6. CASE OnEncoderFrameAborted
  <2>1. /\ Given' = Given /\ refused' = refused /\ RecycleFrame(track, waiting)
        /\ Waiting = {waiting} /\ Waiting' = {}
    BY <1>6 DEF OnEncoderFrameAborted, Given, Waiting
  <2>2. Given \subseteq Frame /\ waiting \in Frame
    BY <1>2, <2>1
  <2>3. waiting \notin Given
    BY <1>3, <2>1, <2>2 DEF OrderInv, InOrder, Before
  <2>4. waiting \notin refused
    BY <2>1 DEF OrderInv, Apart
  <2> QED
    BY <1>1, <1>2, <2>1, <2>3, <2>4
<1> QED
  BY <1>1, <1>2, <1>4, <1>5, <1>6

(* The other steps take nothing and give nothing back; of the tracks they  *)
(* ask only that they start or stop.                                       *)
LEMMA OthersTakeNothing ==
  ASSUME OrderInv, [Next]_vars, ~GetEncoderFrameTick, ~OnEncoderFrame,
         ~OnEncoderFrameNotCopied, ~\E f \in refused : OnEncoderFrameRefused(f),
         ~OnEncoderFrameAborted
  PROVE  /\ Taken' = Taken
         /\ \/ UNCHANGED trackVars
            \/ \E S \in SUBSET Tracks : StartTracking(S)
            \/ \E t \in Tracks :
                 StopTracking(t) \/ Capture(t) \/ TrackCallback(t)
<1> USE DEF fieldVars, requestVars, browserVars, auxVars
<1>1. tracks \in SUBSET Tracks
  BY DEF OrderInv, TypeInv, TypeOK
<1>2. CASE UNCHANGED vars
  BY <1>2 DEF vars, Taken
<1>3. CASE Next
  <2>1. CASE \E t \in Tracks : AddTrack(t) \/ SetTrack(t)
    BY <2>1 DEF AddTrack, SetTrack, Taken
  <2>2. CASE \E t \in Tracks : StopTrack(t) \/ TrackStep(t)
    BY <2>2 DEF StopTrack, TrackStep, Taken
  <2>3. CASE Encode
    <3>1. StartTracking(tracks) /\ Taken' = Taken
      BY <2>3 DEF Encode, Taken
    <3> QED
      BY <1>1, <3>1
  <2>4. CASE StopEncode \/ CloseEncoder \/ ClearTracks \/ ClearEncoding
               \/ FinishMuxer \/ DeleteEncoder
    BY <2>4 DEF StopEncode, CloseEncoder, ClearTracks, ClearEncoding,
                FinishMuxer, DeleteEncoder, Taken
  <2>5. CASE OnInitializedEncoder \/ InitializeFailed \/ LastTick
    BY <2>5 DEF OnInitializedEncoder, InitializeFailed, LastTick, Taken
  <2>6. CASE OnEncodeDone \/ OnGetBitstreamBuffer \/ BitstreamLoopEnds
               \/ BitsReady \/ Code \/ CodeFailed
    BY <2>6 DEF OnEncodeDone, OnGetBitstreamBuffer, BitstreamUnchanged,
                BitstreamLoopEnds, BitsReady, Code, CodeFailed, Taken
  <2>7. CASE GiveInput
    <3>1. UNCHANGED trackVars
      BY <2>7 DEF GiveInput
    <3>2. /\ waiting \in Frame /\ waiting # NoFrame /\ given \in Seq(Frame)
          /\ given' = Append(given, waiting) /\ waiting' = NoFrame
          /\ UNCHANGED refused
      BY <2>7 DEF GiveInput, OrderInv, TypeInv, TypeOK
    <3>3. Given' = Given \cup {waiting} /\ Waiting = {waiting} /\ Waiting' = {}
      BY <3>2, AddLast DEF Given, Waiting
    <3>4. given \in Seq(Frame) /\ given' \in Seq(Frame)
      BY <1>3, NextTypeInv DEF OrderInv, TypeInv, TypeOK
    <3>5. Taken = Given \cup Waiting \cup refused
            /\ Taken' = Given' \cup Waiting' \cup refused'
      BY <3>4, TakenIs DEF Taken, Given, Waiting
    <3> QED
      BY <3>1, <3>2, <3>3, <3>5
  <2> QED
    BY <1>3, <2>1, <2>2, <2>3, <2>4, <2>5, <2>6, <2>7, NextCases
<1> QED
  BY <1>2, <1>3

(* A recording begins without a track change and with nothing taken.        *)
LEMMA InitOneTrack == ASSUME Init PROVE OneTrack /\ Taken = {}
BY EmptySeq DEF Init, OneTrack, Taken

(* The track in use changes only where it is set and where a tick begins.  *)
LEMMA InUseKept ==
  ASSUME [Next]_vars, ~GetEncoderFrameTick, ~\E t \in Tracks : SetTrack(t)
  PROVE  UNCHANGED <<track, newTrack, switches>>
<1> USE DEF fieldVars, requestVars, browserVars, auxVars
<1>1. CASE UNCHANGED vars
  BY <1>1 DEF vars
<1>2. CASE \E t \in Tracks : AddTrack(t) \/ StopTrack(t) \/ TrackStep(t)
  BY <1>2 DEF AddTrack, StopTrack, TrackStep
<1>3. CASE Encode \/ StopEncode \/ CloseEncoder \/ ClearTracks
             \/ ClearEncoding \/ FinishMuxer \/ DeleteEncoder
  BY <1>3 DEF Encode, StopEncode, CloseEncoder, ClearTracks, ClearEncoding,
              FinishMuxer, DeleteEncoder
<1>4. CASE OnInitializedEncoder \/ InitializeFailed \/ LastTick
  BY <1>4 DEF OnInitializedEncoder, InitializeFailed, LastTick
<1>5. CASE OnEncoderFrame \/ OnEncoderFrameNotCopied \/ OnEncoderFrameAborted
             \/ (\E f \in refused : OnEncoderFrameRefused(f))
  BY <1>5 DEF OnEncoderFrame, OnEncoderFrameNotCopied, OnEncoderFrameAborted,
              OnEncoderFrameRefused
<1>6. CASE OnEncodeDone \/ OnGetBitstreamBuffer \/ BitstreamLoopEnds
  BY <1>6 DEF OnEncodeDone, OnGetBitstreamBuffer, BitstreamUnchanged,
              BitstreamLoopEnds
<1>7. CASE BitsReady \/ GiveInput \/ Code \/ CodeFailed
  BY <1>7 DEF BitsReady, GiveInput, Code, CodeFailed
<1> QED
  BY <1>1, <1>2, <1>3, <1>4, <1>5, <1>6, <1>7, NextCases

(* A track is put in use at once only while nothing has been taken.        *)
LEMMA NextOneTrack ==
  ASSUME OrderInv, OneTrack, [Next]_vars
  PROVE  OneTrack'
<1>1. CASE GetEncoderFrameTick
  <2>1. NextTrack = track \/ switches # 0
    BY DEF OneTrack, NextTrack
  <2> QED
    BY <1>1, <2>1, TickTakes DEF OneTrack
<1>2. CASE \/ OnEncoderFrame \/ OnEncoderFrameNotCopied
           \/ \E f \in refused : OnEncoderFrameRefused(f)
           \/ OnEncoderFrameAborted
  BY <1>2, AnswerReturns DEF OneTrack
<1>3. CASE \E t \in Tracks : SetTrack(t)
  <2>1. PICK t \in Tracks : SetTrack(t)
    BY <1>3
  <2>2. Taken' = Taken
    BY <2>1 DEF SetTrack, requestVars, Taken
  <2>3. CASE track = NoTrack /\ UNCHANGED <<newTrack, switches>>
    <3>1. \A f \in Taken : f.track \in Tracks
      <4>1. Taken \subseteq Frame
        BY TakenIs DEF Taken, OrderInv, TypeInv, TypeOK
      <4> QED
        BY <4>1 DEF Frame
    <3>2. switches = 0 => Taken = {}
      BY <2>3, <3>1, EncoderAssumption DEF OneTrack
    <3> QED
      BY <2>2, <2>3, <3>2 DEF OneTrack
  <2>4. CASE switches' = switches + 1
    BY <2>4 DEF OneTrack, OrderInv, TypeInv, TypeOK
  <2> QED
    BY <2>1, <2>3, <2>4 DEF SetTrack
<1>4. CASE /\ ~GetEncoderFrameTick
           /\ ~OnEncoderFrame /\ ~OnEncoderFrameNotCopied
           /\ ~\E f \in refused : OnEncoderFrameRefused(f)
           /\ ~OnEncoderFrameAborted
           /\ ~\E t \in Tracks : SetTrack(t)
  <2>1. Taken' = Taken
    BY <1>4, OthersTakeNothing
  <2>2. UNCHANGED <<track, newTrack, switches>>
    BY <1>4, InUseKept
  <2> QED
    BY <2>1, <2>2 DEF OneTrack
<1> QED
  BY <1>1, <1>2, <1>3, <1>4

(* Until a track change is asked for, every step is one the contract       *)
(* allows, or none of its business.                                        *)
LEMMA ContractStep ==
  ASSUME OrderInv, OneTrack, switches = 0, [Next]_vars
  PROVE  [Contract!Next]_(Contract!clientVars)
<1> USE DEF Contract!clientVars, Contract!trackVars, trackVars
<1>1. CASE GetEncoderFrameTick
  <2>1. CASE UNCHANGED <<trackVars, Taken>>
    BY <2>1
  <2>2. CASE /\ NextTrack \in Tracks /\ current[NextTrack] # NoFrame
             /\ TakeFrame(NextTrack)
             /\ Taken' = Taken \cup {current[NextTrack]}
    <3>1. Contract!Take(NextTrack)
      BY <2>2 DEF TakeFrame, Contract!Take, Contract!TakeFrame
    <3> QED
      BY <2>2, <3>1 DEF Contract!Next
  <2> QED
    BY <1>1, <2>1, <2>2, TickTakes
<1>2. CASE \/ OnEncoderFrame \/ OnEncoderFrameNotCopied
           \/ \E f \in refused : OnEncoderFrameRefused(f)
           \/ OnEncoderFrameAborted
  <2>1. PICK f \in Taken : Taken' = Taken \ {f} /\ RecycleFrame(track, f)
    BY <1>2, AnswerReturns
  <2>2. f.track = track
    BY DEF OneTrack
  <2>3. Contract!GiveBack(f)
    BY <2>1, <2>2 DEF RecycleFrame, Recycled, Contract!GiveBack,
                      Contract!RecycleFrame, Contract!Recycled
  <2> QED
    BY <2>3 DEF Contract!Next
<1>3. CASE /\ ~GetEncoderFrameTick
           /\ ~OnEncoderFrame /\ ~OnEncoderFrameNotCopied
           /\ ~\E f \in refused : OnEncoderFrameRefused(f)
           /\ ~OnEncoderFrameAborted
  <2>1. Taken' = Taken
    BY <1>3, OthersTakeNothing
  <2>2. CASE UNCHANGED trackVars
    BY <2>1, <2>2
  <2>3. ASSUME NEW S \in SUBSET Tracks, StartTracking(S)
        PROVE  Contract!Start(S)
    BY <2>1, <2>3 DEF StartTracking, Contract!Start, Contract!StartTracking
  <2>4. ASSUME NEW t \in Tracks, StopTracking(t)
        PROVE  Contract!Stop(t)
    BY <2>1, <2>4 DEF StopTracking, ClearTracking, RecycleCurrent, CloseTrack,
       Recycled, Contract!Stop, Contract!StopTracking, Contract!ClearTracking,
       Contract!RecycleCurrent, Contract!CloseTrack, Contract!Recycled
  <2>5. ASSUME NEW t \in Tracks, Capture(t) \/ TrackCallback(t)
        PROVE  Contract!Capture(t) \/ Contract!TrackCallback(t)
    <3>1. CASE Capture(t)
      <4>1. Contract!Cardinality(lent[t]) = Cardinality(lent[t])
        BY Zenon DEF Cardinality, Contract!Cardinality
      <4> QED
        BY <3>1, <4>1 DEF Capture, Contract!Capture
    <3>2. CASE TrackCallback(t)
      <4>1. CASE ConfigureDone(t)
        BY <4>1 DEF ConfigureDone, Contract!TrackCallback, Contract!ConfigureDone
      <4>2. CASE ConfigureFailed(t)
        BY <4>2 DEF ConfigureFailed, Contract!TrackCallback,
                    Contract!ConfigureFailed
      <4>3. CASE TrackFramesLoop(t)
        <5>1. Contract!TrackFramesLoop(t)
          BY <4>3 DEF TrackFramesLoop, Recycled, Contract!TrackFramesLoop,
                      Contract!Recycled
        <5> QED
          BY <5>1 DEF Contract!TrackCallback
      <4>4. CASE TrackFramesAborted(t)
        BY <4>4 DEF TrackFramesAborted, Contract!TrackCallback,
                    Contract!TrackFramesAborted
      <4>5. CASE TrackFramesFailed(t)
        BY <4>5 DEF TrackFramesFailed, Recycled, Contract!TrackCallback,
                    Contract!TrackFramesFailed, Contract!Recycled
      <4> QED
        BY <3>2, <4>1, <4>2, <4>3, <4>4, <4>5 DEF TrackCallback
    <3> QED
      BY <2>5, <3>1, <3>2
  <2> QED
    BY <1>3, <2>1, <2>2, <2>3, <2>4, <2>5, OthersTakeNothing DEF Contract!Next
<1> QED
  BY <1>1, <1>2, <1>3

(* ContractSpec: a recording whose track is never changed takes the        *)
(* track's frames and gives each back to it once, whatever fails and       *)
(* whenever it is stopped (GetEncoderFrameTick, OnEncoderFrame).           *)
THEOREM ContractKept == ASSUME MaxSwitches = 0 PROVE Spec => ContractSpec
<1> DEFINE ContractInv == OrderInv /\ OneTrack /\ switches = 0
<1>1. Init => ContractInv /\ Contract!Init
  <2>1. Init => Contract!Init
    BY InitOneTrack DEF Init, TrackInit, Contract!Init, Contract!TrackInit
  <2> QED
    BY <2>1, InitOrder, InitOneTrack DEF Init
<1>2. ContractInv /\ [Next]_vars => ContractInv'
  <2> SUFFICES ASSUME ContractInv, [Next]_vars PROVE ContractInv'
    OBVIOUS
  <2>1. UNCHANGED switches
    BY TickTakes, InUseKept DEF SetTrack, auxVars
  <2> QED
    BY <2>1, NextOrder, NextOneTrack
<1>3. ContractInv /\ [Next]_vars => [Contract!Next]_(Contract!clientVars)
  BY ContractStep
<1> QED
  BY <1>1, <1>2, <1>3, PTL DEF Spec, ContractSpec, Contract!Spec

(* What the contract gives its client: the proofs about TrackClient, with  *)
(* its invariant.                                                          *)
Client == INSTANCE TrackClient_proofs WITH taken <- Taken

(* The initial states are those of TrackClient.                             *)
LEMMA ClientInit == ASSUME Init PROVE Client!IInv
<1>1. Client!Init
  BY InitOneTrack DEF Init, TrackInit, Client!Init, Client!TrackInit
<1>2. NoFrame \notin Client!Frame
  BY TrackAssumption DEF Frame, Client!Frame
<1> QED
  BY <1>1, <1>2, TrackAssumption, Client!InitInv

(* A step of VideoEncoder is a step of TrackClient, or none.                *)
LEMMA ClientStep ==
  ASSUME OrderInv, OneTrack, switches = 0, [Next]_vars, Client!IInv
  PROVE  Client!IInv'
<1>1. [Contract!Next]_(Contract!clientVars)
  BY ContractStep
<1>2. [Client!Next]_(Client!clientVars)
  <2>1. \A S : Contract!Cardinality(S) = Client!Cardinality(S)
    BY Zenon DEF Contract!Cardinality, Client!Cardinality
  <2>2. \A t : Contract!Capture(t) = Client!Capture(t)
    BY <2>1, Zenon DEF Contract!Capture, Client!Capture
  <2> QED
    BY <1>1, <2>2 DEF Contract!Next, Client!Next,
       Contract!clientVars, Client!clientVars,
       Contract!trackVars, Client!trackVars,
       Contract!Start, Client!Start, Contract!Stop, Client!Stop,
       Contract!StartTracking, Client!StartTracking,
       Contract!StopTracking, Client!StopTracking,
       Contract!ClearTracking, Client!ClearTracking,
       Contract!RecycleCurrent, Client!RecycleCurrent,
       Contract!CloseTrack, Client!CloseTrack,
       Contract!Take, Client!Take, Contract!TakeFrame, Client!TakeFrame,
       Contract!GiveBack, Client!GiveBack,
       Contract!RecycleFrame, Client!RecycleFrame,
       Contract!Recycled, Client!Recycled,
       Contract!TrackCallback, Client!TrackCallback,
       Contract!ConfigureDone, Client!ConfigureDone,
       Contract!ConfigureFailed, Client!ConfigureFailed,
       Contract!TrackFramesLoop, Client!TrackFramesLoop,
       Contract!TrackFramesAborted, Client!TrackFramesAborted,
       Contract!TrackFramesFailed, Client!TrackFramesFailed
<1>3. NoFrame \notin Client!Frame
  BY TrackAssumption DEF Frame, Client!Frame
<1> QED
  BY <1>1, <1>2, <1>3, TrackAssumption, Client!NextInv

(* RunningTracksHaveBuffers: as long as no track change has been asked for *)
(* a running track has a buffer to capture into, or waits for one that is  *)
(* on its way back: the frames the browser waits for are all in the        *)
(* plugin's hand (OnEncoderFrame, RecycleFrame).                           *)
THEOREM BuffersRemain == Spec => [](switches = 0 => RunningTracksHaveBuffers)
<1> DEFINE BufferInv ==
             OrderInv /\ OneTrack /\ (switches = 0 => Client!IInv)
<1>1. Init => BufferInv
  BY InitOrder, InitOneTrack, ClientInit
<1>2. BufferInv /\ [Next]_vars => BufferInv'
  <2> SUFFICES ASSUME BufferInv, [Next]_vars PROVE BufferInv'
    OBVIOUS
  <2>1. switches' = 0 => switches = 0
    BY TickTakes, InUseKept DEF SetTrack, OrderInv, TypeInv, TypeOK
  <2> QED
    BY <2>1, NextOrder, NextOneTrack, ClientStep
<1>3. BufferInv => (switches = 0 => RunningTracksHaveBuffers)
  <2> SUFFICES ASSUME BufferInv, switches = 0, NEW t \in tracks,
                      ~closed[t], halt[t] = "no"
               PROVE  Cardinality(lent[t] \ (Taken \cup {current[t], arrival[t]}))
                        < NumBuffers
    BY DEF RunningTracksHaveBuffers
  <2>1. t \in Tracks
    BY DEF OrderInv, TypeInv, TypeOK
  <2>2. lent[t] = Client!InHand(t)
    BY <2>1 DEF Client!IInv, Client!LentIsInHand
  <2>3. lent[t] \ (Taken \cup {current[t], arrival[t]}) = {}
    BY <2>2 DEF Client!InHand
  <2> QED
    BY <2>3, FS_EmptySet, TrackAssumption
<1> QED
  BY <1>1, <1>2, <1>3, PTL DEF Spec
=============================================================================
